-------------------------- MODULE CommitLogProofs --------------------------
(***************************************************************************)
(* Inv is an invariant of CommitLog, for every segment size, every set of  *)
(* records and batches and any number of crashes and failed writes: an     *)
(* acknowledged offset is never assigned again.                            *)
(***************************************************************************)
EXTENDS CommitLog, SegmentProofs, FiniteSetTheorems

(***************************************************************************)
(* What Inv says of an open log, in the form the steps below use it.       *)
(***************************************************************************)
LEMMA BasesNat == Bases \subseteq Nat /\ 0 \in Bases
BY CommitLogAssumption DEF Bases

\* An open log has an active segment, the last of its segments.
LEMMA OpenFacts ==
  ASSUME Inv, status = "open"
  PROVE  /\ Len(segments) \in Nat /\ Len(segments) >= 1
         /\ DOMAIN segments = 1..Len(segments)
         /\ Len(segments) \in DOMAIN segments
         /\ \A i \in 1..Len(segments) : segments[i] \in SegmentType
         /\ Active \in SegmentType
         /\ Active.baseOffset \in Nat /\ Active.nextOffset \in Nat
         /\ Active.baseOffset <= Active.nextOffset
         /\ Active.nextOffset <= MaxOffset
         /\ Active.baseOffset \in Bases
<1>1. segments \in Seq(SegmentType) /\ segments # << >>
  BY DEF Inv, TypeOK, SegmentsContiguous
<1>2. /\ Len(segments) \in Nat /\ Len(segments) >= 1
      /\ DOMAIN segments = 1..Len(segments)
      /\ \A i \in 1..Len(segments) : segments[i] \in SegmentType
  BY <1>1
<1>3. Len(segments) \in DOMAIN segments /\ Active \in SegmentType
  BY <1>2 DEF Active
<1>4. Active.baseOffset <= Active.nextOffset /\ Active.nextOffset <= MaxOffset
  BY <1>3 DEF Inv, SegmentsContiguous, BasesIncrease, Active
<1>5. Active.baseOffset \in Nat /\ Active.nextOffset \in Nat
  BY <1>3 DEF SegmentType
<1> QED BY <1>2, <1>3, <1>4, <1>5, CommitLogAssumption DEF Bases

\* Where NewSegment continues, in the present state and in the next.
LEMMA DiskHeadIs ==
  ASSUME TypeOK, NEW b \in Bases
  PROVE  DiskHead(b) = DiskNext(b, indexData[b])
BY DEF DiskHead, Opened, DiskNext

\* The same of the next state.
LEMMA DiskHeadIsNext ==
  ASSUME TypeOK', NEW b \in Bases
  PROVE  DiskHead(b)' = DiskNext(b, indexData'[b])
BY DEF DiskHead, Opened, DiskNext

(***************************************************************************)
(* Writing a batch, completely or in part.                                 *)
(***************************************************************************)
\* The index file of the active segment after the first j entries.
ActiveIndex(recs, j) ==
  indexData[Active.baseOffset] \o SubSeq(IndexBlock(Active, recs, compressed), 1, j)

\* What a write of any part of a batch leaves true of the files.
FilesWritten(j) ==
  /\ logData' \in [Bases -> Seq(Cell)]
  /\ indexData' \in [Bases -> Seq(IndexEntry)]
  /\ \A b \in Bases : b # Active.baseOffset => indexData'[b] = indexData[b]
  /\ \A b \in Bases : InRange(b, indexData'[b], MaxOffset)
  /\ Continues(Active.baseOffset, indexData'[Active.baseOffset], Active.nextOffset, j)

\* A write of part of a block extends the active files by at most the index
\* entries written.
LEMMA WriteBlockFiles ==
  ASSUME Inv, NEW recs \in Seq(Records), NEW ts \in Nat, CanAppend(recs),
         NEW j \in 0..Len(recs), NEW k \in Nat,
         k <= Len(LogBlock(Active, recs, ts, compressed)),
         WriteBlock(recs, ts, k, j)
  PROVE  FilesWritten(j)
<1> DEFINE b == Active.baseOffset
           block == LogBlock(Active, recs, ts, compressed)
<1>1. status = "open" /\ Active.nextOffset + Len(recs) <= MaxOffset
  BY DEF CanAppend, NextOffset
<1>2. /\ Active \in SegmentType /\ b \in Nat /\ Active.nextOffset \in Nat
      /\ b <= Active.nextOffset /\ b \in Bases
  BY <1>1, OpenFacts
<1>3. /\ compressed \in BOOLEAN
      /\ logData \in [Bases -> Seq(Cell)]
      /\ indexData \in [Bases -> Seq(IndexEntry)]
  BY DEF Inv, TypeOK
<1>4. block \in Seq(Cell)
  BY <1>2, <1>3, LogBlockType
<1>5. SubSeq(block, 1, k) \in Seq(Cell)
  <2> HIDE DEF block
  <2>1. \A i \in 1..k : block[i] \in Cell
    BY <1>4 DEF block
  <2> QED BY <2>1, SubSeqProperties
<1>6. logData' = [logData EXCEPT ![b] = @ \o SubSeq(block, 1, k)]
  BY DEF WriteBlock
<1>7. logData' \in [Bases -> Seq(Cell)]
  <2> HIDE DEF block, b
  <2> DEFINE new == logData[b] \o SubSeq(block, 1, k)
  <2>1. new \in Seq(Cell)
    BY <1>2, <1>3, <1>5, ConcatSeq
  <2>2. logData' = [logData EXCEPT ![b] = new]
    BY <1>6
  <2> QED BY <1>3, <2>1, <2>2, Zenon
<1>8. indexData' = [indexData EXCEPT ![b] = ActiveIndex(recs, j)]
  BY DEF WriteBlock, ActiveIndex
<1>9. \A c \in Bases : InRange(c, indexData[c], MaxOffset)
  BY DEF Inv, IndexesInRange, InRange
<1>10. Active.nextOffset <= DiskNext(b, indexData[b])
  BY <1>1, <1>2, DiskHeadIs DEF Inv, HeadIsNewest, NextOffset
<1>11. MaxOffset \in Nat
  BY CommitLogAssumption
<1>12. /\ ActiveIndex(recs, j) \in Seq(IndexEntry)
       /\ InRange(b, ActiveIndex(recs, j), MaxOffset)
       /\ Continues(b, ActiveIndex(recs, j), Active.nextOffset, j)
  <2>1. indexData[b] \in Seq(IndexEntry) /\ InRange(b, indexData[b], MaxOffset)
    BY <1>2, <1>3, <1>9, Zenon
  <2> HIDE DEF b
  <2> QED BY <1>1, <1>2, <1>3, <1>10, <1>11, <2>1, AppendedIndex, Zenon DEF ActiveIndex, b
<1> HIDE DEF b
<1>13. indexData'[b] = ActiveIndex(recs, j) /\ \A c \in Bases : c # b => indexData'[c] = indexData[c]
  BY <1>2, <1>3, <1>8, Zenon
<1>14. indexData' \in [Bases -> Seq(IndexEntry)]
  BY <1>2, <1>3, <1>8, <1>12, Zenon
<1>15. \A c \in Bases : InRange(c, indexData'[c], MaxOffset)
  BY <1>9, <1>12, <1>13, Zenon
<1> QED BY <1>7, <1>12, <1>13, <1>14, <1>15, Zenon DEF FilesWritten, b

(***************************************************************************)
(* Lists of segments that tile the offsets.                                *)
(***************************************************************************)
Tiled(s) ==
  /\ s \in Seq(SegmentType)
  /\ Len(s) >= 1
  /\ \A i \in 1..Len(s) : s[i].baseOffset <= s[i].nextOffset /\ s[i].nextOffset <= MaxOffset
  /\ \A i \in 1..(Len(s) - 1) : s[i].nextOffset = s[i+1].baseOffset
  /\ \A i, j \in 1..Len(s) : i < j => s[i].baseOffset < s[j].baseOffset

\* The fields of a segment.
LEMMA FieldTypes ==
  ASSUME NEW seg \in SegmentType
  PROVE  seg.baseOffset \in Nat /\ seg.nextOffset \in Nat /\ seg.open \in BOOLEAN
BY DEF SegmentType

\* The segments of an open log follow each other without a gap.
LEMMA TiledSegments ==
  ASSUME Inv, status = "open"
  PROVE  Tiled(segments)
<1>1. segments \in Seq(SegmentType) /\ Len(segments) >= 1 /\ DOMAIN segments = 1..Len(segments)
  BY OpenFacts DEF Inv, TypeOK
<1> QED BY <1>1 DEF Inv, SegmentsContiguous, BasesIncrease, Tiled

\* Only base and next offsets matter.
LEMMA TiledSame ==
  ASSUME NEW s, Tiled(s), NEW t \in Seq(SegmentType), Len(t) = Len(s),
         \A i \in 1..Len(s) : /\ t[i].baseOffset = s[i].baseOffset
                               /\ t[i].nextOffset = s[i].nextOffset
  PROVE  Tiled(t)
<1>1. Len(s) \in Nat
  BY DEF Tiled
<1> QED BY <1>1 DEF Tiled

\* Retention drops segments from the front.
LEMMA TiledSuffix ==
  ASSUME NEW s, Tiled(s), NEW k \in 0..(Len(s) - 1)
  PROVE  /\ Tiled(SubSeq(s, k + 1, Len(s)))
         /\ Len(SubSeq(s, k + 1, Len(s))) = Len(s) - k
         /\ \A i \in 1..(Len(s) - k) : SubSeq(s, k + 1, Len(s))[i] = s[k + i]
<1> DEFINE n == Len(s)
           t == SubSeq(s, k + 1, n)
<1>1. s \in Seq(SegmentType) /\ n \in Nat /\ k \in Nat /\ k + 1 <= n
  BY DEF Tiled
<1>2. \A i \in (k + 1)..n : s[i] \in SegmentType
  BY <1>1
<1>3. /\ t \in Seq(SegmentType)
      /\ Len(t) = IF k + 1 <= n THEN n - (k + 1) + 1 ELSE 0
      /\ \A i \in 1..(n - (k + 1) + 1) : t[i] = s[(k + 1) + i - 1]
  BY <1>1, <1>2, SubSeqProperties
<1> HIDE DEF t
<1>4. Len(t) = n - k /\ \A i \in 1..(n - k) : t[i] = s[k + i]
  BY <1>1, <1>3
<1>5. Tiled(t)
  <2>1. \A i \in 1..Len(t) : t[i].baseOffset <= t[i].nextOffset /\ t[i].nextOffset <= MaxOffset
    BY <1>1, <1>4 DEF Tiled
  <2>2. ASSUME NEW i \in 1..(Len(t) - 1)
        PROVE  t[i].nextOffset = t[i+1].baseOffset
    <3>1. k + i \in 1..(n - 1) /\ k + (i + 1) = (k + i) + 1
      BY <1>1, <1>4
    <3>2. t[i] = s[k + i] /\ t[i+1] = s[k + (i + 1)]
      BY <1>1, <1>4
    <3>3. s[k + i].nextOffset = s[(k + i) + 1].baseOffset
      BY <3>1 DEF Tiled
    <3> QED BY <3>1, <3>2, <3>3
  <2>3. ASSUME NEW i \in 1..Len(t), NEW j \in 1..Len(t), i < j
        PROVE  t[i].baseOffset < t[j].baseOffset
    <3>1. k + i \in 1..n /\ k + j \in 1..n /\ k + i < k + j
      BY <1>1, <1>4, <2>3
    <3>2. t[i] = s[k + i] /\ t[j] = s[k + j]
      BY <1>1, <1>4
    <3>3. s[k + i].baseOffset < s[k + j].baseOffset
      BY <3>1 DEF Tiled
    <3> QED BY <3>2, <3>3
  <2> QED BY <1>1, <1>3, <1>4, <2>1, <2>2, <2>3 DEF Tiled
<1> QED BY <1>4, <1>5 DEF t

\* A batch moves the end of the last segment.
LEMMA TiledWritten ==
  ASSUME NEW s, Tiled(s), NEW seg \in SegmentType,
         seg.baseOffset = s[Len(s)].baseOffset,
         seg.nextOffset >= s[Len(s)].nextOffset, seg.nextOffset <= MaxOffset
  PROVE  /\ Tiled([s EXCEPT ![Len(s)] = seg])
         /\ Len([s EXCEPT ![Len(s)] = seg]) = Len(s)
         /\ [s EXCEPT ![Len(s)] = seg][Len(s)] = seg
<1> DEFINE n == Len(s)
           t == [s EXCEPT ![n] = seg]
<1>1. s \in Seq(SegmentType) /\ n \in Nat /\ n >= 1 /\ n \in 1..n
  BY DEF Tiled
<1>2. /\ t \in Seq(SegmentType)
      /\ Len(t) = n
      /\ \A j \in 1..n : t[j] = IF j = n THEN seg ELSE s[j]
  BY <1>1, ExceptSeq
<1> HIDE DEF t
<1>3. /\ \A i \in 1..n : s[i].baseOffset \in Nat /\ s[i].nextOffset \in Nat
      /\ seg.baseOffset \in Nat /\ seg.nextOffset \in Nat
  <2>1. \A i \in 1..n : s[i] \in SegmentType
    BY <1>1
  <2> QED BY <2>1, FieldTypes
<1>4. \A i \in 1..n : t[i].baseOffset = s[i].baseOffset
  BY <1>1, <1>2
<1>5. \A i \in 1..n : i < n => t[i].nextOffset = s[i].nextOffset
  BY <1>1, <1>2
<1>6. \A i \in 1..n : t[i].baseOffset <= t[i].nextOffset /\ t[i].nextOffset <= MaxOffset
  <2>1. s[n].baseOffset <= s[n].nextOffset
    BY <1>1 DEF Tiled
  <2>2. seg.baseOffset <= seg.nextOffset
    BY <1>1, <1>3, <2>1
  <2> QED BY <1>1, <1>2, <2>2 DEF Tiled
<1>7. \A i \in 1..(n - 1) : t[i].nextOffset = t[i+1].baseOffset
  BY <1>1, <1>4, <1>5 DEF Tiled
<1>8. \A i, j \in 1..n : i < j => t[i].baseOffset < t[j].baseOffset
  BY <1>1, <1>4 DEF Tiled
<1>9. Tiled(t)
  BY <1>1, <1>2, <1>6, <1>7, <1>8 DEF Tiled
<1> QED BY <1>1, <1>2, <1>9 DEF t

\* A new segment begins where the last one ends.
LEMMA TiledRolled ==
  ASSUME NEW s, Tiled(s), NEW seg \in SegmentType,
         seg.baseOffset = s[Len(s)].nextOffset,
         s[Len(s)].baseOffset < s[Len(s)].nextOffset,
         seg.baseOffset <= seg.nextOffset, seg.nextOffset <= MaxOffset
  PROVE  /\ Tiled(Append(s, seg))
         /\ Len(Append(s, seg)) = Len(s) + 1
         /\ Append(s, seg)[Len(s) + 1] = seg
<1> DEFINE n == Len(s)
           t == Append(s, seg)
<1>1. s \in Seq(SegmentType) /\ n \in Nat /\ n >= 1
  BY DEF Tiled
<1>2. /\ t \in Seq(SegmentType)
      /\ Len(t) = n + 1
      /\ \A i \in 1..n : t[i] = s[i]
      /\ t[n + 1] = seg
  BY <1>1, AppendProperties
<1> HIDE DEF t
<1>3. /\ \A i \in 1..n : s[i].baseOffset \in Nat /\ s[i].nextOffset \in Nat
      /\ seg.baseOffset \in Nat /\ seg.nextOffset \in Nat
  <2>1. \A i \in 1..n : s[i] \in SegmentType
    BY <1>1
  <2> QED BY <2>1, FieldTypes
<1>4. \A i \in 1..(n + 1) : t[i].baseOffset <= t[i].nextOffset /\ t[i].nextOffset <= MaxOffset
  BY <1>1, <1>2 DEF Tiled
<1>5. \A i \in 1..n : t[i].nextOffset = t[i+1].baseOffset
  BY <1>1, <1>2 DEF Tiled
<1>6. \A i \in 1..n : s[i].baseOffset < seg.baseOffset
  <2>1. \A i \in 1..n : i < n => s[i].baseOffset < s[n].baseOffset
    BY <1>1 DEF Tiled
  <2> QED BY <1>1, <1>3, <2>1
<1>7. \A i, j \in 1..(n + 1) : i < j => t[i].baseOffset < t[j].baseOffset
  BY <1>1, <1>2, <1>6 DEF Tiled
<1>8. Tiled(t)
  BY <1>1, <1>2, <1>4, <1>5, <1>7 DEF Tiled
<1> QED BY <1>1, <1>2, <1>8 DEF t

(***************************************************************************)
(* How Inv is re-established: for a log that is open after the step, and   *)
(* for one that is closed by it.                                           *)
(***************************************************************************)
HeadOK ==
  /\ Active.open
  /\ Active.baseOffset \in logFiles
  /\ Active.baseOffset \in indexFiles
  /\ \A b \in indexFiles : b <= Active.baseOffset \/ LeftOver(b)
  /\ \A a \in acked : a.offset < Active.nextOffset
  /\ Active.nextOffset <= DiskNext(Active.baseOffset, indexData[Active.baseOffset])

\* The parts of Inv about the end of an open log.
LEMMA HeadOfInv ==
  ASSUME Inv, status = "open"
  PROVE  HeadOK
<1>1. Active.baseOffset \in Bases /\ TypeOK
  BY OpenFacts DEF Inv
<1>2. DiskHead(Active.baseOffset) = DiskNext(Active.baseOffset, indexData[Active.baseOffset])
  BY <1>1, DiskHeadIs
<1> QED BY <1>2 DEF Inv, HeadIntact, HeadIsNewest, AckedBelowHead, NextOffset, HeadOK

\* A step that leaves the active segment, the acknowledged offsets and the pairs
\* above the active segment alone.
LEMMA LeftOverKept ==
  ASSUME HeadOK, Active' = Active, acked' = acked, indexFiles' \subseteq indexFiles,
         \A b \in indexFiles' :
           \/ b <= Active.baseOffset
           \/ (b \in logFiles => b \in logFiles') /\ indexData'[b] = indexData[b]
  PROVE  \A b \in indexFiles' : b <= Active'.baseOffset \/ LeftOver(b)'
  BY DEF HeadOK, LeftOver, NextOffset, SegmentFull

\* IndexesInRange of the next state, in terms of InRange.
NextIndexes ==
  \A b \in Bases : /\ b \notin indexFiles' => indexData'[b] = << >>
                   /\ InRange(b, indexData'[b], MaxOffset)

\* What a step has to show to leave an open log that satisfies Inv.
LEMMA OpenInv ==
  ASSUME TypeOK', status' = "open", Tiled(segments'), NextIndexes, OffsetsUnique', HeadOK'
  PROVE  Inv'
<1>1. IndexesInRange'
  BY DEF NextIndexes, IndexesInRange, InRange
<1>2. /\ segments' \in Seq(SegmentType)
      /\ Len(segments') \in Nat /\ Len(segments') >= 1
      /\ DOMAIN segments' = 1..Len(segments')
  BY DEF Tiled
<1>3. SegmentsContiguous'
  BY <1>2 DEF SegmentsContiguous, Tiled
<1>4. BasesIncrease'
  BY <1>2 DEF BasesIncrease, Tiled
<1>5. AckedBelowHead' /\ HeadIntact'
  BY DEF AckedBelowHead, HeadIntact, HeadOK, NextOffset
<1>6. HeadIsNewest'
  <2>1. Active'.baseOffset \in Bases
    BY DEF HeadOK, TypeOK
  <2>2. DiskHead(Active.baseOffset)' = DiskNext(Active'.baseOffset, indexData'[Active'.baseOffset])
    BY DEF DiskHead, Opened, DiskNext
  <2> QED BY <2>2 DEF HeadIsNewest, HeadOK, NextOffset
<1>7. RestartContinues'
  BY DEF RestartContinues
<1> QED BY <1>1, <1>3, <1>4, <1>5, <1>6, <1>7 DEF Inv

\* A set of base offsets that is not empty has a greatest element.
LEMMA GreatestBase ==
  ASSUME NEW S \in SUBSET Bases, S # {}
  PROVE  \E m \in S : \A b \in S : b <= m
<1> DEFINE T == {n \in Nat : \E b \in S : n = MaxOffset - b}
<1>1. MaxOffset \in Nat /\ \A b \in S : b \in Nat /\ b <= MaxOffset /\ MaxOffset - b \in T
  BY CommitLogAssumption DEF Bases
<1>2. T \in SUBSET Nat /\ T # {}
  BY <1>1
<1>3. PICK n \in T : \A k \in T : n <= k
  <2> HIDE DEF T
  <2> QED BY <1>2, LeastNat
<1>4. PICK m \in S : n = MaxOffset - m
  OBVIOUS
<1>5. \A b \in S : MaxOffset - m <= MaxOffset - b
  BY <1>1, <1>3, <1>4
<1> QED BY <1>1, <1>5

\* The pairs above the active segment when the process has died.
EmptyAbove(b) == b \in logFiles' /\ indexData'[b] = << >> /\ \A a \in acked : a.offset < b

\* A restart will append to the active segment or to an empty pair above it.
LEMMA ClosedInv ==
  ASSUME Inv, status = "open", TypeOK', status' = "closed", segments' = << >>, acked' = acked,
         NextIndexes, Active.baseOffset \in logFiles',
         Active.nextOffset <= DiskNext(Active.baseOffset, indexData'[Active.baseOffset]),
         \A b \in indexFiles' : b <= Active.baseOffset \/ EmptyAbove(b)
  PROVE  Inv'
<1>1. IndexesInRange'
  BY DEF NextIndexes, IndexesInRange, InRange
<1>2. SegmentsContiguous' /\ AckedBelowHead' /\ HeadIntact' /\ HeadIsNewest'
  BY DEF SegmentsContiguous, AckedBelowHead, HeadIntact, HeadIsNewest
<1>3. BasesIncrease'
  BY DEF BasesIncrease
<1>4. OffsetsUnique'
  BY DEF Inv, OffsetsUnique
<1>5. ASSUME logFiles' \subseteq indexFiles'
      PROVE  \E m \in logFiles' : /\ \A b \in logFiles' \cup indexFiles' : b <= m
                                 /\ \A a \in acked' : a.offset < DiskHead(m)'
  <2>1. PICK m \in indexFiles' : \A b \in indexFiles' : b <= m
    <3>1. indexFiles' \in SUBSET Bases /\ indexFiles' # {}
      BY <1>5 DEF TypeOK
    <3> QED BY <3>1, GreatestBase
  <2>2. /\ m \in Bases /\ m \in Nat /\ Active.baseOffset <= m
        /\ Active.baseOffset \in Nat /\ Active.nextOffset \in Nat
    BY <1>5, <2>1, BasesNat, OpenFacts DEF TypeOK
  <2>3. DiskHead(m)' = DiskNext(m, indexData'[m])
    BY <2>2, DiskHeadIsNext
  <2>4. DiskNext(m, indexData'[m]) \in Nat
    <3>1. logData'[m] \in Seq(Cell) /\ indexData'[m] \in Seq(IndexEntry)
      BY <2>2 DEF TypeOK
    <3> QED BY <2>2, <3>1, DiskNextNat
  <2>5. \A a \in acked : a.offset \in Nat /\ a.offset < Active.nextOffset
    BY HeadOfInv DEF HeadOK, Inv, TypeOK
  <2>6. CASE m <= Active.baseOffset
    <3>1. m = Active.baseOffset
      BY <2>2, <2>6
    <3>2. \A a \in acked : a.offset < DiskNext(m, indexData'[m])
      BY <2>2, <2>4, <2>5, <3>1
    <3> QED BY <1>5, <2>1, <2>3, <3>1, <3>2
  <2>7. CASE EmptyAbove(m)
    <3>1. DiskNext(m, indexData'[m]) = m
      BY <2>2, <2>7 DEF EmptyAbove, DiskNext
    <3>2. m \in logFiles' /\ \A a \in acked : a.offset < m
      BY <2>7 DEF EmptyAbove
    <3> QED BY <1>5, <2>1, <2>3, <3>1, <3>2
  <2> QED BY <2>1, <2>6, <2>7
<1>6. RestartContinues'
  BY <1>5 DEF RestartContinues
<1> QED BY <1>1, <1>2, <1>3, <1>4, <1>6 DEF Inv

\* Pairs above the active segment that the step leaves alone.
LEMMA EmptyAboveKept ==
  ASSUME HeadOK, indexFiles' \subseteq indexFiles,
         \A b \in indexFiles' :
           \/ b <= Active.baseOffset
           \/ (b \in logFiles => b \in logFiles') /\ indexData'[b] = indexData[b]
  PROVE  \A b \in indexFiles' : b <= Active.baseOffset \/ EmptyAbove(b)
  BY DEF HeadOK, LeftOver, EmptyAbove

(***************************************************************************)
(* One lemma per kind of step.  First the steps that leave the directory   *)
(* as it is.                                                               *)
(***************************************************************************)
FaultsCounted == crashes' \in Nat /\ writeErrors' \in Nat

\* A step that leaves the index files alone keeps their offsets in range.
LEMMA SameIndexes ==
  ASSUME Inv, indexFiles' = indexFiles, indexData' = indexData
  PROVE  NextIndexes
BY DEF Inv, IndexesInRange, NextIndexes, InRange

\* Close, and a read of Compact that panics.
LEMMA CloseStep ==
  ASSUME Inv, FaultsCounted, status = "open", status' = "closed", segments' = << >>,
         UNCHANGED <<compressed, disk, history>>
  PROVE  Inv'
<1>1. /\ UNCHANGED <<compressed, logFiles, indexFiles, logData, indexData, acked, trimmed>>
      /\ << >> \in Seq(SegmentType)
  BY DEF disk, history
<1>2. TypeOK'
  BY <1>1 DEF Inv, TypeOK, FaultsCounted
<1>3. NextIndexes
  BY <1>1, SameIndexes
<1>4. HeadOK /\ Active.baseOffset \in Bases
  BY HeadOfInv, OpenFacts
<1>5. Active.baseOffset \in logFiles'
  BY <1>1, <1>4 DEF HeadOK
<1>6. \A b \in indexFiles' : b <= Active.baseOffset \/ EmptyAbove(b)
  BY <1>1, <1>4, EmptyAboveKept
<1>7. Active.nextOffset <= DiskNext(Active.baseOffset, indexData'[Active.baseOffset])
  BY <1>1, <1>4 DEF HeadOK
<1> QED BY <1>1, <1>2, <1>3, <1>4, <1>5, <1>6, <1>7, ClosedInv

\* Compact closes the handles of a segment before the active one.
LEMMA CompactStep ==
  ASSUME Inv, Compact
  PROVE  Inv'
<1>1. PICK i \in 1..(Len(segments) - 1) : segments' = [segments EXCEPT ![i].open = FALSE]
  BY DEF Compact
<1>2. /\ status = "open" /\ status' = "open"
      /\ UNCHANGED <<compressed, logFiles, indexFiles, logData, indexData, acked, trimmed,
                     crashes, writeErrors>>
  BY DEF Compact, disk, history, faults
<1> DEFINE n == Len(segments)
           seg == [segments[i] EXCEPT !.open = FALSE]
<1>3. n \in Nat /\ n >= 1 /\ i \in 1..n /\ i # n /\ segments[i] \in SegmentType
  <2>1. n \in Nat /\ n >= 1 /\ \A j \in 1..n : segments[j] \in SegmentType
    BY <1>2, OpenFacts
  <2>2. i \in 1..n /\ i # n
    BY <2>1
  <2> QED BY <2>1, <2>2
<1>4. /\ seg \in SegmentType
      /\ seg.baseOffset = segments[i].baseOffset
      /\ seg.nextOffset = segments[i].nextOffset
  BY <1>3 DEF SegmentType
<1>5. Tiled(segments) /\ segments \in Seq(SegmentType)
  BY <1>2, TiledSegments DEF Tiled
<1>6. segments' = [segments EXCEPT ![i] = seg]
  BY <1>1
<1> HIDE DEF seg
<1>7. /\ segments' \in Seq(SegmentType)
      /\ Len(segments') = n
      /\ \A j \in 1..n : segments'[j] = IF j = i THEN seg ELSE segments[j]
  BY <1>3, <1>4, <1>5, <1>6, ExceptSeq
<1>8. Tiled(segments')
  BY <1>4, <1>5, <1>7, TiledSame
<1>9. Active' = Active
  BY <1>3, <1>7 DEF Active
<1>10. TypeOK'
  BY <1>2, <1>7 DEF Inv, TypeOK
<1>11. NextIndexes
  BY <1>2, SameIndexes
<1>12. OffsetsUnique'
  BY <1>2 DEF Inv, OffsetsUnique
<1>13. HeadOK'
  <2>1. HeadOK
    BY <1>2, HeadOfInv
  <2>2. \A b \in indexFiles' : b <= Active'.baseOffset \/ LeftOver(b)'
    BY <1>2, <1>9, <2>1, LeftOverKept
  <2> QED BY <1>2, <1>9, <2>1, <2>2 DEF HeadOK
<1> QED BY <1>2, <1>8, <1>10, <1>11, <1>12, <1>13, OpenInv

\* Changing the compression setting keeps Inv.
LEMMA SetCompressedStep ==
  ASSUME Inv, NEW flag \in BOOLEAN, SetCompressed(flag)
  PROVE  Inv'
<1>1. /\ status = "open" /\ status' = "open" /\ compressed' \in BOOLEAN
      /\ UNCHANGED <<segments, logFiles, indexFiles, logData, indexData, acked, trimmed,
                     crashes, writeErrors>>
  BY DEF SetCompressed, disk, history, faults
<1>2. TypeOK'
  BY <1>1 DEF Inv, TypeOK
<1>3. NextIndexes
  BY <1>1, SameIndexes
<1>4. OffsetsUnique'
  BY <1>1 DEF Inv, OffsetsUnique
<1>5. HeadOK'
  <2>1. HeadOK /\ Active' = Active
    BY <1>1, HeadOfInv DEF Active
  <2>2. \A b \in indexFiles' : b <= Active'.baseOffset \/ LeftOver(b)'
    BY <1>1, <2>1, LeftOverKept
  <2> QED BY <1>1, <2>1, <2>2 DEF HeadOK
<1>6. Tiled(segments')
  BY <1>1, TiledSegments
<1> QED BY <1>1, <1>2, <1>3, <1>4, <1>5, <1>6, OpenInv

(***************************************************************************)
(* Appends.                                                                *)
(***************************************************************************)
\* The batches given to Append and AppendBatch are not empty.
Batch(recs) == recs \in Seq(Records) /\ Len(recs) \in Nat /\ Len(recs) >= 1

\* A complete write extends the index by every record.
LEMMA WriteAllFiles ==
  ASSUME Inv, NEW recs, Batch(recs), NEW ts \in Nat, CanAppend(recs), WriteAll(recs, ts)
  PROVE  FilesWritten(Len(recs))
<1>1. status = "open" /\ compressed \in BOOLEAN /\ recs \in Seq(Records)
  BY DEF CanAppend, Inv, TypeOK, Batch
<1>2. LogBlock(Active, recs, ts, compressed) \in Seq(Cell)
  BY <1>1, OpenFacts, LogBlockType
<1>3. /\ Len(LogBlock(Active, recs, ts, compressed)) \in Nat
      /\ Len(LogBlock(Active, recs, ts, compressed)) <= Len(LogBlock(Active, recs, ts, compressed))
      /\ Len(recs) \in 0..Len(recs)
  BY <1>2 DEF Batch
<1> QED BY <1>1, <1>3, WriteBlockFiles DEF WriteAll

\* A write that stops half way extends the index by some of the records.
LEMMA StoppedWriteFiles ==
  ASSUME Inv, NEW recs, Batch(recs), NEW ts \in Nat, CanAppend(recs), StoppedWrite(recs, ts)
  PROVE  \E j \in 0..Len(recs) : FilesWritten(j)
<1> DEFINE all == Len(LogBlock(Active, recs, ts, compressed))
<1>1. status = "open" /\ compressed \in BOOLEAN /\ recs \in Seq(Records)
  BY DEF CanAppend, Inv, TypeOK, Batch
<1>2. LogBlock(Active, recs, ts, compressed) \in Seq(Cell)
  BY <1>1, OpenFacts, LogBlockType
<1>3. all \in Nat /\ all <= all /\ 0 \in 0..Len(recs)
  BY <1>2 DEF Batch
<1>4. CASE \E k \in 0..(all - 1) : WriteBlock(recs, ts, k, 0)
  <2>1. PICK k \in 0..(all - 1) : WriteBlock(recs, ts, k, 0)
    BY <1>4
  <2>2. k \in Nat /\ k <= all
    BY <1>3
  <2> QED BY <1>1, <1>3, <2>1, <2>2, WriteBlockFiles
<1>5. CASE \E j \in 0..(Len(recs) - 1) : WriteBlock(recs, ts, all, j)
  <2>1. PICK j \in 0..(Len(recs) - 1) : WriteBlock(recs, ts, all, j)
    BY <1>5
  <2>2. j \in 0..Len(recs)
    BY DEF Batch
  <2> QED BY <1>1, <1>3, <2>1, <2>2, WriteBlockFiles
<1> QED BY <1>4, <1>5 DEF StoppedWrite

\* After a write, and whatever files were created besides.
LEMMA WrittenIndexes ==
  ASSUME Inv, status = "open", NEW j, FilesWritten(j), indexFiles \subseteq indexFiles'
  PROVE  /\ NextIndexes
         /\ Active.nextOffset <= DiskNext(Active.baseOffset, indexData'[Active.baseOffset])
         /\ \A b \in indexFiles : b <= Active.baseOffset \/ indexData'[b] = indexData[b]
<1>1. Active.baseOffset \in indexFiles
  BY HeadOfInv DEF HeadOK
<1>2. \A b \in Bases : b \notin indexFiles' => indexData'[b] = << >>
  BY <1>1 DEF FilesWritten, Inv, IndexesInRange
<1>3. \A b \in indexFiles : b <= Active.baseOffset \/ indexData'[b] = indexData[b]
  <2>1. Active.baseOffset <= Active.baseOffset
    BY OpenFacts
  <2>2. indexFiles \subseteq Bases
    BY DEF Inv, TypeOK
  <2> QED BY <2>1, <2>2 DEF FilesWritten
<1> QED BY <1>2, <1>3 DEF FilesWritten, NextIndexes, Continues

\* A failed write changes the files of the active segment and nothing else.
LEMMA AppendFailsStep ==
  ASSUME Inv, FaultsCounted, NEW recs, Batch(recs), NEW ts \in Nat, AppendFails(recs, ts)
  PROVE  Inv'
<1>1. /\ status = "open" /\ CanAppend(recs) /\ StoppedWrite(recs, ts)
      /\ UNCHANGED <<segments, compressed, status, logFiles, indexFiles, acked, trimmed>>
  BY DEF AppendFails, CanAppend, memory, history
<1>2. PICK j \in 0..Len(recs) : FilesWritten(j)
  BY <1>1, StoppedWriteFiles
<1>3. TypeOK'
  BY <1>1, <1>2 DEF Inv, TypeOK, FilesWritten, FaultsCounted
<1>4. /\ NextIndexes
      /\ Active.nextOffset <= DiskNext(Active.baseOffset, indexData'[Active.baseOffset])
      /\ \A b \in indexFiles : b <= Active.baseOffset \/ indexData'[b] = indexData[b]
  BY <1>1, <1>2, WrittenIndexes
<1>5. OffsetsUnique' /\ Tiled(segments')
  BY <1>1, TiledSegments DEF Inv, OffsetsUnique
<1>6. HeadOK'
  <2>1. HeadOK /\ Active' = Active
    BY <1>1, HeadOfInv DEF Active
  <2>2. \A b \in indexFiles' : b <= Active'.baseOffset \/ LeftOver(b)'
    BY <1>1, <1>4, <2>1, LeftOverKept
  <2> QED BY <1>1, <1>4, <2>1, <2>2 DEF HeadOK
<1> QED BY <1>1, <1>3, <1>4, <1>5, <1>6, OpenInv

\* The process dies in the middle of a write or just after it.
LEMMA AppendCrashStep ==
  ASSUME Inv, FaultsCounted, NEW recs, Batch(recs), NEW ts \in Nat, AppendCrash(recs, ts)
  PROVE  Inv'
<1>1. /\ status = "open" /\ CanAppend(recs)
      /\ status' = "closed" /\ segments' = << >>
      /\ UNCHANGED <<compressed, logFiles, indexFiles, acked, trimmed>>
  BY DEF AppendCrash, CanAppend, history
<1>2. \E j \in 0..Len(recs) : FilesWritten(j)
  <2>1. CASE StoppedWrite(recs, ts)
    BY <1>1, <2>1, StoppedWriteFiles
  <2>2. CASE WriteAll(recs, ts)
    BY <1>1, <2>2, WriteAllFiles DEF Batch
  <2> QED BY <2>1, <2>2 DEF AppendCrash
<1>3. PICK j \in 0..Len(recs) : FilesWritten(j)
  BY <1>2
<1>4. TypeOK'
  <2>1. << >> \in Seq(SegmentType)
    OBVIOUS
  <2> QED BY <1>1, <1>3, <2>1 DEF Inv, TypeOK, FilesWritten, FaultsCounted
<1>5. /\ NextIndexes
      /\ Active.nextOffset <= DiskNext(Active.baseOffset, indexData'[Active.baseOffset])
      /\ \A b \in indexFiles : b <= Active.baseOffset \/ indexData'[b] = indexData[b]
  BY <1>1, <1>3, WrittenIndexes
<1>6. HeadOK
  BY <1>1, HeadOfInv
<1>7. Active.baseOffset \in logFiles'
  BY <1>1, <1>6 DEF HeadOK
<1>8. \A b \in indexFiles' : b <= Active.baseOffset \/ EmptyAbove(b)
  BY <1>1, <1>5, <1>6, EmptyAboveKept
<1> QED BY <1>1, <1>4, <1>5, <1>7, <1>8, ClosedInv

\* The active segment after its offsets were advanced past a batch.
LEMMA AfterWriteFacts ==
  ASSUME Inv, NEW recs, Batch(recs), CanAppend(recs)
  PROVE  /\ AfterWrite(recs) \in SegmentType
         /\ AfterWrite(recs).baseOffset = Active.baseOffset
         /\ AfterWrite(recs).nextOffset = Active.nextOffset + Len(recs)
         /\ AfterWrite(recs).open = Active.open
         /\ AfterWrite(recs).nextOffset \in Bases
         /\ AfterWrite(recs).nextOffset <= MaxOffset
         /\ AfterWrite(recs).nextOffset > Active.baseOffset
         /\ AfterWrite(recs).nextOffset > Active.nextOffset
         /\ AfterWrite(recs).nextOffset \notin indexFiles
         /\ indexData[AfterWrite(recs).nextOffset] = << >>
<1>1. /\ status = "open" /\ compressed \in BOOLEAN /\ recs \in Seq(Records)
      /\ Active.nextOffset + Len(recs) <= MaxOffset
      /\ Len(recs) \in Nat /\ Len(recs) >= 1
  BY DEF CanAppend, NextOffset, Inv, TypeOK, Batch
<1>2. /\ Active \in SegmentType
      /\ Active.baseOffset \in Nat /\ Active.nextOffset \in Nat
      /\ Active.baseOffset <= Active.nextOffset
  BY <1>1, OpenFacts
<1>3. /\ AfterWrite(recs) \in SegmentType
      /\ AfterWrite(recs).baseOffset = Active.baseOffset
      /\ AfterWrite(recs).nextOffset = Active.nextOffset + Len(recs)
      /\ AfterWrite(recs).open = Active.open
  BY <1>1, <1>2, WrittenType DEF AfterWrite
<1>4. /\ AfterWrite(recs).nextOffset \in Bases
      /\ AfterWrite(recs).nextOffset <= MaxOffset
      /\ AfterWrite(recs).nextOffset > Active.baseOffset
      /\ AfterWrite(recs).nextOffset > Active.nextOffset
  BY <1>1, <1>2, <1>3 DEF Bases
<1>5. AfterWrite(recs).nextOffset \notin indexFiles
  <2>1. \A b \in indexFiles : b <= Active.baseOffset \/ b <= Active.nextOffset
    BY <1>1, HeadOfInv DEF HeadOK, LeftOver, NextOffset
  <2>2. /\ ~(AfterWrite(recs).nextOffset <= Active.baseOffset)
        /\ ~(AfterWrite(recs).nextOffset <= Active.nextOffset)
    BY <1>1, <1>2, <1>3
  <2> QED BY <2>1, <2>2
<1>6. indexData[AfterWrite(recs).nextOffset] = << >>
  BY <1>4, <1>5 DEF Inv, IndexesInRange
<1> QED BY <1>3, <1>4, <1>5, <1>6

\* A segment that is full is full after any further write.
LEMMA FullStaysFull ==
  ASSUME Inv, NEW recs, Batch(recs), CanAppend(recs), SegmentFull(Active)
  PROVE  SegmentFull(AfterWrite(recs))
<1>1. compressed \in BOOLEAN /\ recs \in Seq(Records) /\ Active \in SegmentType
  BY OpenFacts DEF Inv, TypeOK, Batch, CanAppend
<1>2. SizeOfFirst(Len(recs), recs, compressed) \in Nat /\ Active.size \in Nat
  BY <1>1, SizeOfFirstType DEF SegmentType
<1>3. AfterWrite(recs).size = Active.size + SizeOfFirst(Len(recs), recs, compressed)
  BY DEF AfterWrite, Written
<1> QED BY <1>2, <1>3, CommitLogAssumption DEF SegmentFull

\* The write succeeds and the rollover does not: the caller gets an error.
LEMMA RollFailsStep ==
  ASSUME Inv, FaultsCounted, NEW recs, Batch(recs), NEW ts \in Nat, RollFails(recs, ts)
  PROVE  Inv'
<1> DEFINE seg == AfterWrite(recs)
           n   == Len(segments)
<1>1. /\ status = "open" /\ CanAppend(recs) /\ WriteAll(recs, ts)
      /\ segments' = [segments EXCEPT ![n] = seg]
      /\ logFiles' \in {logFiles, logFiles \cup {seg.nextOffset}}
      /\ indexFiles' \in {indexFiles} \cup {indexFiles \cup {b} : b \in logFiles' \ logFiles}
      /\ SegmentFull(seg)
      /\ UNCHANGED <<compressed, status, acked, trimmed>>
  BY DEF RollFails, StoppedRoll, CanAppend, history
<1>2. FilesWritten(Len(recs))
  BY <1>1, WriteAllFiles
<1>3. /\ seg \in SegmentType
      /\ seg.baseOffset = Active.baseOffset
      /\ seg.nextOffset = Active.nextOffset + Len(recs)
      /\ seg.open = Active.open
      /\ seg.nextOffset \in Bases
      /\ seg.nextOffset <= MaxOffset
      /\ seg.nextOffset > Active.nextOffset
      /\ seg.nextOffset > Active.baseOffset
      /\ indexData[seg.nextOffset] = << >>
  BY <1>1, AfterWriteFacts
<1> HIDE DEF seg
<1>4. /\ Active.nextOffset \in Nat /\ seg.nextOffset \in Nat /\ Active.baseOffset \in Bases
      /\ Active.baseOffset \in Nat
  BY <1>1, <1>3, OpenFacts, FieldTypes
<1>11. /\ logFiles' \subseteq logFiles \cup {seg.nextOffset} /\ logFiles \subseteq logFiles'
       /\ indexFiles' \subseteq indexFiles \cup {seg.nextOffset}
       /\ indexFiles \subseteq indexFiles'
       /\ \A b \in indexFiles' : b \in indexFiles \/ (b = seg.nextOffset /\ b \in logFiles')
  BY <1>1
<1>5. /\ Tiled(segments')
      /\ Len(segments') = n
      /\ segments'[n] = seg
  <2>1. Tiled(segments)
    BY <1>1, TiledSegments
  <2>2. /\ seg.baseOffset = segments[Len(segments)].baseOffset
        /\ seg.nextOffset >= segments[Len(segments)].nextOffset
    BY <1>3, <1>4 DEF Active
  <2> QED BY <1>1, <1>3, <2>1, <2>2, TiledWritten
<1>6. Active' = seg
  BY <1>5 DEF Active
<1>7. TypeOK'
  <2>1. segments' \in Seq(SegmentType)
    BY <1>5 DEF Tiled
  <2>2. logFiles' \subseteq Bases /\ indexFiles' \subseteq Bases
    BY <1>3, <1>11 DEF Inv, TypeOK
  <2> QED BY <1>1, <1>2, <2>1, <2>2 DEF Inv, TypeOK, FilesWritten, FaultsCounted
<1>8. /\ NextIndexes
      /\ \A b \in indexFiles : b <= Active.baseOffset \/ indexData'[b] = indexData[b]
  BY <1>1, <1>2, <1>11, WrittenIndexes
<1>9. OffsetsUnique'
  BY <1>1 DEF Inv, OffsetsUnique
<1>10. HeadOK'
  <2>1. HeadOK
    BY <1>1, HeadOfInv
  <2>2. \A a \in acked' : a.offset < seg.nextOffset
    <3>1. \A a \in acked : a.offset \in Nat
      BY DEF Inv, TypeOK
    <3> QED BY <1>1, <1>3, <1>4, <2>1, <3>1 DEF HeadOK
  <2>3. seg.nextOffset <= DiskNext(seg.baseOffset, indexData'[seg.baseOffset])
    <3>1. DiskNext(seg.baseOffset, indexData'[seg.baseOffset]) = seg.nextOffset
      BY <1>2, <1>3 DEF FilesWritten, Continues, Batch
    <3> QED BY <1>4, <3>1
  <2>4. seg.open /\ seg.baseOffset \in logFiles' /\ seg.baseOffset \in indexFiles'
    BY <1>3, <1>11, <2>1 DEF HeadOK
  <2>5. ASSUME NEW b \in indexFiles'  PROVE b <= seg.baseOffset \/ LeftOver(b)'
    <3>1. CASE b = seg.nextOffset /\ b \in logFiles'
      <4>1. indexData'[b] = << >>
        BY <1>2, <1>3, <1>4, <3>1 DEF FilesWritten
      <4>2. b <= seg.nextOffset
        BY <1>4, <3>1
      <4> QED BY <1>1, <1>6, <2>2, <3>1, <4>1, <4>2 DEF LeftOver, NextOffset
    <3>2. CASE b \in indexFiles /\ ~(b <= Active.baseOffset)
      <4>1. LeftOver(b) /\ indexData'[b] = indexData[b]
        BY <1>8, <2>1, <3>2 DEF HeadOK
      <4>2. b \in Nat
        BY <3>2, BasesNat DEF Inv, TypeOK
      <4>3. b <= seg.nextOffset
        BY <1>3, <1>4, <4>1, <4>2 DEF LeftOver, NextOffset
      <4> QED BY <1>1, <1>6, <1>11, <4>1, <4>3 DEF LeftOver, NextOffset
    <3> QED BY <1>3, <1>11, <3>1, <3>2
  <2> QED BY <1>6, <2>2, <2>3, <2>4, <2>5, Zenon DEF HeadOK
<1> QED BY <1>1, <1>5, <1>7, <1>8, <1>9, <1>10, OpenInv

\* The process dies in the rollover, before, between or after the two creates.
LEMMA RollCrashStep ==
  ASSUME Inv, FaultsCounted, NEW recs, Batch(recs), NEW ts \in Nat, RollCrash(recs, ts)
  PROVE  Inv'
<1> DEFINE new == AfterWrite(recs).nextOffset
<1>1. /\ status = "open" /\ CanAppend(recs) /\ WriteAll(recs, ts)
      /\ status' = "closed" /\ segments' = << >>
      /\ logFiles' \in {logFiles, logFiles \cup {new}}
      /\ indexFiles' \in {indexFiles} \cup {indexFiles \cup {b} : b \in logFiles' \ logFiles}
      /\ UNCHANGED <<compressed, acked, trimmed>>
  BY DEF RollCrash, StoppedRoll, CanAppend, history
<1>2. FilesWritten(Len(recs))
  BY <1>1, WriteAllFiles
<1>3. /\ new = Active.nextOffset + Len(recs)
      /\ new \in Bases /\ new > Active.baseOffset /\ new > Active.nextOffset
      /\ new \notin indexFiles
      /\ indexData[new] = << >>
  BY <1>1, AfterWriteFacts
<1>4. /\ HeadOK /\ Active.baseOffset \in Bases
      /\ Active.baseOffset \in Nat /\ Active.nextOffset \in Nat
  BY <1>1, HeadOfInv, OpenFacts
<1>5. new \in Nat
  BY <1>3, BasesNat
<1> HIDE DEF new
<1>6. logFiles' \subseteq Bases /\ indexFiles' \subseteq Bases /\ indexFiles \subseteq indexFiles'
  BY <1>1, <1>3 DEF Inv, TypeOK
<1>7. TypeOK'
  <2>1. << >> \in Seq(SegmentType)
    OBVIOUS
  <2> QED BY <1>1, <1>2, <1>6, <2>1 DEF Inv, TypeOK, FilesWritten, FaultsCounted
<1>8. /\ NextIndexes
      /\ Active.nextOffset <= DiskNext(Active.baseOffset, indexData'[Active.baseOffset])
      /\ \A b \in indexFiles : b <= Active.baseOffset \/ indexData'[b] = indexData[b]
  BY <1>1, <1>2, <1>6, WrittenIndexes
<1>9. Active.baseOffset \in logFiles'
  BY <1>1, <1>4 DEF HeadOK
<1>10. ASSUME NEW b \in indexFiles'  PROVE b <= Active.baseOffset \/ EmptyAbove(b)
  <2>1. CASE b = new /\ b \in logFiles'
    <3>1. indexData'[new] = << >>
      BY <1>2, <1>3, <1>4, <1>5 DEF FilesWritten
    <3>2. \A a \in acked : a.offset \in Nat /\ a.offset < Active.nextOffset
      BY <1>4 DEF HeadOK, Inv, TypeOK
    <3>3. \A a \in acked : a.offset < new
      BY <1>3, <1>4, <1>5, <3>2
    <3> QED BY <2>1, <3>1, <3>3 DEF EmptyAbove
  <2>2. CASE b \in indexFiles /\ ~(b <= Active.baseOffset)
    <3>1. LeftOver(b) /\ indexData'[b] = indexData[b]
      BY <1>4, <1>8, <2>2 DEF HeadOK
    <3> QED BY <1>1, <3>1 DEF LeftOver, EmptyAbove
  <2>3. b \in indexFiles \/ (b = new /\ b \in logFiles')
    BY <1>1
  <2> QED BY <2>1, <2>2, <2>3
<1> QED BY <1>1, <1>7, <1>8, <1>9, <1>10, ClosedInv

\* The offsets returned lie between the old head and the new one.
LEMMA AcksFacts ==
  ASSUME Inv, NEW recs, Batch(recs), CanAppend(recs)
  PROVE  /\ Acks(recs) \subseteq [offset : Nat, rec : Records]
         /\ \A a \in Acks(recs) : /\ Active.nextOffset <= a.offset
                                  /\ a.offset < Active.nextOffset + Len(recs)
         /\ \A a, b \in Acks(recs) : a.offset = b.offset => a = b
<1>1. status = "open" /\ recs \in Seq(Records) /\ DOMAIN recs = 1..Len(recs) /\ Len(recs) \in Nat
  BY DEF CanAppend, Batch
<1>2. Active.nextOffset \in Nat
  BY <1>1, OpenFacts
<1>3. \A i \in 1..Len(recs) : recs[i] \in Records
  BY <1>1
<1>4. Acks(recs) = {[offset |-> Active.nextOffset + i - 1, rec |-> recs[i]] : i \in 1..Len(recs)}
  BY <1>1 DEF Acks, NextOffset
<1>5. ASSUME NEW a \in Acks(recs)
      PROVE  /\ a \in [offset : Nat, rec : Records]
             /\ Active.nextOffset <= a.offset
             /\ a.offset < Active.nextOffset + Len(recs)
             /\ a.rec = recs[a.offset - Active.nextOffset + 1]
  <2>1. PICK i \in 1..Len(recs) : a = [offset |-> Active.nextOffset + i - 1, rec |-> recs[i]]
    BY <1>4
  <2>2. i \in Nat /\ 1 <= i /\ i <= Len(recs) /\ recs[i] \in Records
    BY <1>1, <1>3
  <2>3. a.offset = Active.nextOffset + i - 1 /\ a.rec = recs[i]
    BY <2>1
  <2>4. a.offset - Active.nextOffset + 1 = i /\ a.offset \in Nat
    BY <1>2, <2>2, <2>3
  <2>5. a \in [offset : Nat, rec : Records]
    BY <2>1, <2>2, <2>3, <2>4
  <2> QED BY <1>1, <1>2, <2>2, <2>3, <2>4, <2>5
<1>6. ASSUME NEW a \in Acks(recs), NEW b \in Acks(recs), a.offset = b.offset
      PROVE  a = b
  <2>1. a.rec = b.rec
    BY <1>5, <1>6
  <2>2. a \in [offset : Nat, rec : Records] /\ b \in [offset : Nat, rec : Records]
    BY <1>5
  <2> QED BY <1>6, <2>1, <2>2
<1> QED BY <1>5, <1>6

\* Append and AppendBatch, the roll to a new segment included, keep Inv.
LEMMA AppendStep ==
  ASSUME Inv, NEW recs, Batch(recs), NEW ts \in Nat, AppendRecords(recs, ts)
  PROVE  Inv'
<1> DEFINE seg  == AfterWrite(recs)
           base == seg.nextOffset
           n    == Len(segments)
           kept == [segments EXCEPT ![n] = seg]
<1>1. /\ status = "open" /\ CanAppend(recs) /\ WriteAll(recs, ts)
      /\ acked' = acked \cup Acks(recs)
      /\ UNCHANGED <<compressed, status, trimmed, crashes, writeErrors>>
  BY DEF AppendRecords, CanAppend, faults
<1>2. \/ segments' = kept /\ ~SegmentFull(seg) /\ UNCHANGED <<logFiles, indexFiles>>
      \/ /\ segments' = Append(kept, Opened(base, logData[base], indexData[base]))
         /\ logFiles' = logFiles \cup {base}
         /\ indexFiles' = indexFiles \cup {base}
  BY DEF AppendRecords
<1>3. FilesWritten(Len(recs))
  BY <1>1, WriteAllFiles
<1>4. /\ seg \in SegmentType
      /\ seg.baseOffset = Active.baseOffset
      /\ base = Active.nextOffset + Len(recs)
      /\ seg.open = Active.open
      /\ base \in Bases
      /\ base <= MaxOffset
      /\ base > Active.nextOffset
      /\ base > Active.baseOffset
      /\ indexData[base] = << >>
  BY <1>1, AfterWriteFacts
<1> HIDE DEF seg
<1>5. /\ Active.nextOffset \in Nat /\ base \in Nat /\ Active.baseOffset \in Nat
      /\ Active.baseOffset \in Bases
  BY <1>1, <1>4, OpenFacts, FieldTypes
<1>6. Tiled(kept) /\ Len(kept) = n /\ kept[n] = seg
  <2>1. Tiled(segments)
    BY <1>1, TiledSegments
  <2>2. /\ seg.baseOffset = segments[Len(segments)].baseOffset
        /\ seg.nextOffset >= segments[Len(segments)].nextOffset
    BY <1>4, <1>5 DEF Active
  <2> QED BY <1>4, <2>1, <2>2, TiledWritten
<1> HIDE DEF kept
<1>7. HeadOK
  BY <1>1, HeadOfInv
<1>8. \A a \in acked' : a.offset < base
  <2>1. \A a \in acked : a.offset \in Nat /\ a.offset < Active.nextOffset
    BY <1>7 DEF Inv, TypeOK, HeadOK
  <2>2. \A a \in Acks(recs) : a.offset < Active.nextOffset + Len(recs)
    BY <1>1, AcksFacts
  <2> QED BY <1>1, <1>4, <1>5, <2>1, <2>2
<1>9. OffsetsUnique'
  <2>1. \A a \in acked : a.offset \in Nat /\ a.offset < Active.nextOffset
    BY <1>7 DEF Inv, TypeOK, HeadOK
  <2>2. \A a \in Acks(recs) : a.offset \in Nat /\ Active.nextOffset <= a.offset
    BY <1>1, AcksFacts
  <2>3. \A a \in acked, b \in Acks(recs) : a.offset # b.offset
    BY <1>5, <2>1, <2>2
  <2>4. \A a, b \in Acks(recs) : a.offset = b.offset => a = b
    BY <1>1, AcksFacts
  <2>5. \A a, b \in acked : a.offset = b.offset => a = b
    BY DEF Inv, OffsetsUnique
  <2> QED BY <1>1, <2>3, <2>4, <2>5 DEF OffsetsUnique
<1>10. acked' \subseteq [offset : Nat, rec : Records]
  BY <1>1, AcksFacts DEF Inv, TypeOK
<1>11. CASE segments' = kept /\ ~SegmentFull(seg) /\ UNCHANGED <<logFiles, indexFiles>>
  <2>1. Active' = seg
    BY <1>6, <1>11 DEF Active
  <2>2. TypeOK'
    <3>1. segments' \in Seq(SegmentType)
      BY <1>6, <1>11 DEF Tiled
    <3> QED BY <1>1, <1>3, <1>10, <1>11, <3>1 DEF Inv, TypeOK, FilesWritten
  <2>3. NextIndexes
    BY <1>1, <1>3, <1>11, WrittenIndexes
  <2>4. seg.nextOffset <= DiskNext(seg.baseOffset, indexData'[seg.baseOffset])
    <3>1. DiskNext(seg.baseOffset, indexData'[seg.baseOffset]) = seg.nextOffset
      BY <1>3, <1>4 DEF FilesWritten, Continues, Batch
    <3> QED BY <1>5, <3>1
  <2>5. /\ seg.open /\ seg.baseOffset \in logFiles' /\ seg.baseOffset \in indexFiles'
        /\ \A b \in indexFiles' : b <= seg.baseOffset
    <3>1. ~SegmentFull(Active)
      BY <1>1, <1>11, FullStaysFull DEF seg
    <3> QED BY <1>4, <1>7, <1>11, <3>1 DEF HeadOK, LeftOver
  <2>6. HeadOK'
    BY <1>8, <2>1, <2>4, <2>5, Zenon DEF HeadOK
  <2> QED BY <1>1, <1>6, <1>9, <1>11, <2>2, <2>3, <2>6, OpenInv
<1>12. CASE /\ segments' = Append(kept, Opened(base, logData[base], indexData[base]))
            /\ logFiles' = logFiles \cup {base}
            /\ indexFiles' = indexFiles \cup {base}
  <2> DEFINE new == Opened(base, logData[base], indexData[base])
  <2>1. /\ new \in SegmentType /\ new.baseOffset = base /\ new.open
        /\ new.nextOffset = DiskNext(base, indexData[base])
    <3>1. logData[base] \in Seq(Cell) /\ indexData[base] \in Seq(IndexEntry)
      BY <1>4 DEF Inv, TypeOK
    <3>2. new \in SegmentType
      BY <1>5, <3>1, OpenedType
    <3> QED BY <3>2 DEF Opened, DiskNext
  <2>2. new.nextOffset = base
    BY <1>4, <2>1 DEF DiskNext
  <2> HIDE DEF new
  <2>3. segments' = Append(kept, new)
    BY <1>12 DEF new
  <2>4. Tiled(segments') /\ Len(segments') = n + 1 /\ segments'[n + 1] = new
    <3>1. /\ new.baseOffset = kept[Len(kept)].nextOffset
          /\ kept[Len(kept)].baseOffset < kept[Len(kept)].nextOffset
          /\ new.baseOffset <= new.nextOffset /\ new.nextOffset <= MaxOffset
      BY <1>4, <1>5, <1>6, <2>1, <2>2
    <3> QED BY <1>6, <2>1, <2>3, <3>1, TiledRolled
  <2>5. Active' = new
    BY <2>4 DEF Active
  <2>6. TypeOK'
    <3>1. segments' \in Seq(SegmentType)
      BY <2>4 DEF Tiled
    <3>2. logFiles' \subseteq Bases /\ indexFiles' \subseteq Bases
      BY <1>4, <1>12 DEF Inv, TypeOK
    <3> QED BY <1>1, <1>3, <1>10, <3>1, <3>2 DEF Inv, TypeOK, FilesWritten
  <2>7. NextIndexes
    BY <1>1, <1>3, <1>12, WrittenIndexes
  <2>8. base <= DiskNext(base, indexData'[base])
    <3>1. indexData'[base] = << >>
      BY <1>3, <1>4, <1>5 DEF FilesWritten
    <3> QED BY <1>5, <3>1 DEF DiskNext
  <2>9. \A b \in indexFiles' : b <= base
    <3>1. \A b \in indexFiles :
            b \in Nat /\ (b <= Active.baseOffset \/ b <= Active.nextOffset)
      BY <1>7, BasesNat DEF HeadOK, LeftOver, NextOffset, Inv, TypeOK
    <3> QED BY <1>4, <1>5, <1>12, <3>1
  <2>10. base \in logFiles' /\ base \in indexFiles'
    BY <1>12
  <2>11. HeadOK'
    BY <1>8, <2>1, <2>2, <2>5, <2>8, <2>9, <2>10, Zenon DEF HeadOK
  <2> QED BY <1>1, <1>9, <2>4, <2>6, <2>7, <2>11, OpenInv
<1> QED BY <1>2, <1>11, <1>12

(***************************************************************************)
(* Retention never touches the files of the active segment.                *)
(***************************************************************************)
LEMMA UnlinkFiles ==
  ASSUME Inv, status = "open", NEW j \in 0..(Len(segments) - 1), NEW j2 \in 0..(Len(segments) - 1),
         Unlink(j, j2)
  PROVE  /\ logFiles' \subseteq logFiles /\ indexFiles' \subseteq indexFiles
         /\ Active.baseOffset \in logFiles' /\ Active.baseOffset \in indexFiles'
         /\ indexData'[Active.baseOffset] = indexData[Active.baseOffset]
         /\ logData' \in [Bases -> Seq(Cell)] /\ indexData' \in [Bases -> Seq(IndexEntry)]
         /\ NextIndexes
         /\ \A b \in indexFiles' :
              \/ b <= Active.baseOffset
              \/ (b \in logFiles => b \in logFiles') /\ indexData'[b] = indexData[b]
<1> DEFINE n == Len(segments)
           logsGone  == {segments[i].baseOffset : i \in 1..j2}
           indexGone == {segments[i].baseOffset : i \in 1..j}
<1>1. /\ logFiles' = logFiles \ logsGone
      /\ indexFiles' = indexFiles \ indexGone
      /\ logData' = [b \in Bases |-> IF b \in logsGone THEN << >> ELSE logData[b]]
      /\ indexData' = [b \in Bases |-> IF b \in indexGone THEN << >> ELSE indexData[b]]
  BY DEF Unlink
<1>2. n \in Nat /\ n >= 1 /\ Tiled(segments) /\ Active.baseOffset \in Bases
  BY OpenFacts, TiledSegments
<1>3. \A i \in 1..(n - 1) : segments[i].baseOffset # Active.baseOffset
  <2>1. \A i \in 1..(n - 1) : i \in 1..n /\ i < n /\ n \in 1..n
    BY <1>2
  <2>2. \A i \in 1..(n - 1) : segments[i].baseOffset < segments[n].baseOffset
    BY <1>2, <2>1 DEF Tiled
  <2>3. \A i \in 1..n : segments[i].baseOffset \in Nat
    BY <1>2, FieldTypes DEF Tiled
  <2> QED BY <2>1, <2>2, <2>3 DEF Active
<1>4. Active.baseOffset \notin logsGone /\ Active.baseOffset \notin indexGone
  <2>1. \A i \in 1..j : i \in 1..(n - 1)
    BY <1>2
  <2>2. \A i \in 1..j2 : i \in 1..(n - 1)
    BY <1>2
  <2> QED BY <1>3, <2>1, <2>2
<1>9. \A b \in logsGone \cup indexGone : b <= Active.baseOffset
  <2>1. \A i \in 1..j : i \in 1..n /\ i < n /\ n \in 1..n
    BY <1>2
  <2>2. \A i \in 1..j2 : i \in 1..n /\ i < n /\ n \in 1..n
    BY <1>2
  <2>3. \A i \in 1..n : segments[i].baseOffset \in Nat
    BY <1>2, FieldTypes DEF Tiled
  <2>4. \A i \in 1..n : i < n => segments[i].baseOffset < segments[n].baseOffset
    BY <1>2 DEF Tiled
  <2>5. \A i \in 1..n : i < n => segments[i].baseOffset <= Active.baseOffset
    BY <1>2, <2>3, <2>4 DEF Active
  <2> QED BY <2>1, <2>2, <2>5, Zenon
<1> HIDE DEF logsGone, indexGone
<1>10. \A b \in indexFiles' :
         \/ b <= Active.baseOffset
         \/ (b \in logFiles => b \in logFiles') /\ indexData'[b] = indexData[b]
  <2>1. indexFiles' \subseteq Bases
    BY <1>1 DEF Inv, TypeOK
  <2> QED BY <1>1, <1>9, <2>1
<1>5. /\ Active.baseOffset \in logFiles' /\ Active.baseOffset \in indexFiles'
      /\ indexData'[Active.baseOffset] = indexData[Active.baseOffset]
  BY <1>1, <1>2, <1>4, HeadOfInv DEF HeadOK
<1>6. \A S : << >> \in Seq(S)
  OBVIOUS
<1>7. logData' \in [Bases -> Seq(Cell)] /\ indexData' \in [Bases -> Seq(IndexEntry)]
  <2>1. \A b \in Bases : logData[b] \in Seq(Cell) /\ indexData[b] \in Seq(IndexEntry)
    BY DEF Inv, TypeOK
  <2> QED BY <1>1, <1>6, <2>1, Zenon
<1>8. NextIndexes
  <2>1. ASSUME NEW b \in Bases
        PROVE  /\ b \notin indexFiles' => indexData'[b] = << >>
               /\ InRange(b, indexData'[b], MaxOffset)
    <3>1. /\ b \notin indexFiles => indexData[b] = << >>
          /\ InRange(b, indexData[b], MaxOffset)
      BY DEF Inv, IndexesInRange, InRange
    <3>2. InRange(b, << >>, MaxOffset)
      BY DEF InRange
    <3>3. indexData'[b] = IF b \in indexGone THEN << >> ELSE indexData[b]
      BY <1>1
    <3> QED BY <1>1, <3>1, <3>2, <3>3, Zenon
  <2> QED BY <2>1 DEF NextIndexes
<1> QED BY <1>1, <1>5, <1>7, <1>8, <1>10

\* EnforceRetention keeps Inv.
LEMMA RetentionStep ==
  ASSUME Inv, NEW k, NEW bytes, NEW cutoff, NEW junk, EnforceRetention(k, bytes, cutoff, junk)
  PROVE  Inv'
<1> DEFINE n == Len(segments)
<1>1. /\ status = "open" /\ k \in 0..(n - 1) /\ Unlink(k, k)
      /\ segments' = SubSeq(segments, k + 1, n)
      /\ trimmed' = segments[k+1].baseOffset
      /\ UNCHANGED <<compressed, status, acked, crashes, writeErrors>>
  BY DEF EnforceRetention, Removes, faults
<1>2. n \in Nat /\ n >= 1 /\ \A i \in 1..n : segments[i] \in SegmentType
  BY <1>1, OpenFacts
<1>3. /\ logFiles' \subseteq logFiles /\ indexFiles' \subseteq indexFiles
      /\ Active.baseOffset \in logFiles' /\ Active.baseOffset \in indexFiles'
      /\ indexData'[Active.baseOffset] = indexData[Active.baseOffset]
      /\ logData' \in [Bases -> Seq(Cell)] /\ indexData' \in [Bases -> Seq(IndexEntry)]
      /\ NextIndexes
      /\ \A b \in indexFiles' :
           \/ b <= Active.baseOffset
           \/ (b \in logFiles => b \in logFiles') /\ indexData'[b] = indexData[b]
  BY <1>1, UnlinkFiles
<1>4. /\ Tiled(segments') /\ Len(segments') = n - k
      /\ \A i \in 1..(n - k) : segments'[i] = segments[k + i]
  BY <1>1, TiledSegments, TiledSuffix
<1>5. Active' = Active
  BY <1>1, <1>2, <1>4 DEF Active
<1>6. TypeOK'
  <2>1. k + 1 \in 1..n
    BY <1>1, <1>2
  <2>2. trimmed' \in Nat
    BY <1>1, <1>2, <2>1, FieldTypes
  <2>3. segments' \in Seq(SegmentType)
    BY <1>4 DEF Tiled
  <2> QED BY <1>1, <1>3, <2>2, <2>3 DEF Inv, TypeOK
<1>7. OffsetsUnique'
  BY <1>1 DEF Inv, OffsetsUnique
<1>8. HeadOK'
  <2>1. HeadOK
    BY <1>1, HeadOfInv
  <2>2. \A b \in indexFiles' : b <= Active'.baseOffset \/ LeftOver(b)'
    BY <1>1, <1>3, <1>5, <2>1, LeftOverKept
  <2> QED BY <1>1, <1>3, <1>5, <2>1, <2>2 DEF HeadOK
<1> QED BY <1>1, <1>3, <1>4, <1>6, <1>7, <1>8, OpenInv

\* Delete stopped in the segment after the first j.
LEMMA StoppedRetentionFacts ==
  ASSUME Inv, NEW k, NEW j \in Nat, NEW j2, NEW bytes, NEW cutoff, NEW junk,
         StoppedRetention(k, j, j2, bytes, cutoff, junk)
  PROVE  /\ status = "open"
         /\ j \in 0..(Len(segments) - 1) /\ j + 2 <= Len(segments)
         /\ trimmed' \in Nat
         /\ UNCHANGED <<compressed, acked>>
         /\ logFiles' \subseteq logFiles /\ indexFiles' \subseteq indexFiles
         /\ Active.baseOffset \in logFiles' /\ Active.baseOffset \in indexFiles'
         /\ indexData'[Active.baseOffset] = indexData[Active.baseOffset]
         /\ logData' \in [Bases -> Seq(Cell)] /\ indexData' \in [Bases -> Seq(IndexEntry)]
         /\ NextIndexes
         /\ \A b \in indexFiles' :
              \/ b <= Active.baseOffset
              \/ (b \in logFiles => b \in logFiles') /\ indexData'[b] = indexData[b]
<1> DEFINE n == Len(segments)
<1>1. /\ status = "open" /\ k \in 0..(n - 1) /\ j < k /\ j2 \in {j, j + 1} /\ Unlink(j, j2)
      /\ trimmed' = segments[j+2].baseOffset
      /\ UNCHANGED <<compressed, acked>>
  BY DEF StoppedRetention, Removes
<1>2. n \in Nat /\ n >= 1 /\ \A i \in 1..n : segments[i] \in SegmentType
  BY <1>1, OpenFacts
<1>3. j \in 0..(n - 1) /\ j2 \in 0..(n - 1) /\ j + 2 \in 1..n /\ j + 2 <= n
  BY <1>1, <1>2
<1>4. trimmed' \in Nat
  BY <1>1, <1>2, <1>3, FieldTypes
<1> QED BY <1>1, <1>3, <1>4, UnlinkFiles

\* EnforceRetention that fails on some segment keeps Inv.
LEMMA RetentionFailsStep ==
  ASSUME Inv, FaultsCounted, NEW k, NEW j \in Nat, NEW j2, NEW bytes, NEW cutoff, NEW junk,
         RetentionFails(k, j, j2, bytes, cutoff, junk)
  PROVE  Inv'
<1> DEFINE n == Len(segments)
           left == SubSeq(segments, j + 1, n)
           first == [left[1] EXCEPT !.open = FALSE]
<1>1. /\ StoppedRetention(k, j, j2, bytes, cutoff, junk)
      /\ segments' = [left EXCEPT ![1].open = FALSE]
      /\ status' = status
  BY DEF RetentionFails
<1>2. /\ status = "open"
      /\ j \in 0..(n - 1) /\ j + 2 <= n
      /\ trimmed' \in Nat
      /\ UNCHANGED <<compressed, acked>>
      /\ logFiles' \subseteq logFiles /\ indexFiles' \subseteq indexFiles
      /\ Active.baseOffset \in logFiles' /\ Active.baseOffset \in indexFiles'
      /\ indexData'[Active.baseOffset] = indexData[Active.baseOffset]
      /\ logData' \in [Bases -> Seq(Cell)] /\ indexData' \in [Bases -> Seq(IndexEntry)]
      /\ NextIndexes
      /\ \A b \in indexFiles' :
           \/ b <= Active.baseOffset
           \/ (b \in logFiles => b \in logFiles') /\ indexData'[b] = indexData[b]
  BY <1>1, StoppedRetentionFacts
<1>3. n \in Nat /\ n >= 1
  BY <1>2, OpenFacts
<1>4. /\ Tiled(left) /\ Len(left) = n - j
      /\ \A i \in 1..(n - j) : left[i] = segments[j + i]
  BY <1>2, TiledSegments, TiledSuffix
<1> HIDE DEF left
<1>5. left \in Seq(SegmentType) /\ 1 \in 1..Len(left) /\ left[1] \in SegmentType
  BY <1>2, <1>3, <1>4 DEF Tiled
<1>6. /\ first \in SegmentType
      /\ first.baseOffset = left[1].baseOffset
      /\ first.nextOffset = left[1].nextOffset
  BY <1>5 DEF SegmentType
<1>7. segments' = [left EXCEPT ![1] = first]
  BY <1>1
<1> HIDE DEF first
<1>8. /\ segments' \in Seq(SegmentType)
      /\ Len(segments') = Len(left)
      /\ \A i \in 1..Len(left) : segments'[i] = IF i = 1 THEN first ELSE left[i]
  BY <1>5, <1>6, <1>7, ExceptSeq
<1>9. Tiled(segments')
  BY <1>4, <1>6, <1>8, TiledSame
<1>10. Active' = Active
  <2>1. n - j \in 1..(n - j) /\ n - j # 1 /\ j + (n - j) = n
    BY <1>2, <1>3
  <2>2. segments'[n - j] = left[n - j] /\ left[n - j] = segments[n]
    BY <1>4, <1>8, <2>1
  <2> QED BY <1>4, <1>8, <2>2 DEF Active
<1>11. TypeOK'
  BY <1>1, <1>2, <1>8 DEF Inv, TypeOK, FaultsCounted
<1>12. OffsetsUnique'
  BY <1>2 DEF Inv, OffsetsUnique
<1>13. HeadOK'
  <2>1. HeadOK
    BY <1>2, HeadOfInv
  <2>2. \A b \in indexFiles' : b <= Active'.baseOffset \/ LeftOver(b)'
    BY <1>2, <1>10, <2>1, LeftOverKept
  <2> QED BY <1>2, <1>10, <2>1, <2>2 DEF HeadOK
<1> QED BY <1>1, <1>2, <1>9, <1>11, <1>12, <1>13, OpenInv

\* A crash during EnforceRetention keeps Inv.
LEMMA RetentionCrashStep ==
  ASSUME Inv, FaultsCounted, NEW k, NEW j \in Nat, NEW j2, NEW bytes, NEW cutoff, NEW junk,
         RetentionCrash(k, j, j2, bytes, cutoff, junk)
  PROVE  Inv'
<1>1. /\ StoppedRetention(k, j, j2, bytes, cutoff, junk)
      /\ segments' = << >> /\ status' = "closed"
  BY DEF RetentionCrash
<1>2. /\ status = "open"
      /\ trimmed' \in Nat
      /\ UNCHANGED <<compressed, acked>>
      /\ logFiles' \subseteq logFiles /\ indexFiles' \subseteq indexFiles
      /\ Active.baseOffset \in logFiles'
      /\ indexData'[Active.baseOffset] = indexData[Active.baseOffset]
      /\ logData' \in [Bases -> Seq(Cell)] /\ indexData' \in [Bases -> Seq(IndexEntry)]
      /\ NextIndexes
      /\ \A b \in indexFiles' :
           \/ b <= Active.baseOffset
           \/ (b \in logFiles => b \in logFiles') /\ indexData'[b] = indexData[b]
  BY <1>1, StoppedRetentionFacts
<1>3. TypeOK'
  <2>1. << >> \in Seq(SegmentType)
    OBVIOUS
  <2> QED BY <1>1, <1>2, <2>1 DEF Inv, TypeOK, FaultsCounted
<1>4. HeadOK /\ Active.baseOffset \in Bases
  BY <1>2, HeadOfInv, OpenFacts
<1>5. /\ Active.nextOffset <= DiskNext(Active.baseOffset, indexData'[Active.baseOffset])
      /\ \A b \in indexFiles' : b <= Active.baseOffset \/ EmptyAbove(b)
  BY <1>2, <1>4, EmptyAboveKept DEF HeadOK
<1> QED BY <1>1, <1>2, <1>3, <1>4, <1>5, ClosedInv

(***************************************************************************)
(* NewLog: the list of segments it loads, in base-offset order.            *)
(***************************************************************************)
LEMMA DiskNextRange ==
  ASSUME NEW base \in Nat, NEW index \in Seq(IndexEntry), NEW hi \in Nat, base <= hi,
         InRange(base, index, hi)
  PROVE  DiskNext(base, index) \in Nat /\ base <= DiskNext(base, index) /\ DiskNext(base, index) <= hi
<1>1. CASE index = << >>
  BY <1>1 DEF DiskNext
<1>2. CASE index # << >>
  <2>1. Len(index) \in 1..Len(index) /\ index[Len(index)] \in IndexEntry
    BY <1>2
  <2>2. /\ index[Len(index)].offset \in Nat
        /\ base <= index[Len(index)].offset /\ index[Len(index)].offset < hi
    BY <2>1 DEF IndexEntry, InRange
  <2> QED BY <1>2, <2>2 DEF DiskNext
<1> QED BY <1>1, <1>2

\* A segment whose next offset was moved.
LEMMA MovedEnd ==
  ASSUME NEW seg \in SegmentType, NEW next \in Nat,
         NEW moved, moved = [seg EXCEPT !.nextOffset = next]
  PROVE  /\ moved \in SegmentType
         /\ moved.baseOffset = seg.baseOffset
         /\ moved.open = seg.open
         /\ moved.nextOffset = next
BY DEF SegmentType

\* The segments NewLog loads from the directory tile the offsets up to the newest one.
LEMMA LoadedFacts ==
  ASSUME Inv, NEW c \in Nat, c >= 1, NEW bases \in [1..c -> logFiles], IsSorted(bases),
         NEW m \in logFiles, \A b \in logFiles : b <= m
  PROVE  /\ Tiled(LoadSegments(bases))
         /\ Len(LoadSegments(bases)) = c
         /\ LoadSegments(bases)[c].baseOffset = m
         /\ LoadSegments(bases)[c].nextOffset = DiskNext(m, indexData[m])
         /\ LoadSegments(bases)[c].open
<1> DEFINE opened(i) == Opened(bases[i], logData[bases[i]], indexData[bases[i]])
           s == LoadSegments(bases)
<1>1. Len(bases) = c /\ DOMAIN bases = 1..c
  OBVIOUS
<1>2. \A i \in 1..c : bases[i] \in logFiles /\ bases[i] \in Bases /\ bases[i] \in Nat
                     /\ bases[i] <= MaxOffset /\ bases[i] <= m
  <2>1. \A b \in logFiles : b \in Bases /\ b \in Nat /\ b <= MaxOffset /\ b <= m
    BY CommitLogAssumption DEF Inv, TypeOK, Bases
  <2>2. \A i \in 1..c : bases[i] \in logFiles
    OBVIOUS
  <2> QED BY <2>1, <2>2
<1>3. \A i, j \in 1..c : i < j => bases[i] < bases[j]
  BY <1>1 DEF IsSorted
<1>4. bases[c] = m
  <2>1. PICK i \in 1..c : bases[i] = m
    BY <1>1 DEF IsSorted
  <2>2. i < c => m < bases[c]
    BY <1>3, <2>1
  <2>3. m \in Nat /\ bases[c] \in Nat /\ bases[c] <= m
    BY <1>2, <2>1
  <2> QED BY <2>1, <2>2, <2>3
<1>5. ASSUME NEW i \in 1..c
      PROVE  /\ opened(i) \in SegmentType
             /\ opened(i).baseOffset = bases[i]
             /\ opened(i).nextOffset = DiskNext(bases[i], indexData[bases[i]])
             /\ opened(i).open = TRUE
  <2>1. /\ bases[i] \in Nat
        /\ logData[bases[i]] \in Seq(Cell) /\ indexData[bases[i]] \in Seq(IndexEntry)
    BY <1>2 DEF Inv, TypeOK
  <2>2. opened(i) \in SegmentType
    BY <2>1, OpenedType
  <2> QED BY <2>2 DEF Opened, DiskNext
<1>6. s = [i \in 1..c |-> IF i < c THEN [opened(i) EXCEPT !.nextOffset = bases[i+1]]
                                  ELSE opened(i)]
  BY <1>1 DEF LoadSegments
<1> HIDE DEF opened, s
<1>7. ASSUME NEW i \in 1..c
      PROVE  /\ s[i] \in SegmentType
             /\ s[i].baseOffset = bases[i]
             /\ s[i].open = TRUE
             /\ i < c => s[i].nextOffset = bases[i+1]
             /\ i = c => s[i].nextOffset = DiskNext(m, indexData[m])
  <2>1. CASE i < c
    <3>1. i + 1 \in 1..c
      BY <2>1
    <3>2. s[i] = [opened(i) EXCEPT !.nextOffset = bases[i+1]]
      BY <1>6, <2>1
    <3>3. bases[i+1] \in Nat
      BY <1>2, <3>1
    <3>4. /\ opened(i) \in SegmentType
          /\ opened(i).baseOffset = bases[i]
          /\ opened(i).open = TRUE
      BY <1>5
    <3>5. /\ s[i] \in SegmentType
          /\ s[i].baseOffset = opened(i).baseOffset
          /\ s[i].open = opened(i).open
          /\ s[i].nextOffset = bases[i+1]
      BY <3>2, <3>3, <3>4, MovedEnd
    <3> QED BY <2>1, <3>4, <3>5
  <2>2. CASE ~(i < c)
    <3>1. s[i] = opened(i)
      BY <1>6, <2>2
    <3>2. i = c
      BY <2>2
    <3>3. /\ s[i] \in SegmentType
          /\ s[i].baseOffset = bases[i]
          /\ s[i].nextOffset = DiskNext(bases[i], indexData[bases[i]])
          /\ s[i].open = TRUE
      BY <1>5, <3>1
    <3> QED BY <1>4, <2>2, <3>2, <3>3
  <2> QED BY <2>1, <2>2
<1>8. s \in Seq(SegmentType) /\ Len(s) = c
  <2>1. DOMAIN s = 1..c
    BY <1>6
  <2>2. s \in [1..c -> SegmentType]
    BY <1>6, <1>7, <2>1
  <2> QED BY <2>2
<1>9. DiskNext(m, indexData[m]) \in Nat /\ m <= DiskNext(m, indexData[m])
        /\ DiskNext(m, indexData[m]) <= MaxOffset
  <2>1. m \in Bases /\ indexData[m] \in Seq(IndexEntry)
    BY DEF Inv, TypeOK
  <2>2. InRange(m, indexData[m], MaxOffset)
    BY <2>1 DEF Inv, IndexesInRange, InRange
  <2>3. m \in Nat /\ MaxOffset \in Nat /\ m <= MaxOffset
    BY <2>1, CommitLogAssumption DEF Bases
  <2> QED BY <2>1, <2>2, <2>3, DiskNextRange
<1>10. ASSUME NEW i \in 1..c
       PROVE  s[i].baseOffset <= s[i].nextOffset /\ s[i].nextOffset <= MaxOffset
  <2>0. /\ s[i].baseOffset = bases[i]
        /\ i < c => s[i].nextOffset = bases[i+1]
        /\ i = c => s[i].nextOffset = DiskNext(m, indexData[m])
    BY <1>7
  <2>1. CASE i < c
    <3>1. i + 1 \in 1..c /\ i < i + 1
      BY <2>1
    <3>2. bases[i] < bases[i+1] /\ bases[i] \in Nat /\ bases[i+1] \in Nat /\ bases[i+1] <= MaxOffset
      BY <1>2, <1>3, <3>1
    <3> QED BY <2>0, <2>1, <3>2
  <2>2. CASE i = c
    BY <1>4, <1>9, <2>0, <2>2
  <2> QED BY <2>1, <2>2
<1>11. ASSUME NEW i \in 1..(c - 1)
       PROVE  s[i].nextOffset = s[i+1].baseOffset
  <2>1. i \in 1..c /\ i < c /\ i + 1 \in 1..c
    OBVIOUS
  <2> QED BY <1>7, <2>1
<1>12. \A i, j \in 1..c : i < j => s[i].baseOffset < s[j].baseOffset
  BY <1>3, <1>7
<1>13. Tiled(s)
  BY <1>8, <1>10, <1>11, <1>12 DEF Tiled
<1>14. c \in 1..c
  OBVIOUS
<1> QED BY <1>4, <1>7, <1>8, <1>13, <1>14 DEF s

\* NewLog keeps Inv.
LEMMA NewLogStep ==
  ASSUME Inv, NewLog
  PROVE  Inv'
<1>1. /\ status = "closed" /\ Loadable /\ status' = "open" /\ compressed' = FALSE
      /\ UNCHANGED <<acked, trimmed, crashes, writeErrors>>
  BY DEF NewLog, history, faults
<1>2. OffsetsUnique'
  BY <1>1 DEF Inv, OffsetsUnique
<1>3. CASE /\ logFiles # {}
           /\ \E bases \in [1..Cardinality(logFiles) -> logFiles] :
                IsSorted(bases) /\ segments' = LoadSegments(bases)
           /\ UNCHANGED disk
  <2>1. UNCHANGED <<logFiles, indexFiles, logData, indexData>>
    BY <1>3 DEF disk
  <2>2. PICK bases \in [1..Cardinality(logFiles) -> logFiles] :
          IsSorted(bases) /\ segments' = LoadSegments(bases)
    BY <1>3
  <2> DEFINE c == Cardinality(logFiles)
  <2>3. c \in Nat
    <3>1. IsFiniteSet(0..MaxOffset)
      BY FS_Interval, CommitLogAssumption
    <3>2. logFiles \in SUBSET (0..MaxOffset)
      BY DEF Inv, TypeOK, Bases
    <3>3. IsFiniteSet(logFiles)
      BY <3>1, <3>2, FS_Subset
    <3> QED BY <3>3, FS_CardinalityType
  <2> HIDE DEF c
  <2>4. bases \in [1..c -> logFiles]
    BY DEF c
  <2>5. c >= 1
    <3>1. {bases[i] : i \in 1..c} # {}
      BY <1>3, <2>2, <2>4 DEF IsSorted
    <3> QED BY <2>3, <3>1
  <2>6. PICK m \in logFiles : /\ \A b \in logFiles \cup indexFiles : b <= m
                             /\ \A a \in acked : a.offset < DiskHead(m)
    BY <1>1, <1>3 DEF Loadable, Inv, RestartContinues
  <2>7. /\ Tiled(segments') /\ Len(segments') = c
        /\ segments'[c].baseOffset = m
        /\ segments'[c].nextOffset = DiskNext(m, indexData[m])
        /\ segments'[c].open
    BY <2>2, <2>3, <2>4, <2>5, <2>6, LoadedFacts
  <2>8. /\ Active'.baseOffset = m /\ Active'.open
        /\ Active'.nextOffset = DiskNext(m, indexData[m])
    BY <2>7 DEF Active
  <2>9. TypeOK'
    <3>1. segments' \in Seq(SegmentType)
      BY <2>7 DEF Tiled
    <3> QED BY <1>1, <2>1, <3>1 DEF Inv, TypeOK
  <2>10. NextIndexes
    BY <2>1, SameIndexes
  <2>11. m \in Bases /\ m \in indexFiles /\ TypeOK
    BY <1>1 DEF Inv, TypeOK, Loadable
  <2>12. DiskHead(m) = DiskNext(m, indexData[m])
    BY <2>11, DiskHeadIs
  <2>13. DiskNext(m, indexData[m]) <= DiskNext(m, indexData[m])
    <3>1. segments'[c] \in SegmentType
      BY <2>3, <2>5, <2>7 DEF Tiled
    <3>2. DiskNext(m, indexData[m]) \in Nat
      BY <2>7, <3>1, FieldTypes
    <3> QED BY <3>2
  <2>14. HeadOK'
    BY <1>1, <2>1, <2>6, <2>8, <2>11, <2>12, <2>13 DEF HeadOK
  <2> QED BY <1>1, <1>2, <2>7, <2>9, <2>10, <2>14, OpenInv
<1>4. CASE /\ logFiles = {}
           /\ segments' = <<Opened(0, << >>, << >>)>>
           /\ logFiles' = {0}
           /\ indexFiles' = indexFiles \cup {0}
           /\ UNCHANGED <<logData, indexData>>
  <2> DEFINE seg == Opened(0, << >>, << >>)
  <2>1. indexFiles = {} /\ acked = {}
    BY <1>1, <1>4 DEF Inv, RestartContinues
  <2>2. seg \in SegmentType /\ seg.baseOffset = 0 /\ seg.nextOffset = 0 /\ seg.open
    <3>1. << >> \in Seq(Cell) /\ << >> \in Seq(IndexEntry) /\ 0 \in Nat
      OBVIOUS
    <3>2. seg \in SegmentType
      BY <3>1, OpenedType
    <3> QED BY <3>2 DEF Opened
  <2> HIDE DEF seg
  <2>3. segments' = <<seg>>
    BY <1>4 DEF seg
  <2>4. segments' \in Seq(SegmentType) /\ Len(segments') = 1 /\ segments'[1] = seg
    BY <2>2, <2>3
  <2>5. Tiled(segments')
    BY <2>2, <2>4, CommitLogAssumption DEF Tiled
  <2>6. Active' = seg
    BY <2>4 DEF Active
  <2>7. 0 \in Bases /\ indexData'[0] = << >>
    BY <1>4, <2>1, BasesNat DEF Inv, IndexesInRange
  <2>8. TypeOK'
    BY <1>1, <1>4, <2>1, <2>4, <2>7 DEF Inv, TypeOK
  <2>9. NextIndexes
    <3>1. \A b \in Bases : indexData'[b] = << >>
      BY <1>4, <2>1 DEF Inv, IndexesInRange
    <3>2. \A b \in Bases : InRange(b, << >>, MaxOffset)
      BY DEF InRange
    <3> QED BY <3>1, <3>2 DEF NextIndexes
  <2>10. seg.nextOffset <= DiskNext(0, indexData'[0])
    BY <2>2, <2>7 DEF DiskNext
  <2>11. HeadOK'
    BY <1>1, <1>4, <2>1, <2>2, <2>6, <2>10 DEF HeadOK
  <2> QED BY <1>1, <1>2, <2>5, <2>8, <2>9, <2>11, OpenInv
<1> QED BY <1>3, <1>4 DEF NewLog

\* 0.log without 0.index: a directory no NewLog will load.
LEMMA NewLogCrashStep ==
  ASSUME Inv, FaultsCounted, NewLogCrash
  PROVE  Inv'
<1>1. /\ status = "closed" /\ logFiles = {} /\ logFiles' = {0}
      /\ UNCHANGED <<segments, compressed, status, indexFiles, logData, indexData, acked, trimmed>>
  BY DEF NewLogCrash, memory, history
<1>2. indexFiles = {} /\ acked = {} /\ segments = << >>
  BY <1>1 DEF Inv, RestartContinues
<1>3. TypeOK'
  BY <1>1, BasesNat DEF Inv, TypeOK, FaultsCounted
<1>4. IndexesInRange'
  BY <1>1 DEF Inv, IndexesInRange
<1>5. SegmentsContiguous' /\ AckedBelowHead' /\ HeadIntact' /\ HeadIsNewest'
  BY <1>1 DEF SegmentsContiguous, AckedBelowHead, HeadIntact, HeadIsNewest
<1>6. BasesIncrease' /\ OffsetsUnique'
  BY <1>1, <1>2 DEF BasesIncrease, OffsetsUnique
<1>7. RestartContinues'
  BY <1>1, <1>2 DEF RestartContinues
<1> QED BY <1>3, <1>4, <1>5, <1>6, <1>7 DEF Inv

(***************************************************************************)
(* The invariant and its consequences.                                     *)
(***************************************************************************)
LEMMA BatchesAre ==
  /\ \A recs \in Batches : Batch(recs)
  /\ \A r \in Records : Batch(<<r>>)
  /\ \A ts \in Times : ts \in Nat
<1>1. ASSUME NEW recs \in Batches PROVE Batch(recs)
  <2>1. PICK n \in BatchSizes : recs \in [1..n -> Records]
    BY DEF Batches
  <2>2. n \in Nat /\ n >= 1
    BY CommitLogAssumption
  <2> QED BY <2>1, <2>2 DEF Batch
<1>2. ASSUME NEW r \in Records PROVE Batch(<<r>>)
  BY DEF Batch
<1>3. \A ts \in Times : ts \in Nat
  BY CommitLogAssumption
<1> QED BY <1>1, <1>2, <1>3

\* An empty directory satisfies Inv.
LEMMA InitInv == Init => Inv
<1> SUFFICES ASSUME Init PROVE Inv
  OBVIOUS
<1>1. << >> \in Seq(SegmentType) /\ << >> \in Seq(Cell) /\ << >> \in Seq(IndexEntry)
  OBVIOUS
<1>2. TypeOK
  BY <1>1 DEF Init, TypeOK
<1>3. IndexesInRange
  BY DEF Init, IndexesInRange
<1>4. SegmentsContiguous /\ AckedBelowHead /\ HeadIntact /\ HeadIsNewest
  BY DEF Init, SegmentsContiguous, AckedBelowHead, HeadIntact, HeadIsNewest
<1>5. BasesIncrease /\ OffsetsUnique /\ RestartContinues
  BY DEF Init, BasesIncrease, OffsetsUnique, RestartContinues
<1> QED BY <1>2, <1>3, <1>4, <1>5 DEF Inv

\* Every operation that succeeds keeps Inv.
LEMMA ServeStep ==
  ASSUME Inv, Serve
  PROVE  Inv'
<1>1. CASE NewLog
  BY <1>1, NewLogStep
<1>2. CASE Close
  <2>1. /\ status = "open" /\ status' = "closed" /\ segments' = << >>
        /\ UNCHANGED <<compressed, disk, history, crashes, writeErrors>>
    BY <1>2 DEF Close, faults
  <2>2. FaultsCounted
    BY <2>1 DEF FaultsCounted, Inv, TypeOK
  <2> QED BY <2>1, <2>2, CloseStep
<1>3. CASE \E r \in Records, ts \in Times : AppendOne(r, ts)
  BY <1>3, BatchesAre, AppendStep DEF AppendOne
<1>4. CASE \E recs \in Batches, ts \in Times : AppendBatch(recs, ts)
  BY <1>4, BatchesAre, AppendStep DEF AppendBatch
<1>5. CASE \E bytes \in RetentionSizes, cutoff \in Cutoffs, junk \in Times :
             \E k \in 0..Len(segments) : EnforceRetention(k, bytes, cutoff, junk)
  BY <1>5, RetentionStep
<1> QED BY <1>1, <1>2, <1>3, <1>4, <1>5 DEF Serve

\* A crash in the middle of any operation keeps Inv.
LEMMA CrashStep ==
  ASSUME Inv, Crash
  PROVE  Inv'
<1>1. FaultsCounted
  BY DEF Crash, FaultsCounted, Inv, TypeOK
<1>2. CASE NewLogCrash
  BY <1>1, <1>2, NewLogCrashStep
<1>3. CASE \E r \in Records, ts \in Times : AppendCrash(<<r>>, ts)
  BY <1>1, <1>3, BatchesAre, AppendCrashStep
<1>4. CASE \E recs \in Batches, ts \in Times : AppendCrash(recs, ts)
  BY <1>1, <1>4, BatchesAre, AppendCrashStep
<1>5. CASE \E recs \in Batches \cup {<<r>> : r \in Records}, ts \in Times : RollCrash(recs, ts)
  <2>1. PICK recs \in Batches \cup {<<r>> : r \in Records}, ts \in Times : RollCrash(recs, ts)
    BY <1>5
  <2>2. Batch(recs) /\ ts \in Nat
    BY BatchesAre
  <2> QED BY <1>1, <2>1, <2>2, RollCrashStep
<1>6. CASE \E bytes \in RetentionSizes, cutoff \in Cutoffs, junk \in Times :
             \E k, j, j2 \in 0..Len(segments) : RetentionCrash(k, j, j2, bytes, cutoff, junk)
  <2>1. PICK bytes \in RetentionSizes, cutoff \in Cutoffs, junk \in Times :
          \E k, j, j2 \in 0..Len(segments) : RetentionCrash(k, j, j2, bytes, cutoff, junk)
    BY <1>6
  <2>2. PICK k, j, j2 \in 0..Len(segments) : RetentionCrash(k, j, j2, bytes, cutoff, junk)
    BY <2>1
  <2>3. j \in Nat
    OBVIOUS
  <2> QED BY <1>1, <2>2, <2>3, RetentionCrashStep
<1> QED BY <1>2, <1>3, <1>4, <1>5, <1>6 DEF Crash

\* An operation that the file system fails keeps Inv.
LEMMA WriteErrorStep ==
  ASSUME Inv, WriteError
  PROVE  Inv'
<1>1. FaultsCounted
  BY DEF WriteError, FaultsCounted, Inv, TypeOK
<1>2. CASE \E r \in Records, ts \in Times : AppendFails(<<r>>, ts)
  BY <1>1, <1>2, BatchesAre, AppendFailsStep
<1>3. CASE \E recs \in Batches, ts \in Times : AppendFails(recs, ts)
  BY <1>1, <1>3, BatchesAre, AppendFailsStep
<1>4. CASE \E recs \in Batches \cup {<<r>> : r \in Records}, ts \in Times : RollFails(recs, ts)
  <2>1. PICK recs \in Batches \cup {<<r>> : r \in Records}, ts \in Times : RollFails(recs, ts)
    BY <1>4
  <2>2. Batch(recs) /\ ts \in Nat
    BY BatchesAre
  <2> QED BY <1>1, <2>1, <2>2, RollFailsStep
<1>5. CASE \E bytes \in RetentionSizes, cutoff \in Cutoffs, junk \in Times :
             \E k, j, j2 \in 0..Len(segments) : RetentionFails(k, j, j2, bytes, cutoff, junk)
  <2>1. PICK bytes \in RetentionSizes, cutoff \in Cutoffs, junk \in Times :
          \E k, j, j2 \in 0..Len(segments) : RetentionFails(k, j, j2, bytes, cutoff, junk)
    BY <1>5
  <2>2. PICK k, j, j2 \in 0..Len(segments) : RetentionFails(k, j, j2, bytes, cutoff, junk)
    BY <2>1
  <2>3. j \in Nat
    OBVIOUS
  <2> QED BY <1>1, <2>2, <2>3, RetentionFailsStep
<1> QED BY <1>2, <1>3, <1>4, <1>5 DEF WriteError

\* A step of something else keeps Inv.
LEMMA StutterStep ==
  ASSUME Inv, UNCHANGED vars
  PROVE  Inv'
<1>1. /\ UNCHANGED <<segments, compressed, status, logFiles, indexFiles, logData, indexData,
                     acked, trimmed, crashes, writeErrors>>
  BY DEF vars
<1>2. TypeOK' /\ IndexesInRange' /\ BasesIncrease' /\ OffsetsUnique'
  BY <1>1 DEF Inv, TypeOK, IndexesInRange, BasesIncrease, OffsetsUnique
<1>3. SegmentsContiguous' /\ AckedBelowHead' /\ HeadIntact'
  BY <1>1 DEF Inv, SegmentsContiguous, AckedBelowHead, HeadIntact, NextOffset, Active
<1>4. HeadIsNewest'
  BY <1>1 DEF Inv, HeadIsNewest, LeftOver, SegmentFull, NextOffset, Active, DiskHead
<1>5. RestartContinues'
  BY <1>1 DEF Inv, RestartContinues, DiskHead
<1> QED BY <1>2, <1>3, <1>4, <1>5 DEF Inv

\* Everything that can happen to a log, failed writes and crashes in any number
\* included, preserves Inv.
THEOREM Invariance == Spec => []Inv
<1>1. Inv /\ [Next]_vars => Inv'
  <2> SUFFICES ASSUME Inv, [Next]_vars PROVE Inv'
    OBVIOUS
  <2>1. CASE Serve
    BY <2>1, ServeStep
  <2>2. CASE NewLogRefused
    BY <2>2, StutterStep DEF NewLogRefused
  <2>3. CASE Toggle
    BY <2>3, SetCompressedStep DEF Toggle
  <2>4. CASE Compact
    BY <2>4, CompactStep
  <2>5. CASE CompactPanics
    <3>1. /\ status = "open" /\ status' = "closed" /\ segments' = << >>
          /\ UNCHANGED <<compressed, disk, history, crashes, writeErrors>>
      BY <2>5 DEF CompactPanics, faults
    <3>2. FaultsCounted
      BY <3>1 DEF FaultsCounted, Inv, TypeOK
    <3> QED BY <3>1, <3>2, CloseStep
  <2>6. CASE Crash
    BY <2>6, CrashStep
  <2>7. CASE WriteError
    BY <2>7, WriteErrorStep
  <2>8. CASE UNCHANGED vars
    BY <2>8, StutterStep
  <2> QED BY <2>1, <2>2, <2>3, <2>4, <2>5, <2>6, <2>7, <2>8 DEF Next
<1> QED BY InitInv, <1>1, PTL DEF Spec

\* The state of a Log and of its directory keeps its type.
THEOREM TypeCorrect == Spec => []TypeOK
<1>1. Inv => TypeOK
  BY DEF Inv
<1> QED BY Invariance, <1>1, PTL

\* The segments of an open log tile the offsets (segmentForOffset, ReadBatch).
THEOREM Contiguity == Spec => []SegmentsContiguous
<1>1. Inv => SegmentsContiguous
  BY DEF Inv
<1> QED BY Invariance, <1>1, PTL

\* No offset is handed to two callers, whatever fails and however often the
\* process dies and NewLog runs again.
THEOREM UniqueOffsets == Spec => []OffsetsUnique
<1>1. Inv => OffsetsUnique
  BY DEF Inv
<1> QED BY Invariance, <1>1, PTL

\* The head of an open log is above every offset ever acknowledged.
THEOREM HeadAboveAcked == Spec => []AckedBelowHead
<1>1. Inv => AckedBelowHead
  BY DEF Inv
<1> QED BY Invariance, <1>1, PTL

\* Retention, also when it is interrupted, and compaction leave the active
\* segment open and both of its files in the directory.
THEOREM WriteHeadIntact == Spec => []HeadIntact
<1>1. Inv => HeadIntact
  BY DEF Inv
<1> QED BY Invariance, <1>1, PTL

\* A directory that NewLog accepts after a Close or a crash is continued above
\* every offset ever acknowledged.
THEOREM RestartIsSafe == Spec => []RestartContinues
<1>1. Inv => RestartContinues
  BY DEF Inv
<1> QED BY Invariance, <1>1, PTL

=============================================================================
