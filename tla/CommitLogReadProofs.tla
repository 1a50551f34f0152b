------------------------ MODULE CommitLogReadProofs ------------------------
(***************************************************************************)
(* What reads of a commit log return, for every segment size, every set of *)
(* records and batches and any number of restarts.                         *)
(*                                                                         *)
(* The argument has three layers.  SegmentProofs says what the cells of    *)
(* one pair of files are after any writes, whole or torn, and what a read  *)
(* of them returns.  DiskHolds lifts that to the directory, and            *)
(* MemoryHolds ties the Log object to it: together, LogHolds.  Faithful is *)
(* LogHolds for a log that may crash and be compacted, where files may     *)
(* hold cells besides their records; InService is LogHolds for a log whose *)
(* operations all succeed, where they hold nothing else.                   *)
(***************************************************************************)
EXTENDS CommitLogProofs

(***************************************************************************)
(* The directory and the Log object that serves it.                        *)
(***************************************************************************)
\* Every segment but the newest is followed by the one that begins where its
\* index ends.
Chained(files, indexes) ==
  \A b, c \in files : b < c =>
    /\ Len(indexes[b]) # 0
    /\ b + Len(indexes[b]) \in files
    /\ b + Len(indexes[b]) <= c

\* exact: no file holds cells besides its records.  encodings: the compression
\* settings the records may have been written with.
DiskHolds(files, logs, indexes, acks, exact, encodings) ==
  /\ \A b \in Bases : b \notin files => logs[b] = << >>
  /\ \A b \in files : SegmentFile(b, logs[b], indexes[b], acks, exact, encodings)
  /\ Chained(files, indexes)

\* What the Log object caches is what its files say.
Cached(seg, logs, indexes) ==
  /\ Mirrors(seg, logs[seg.baseOffset], indexes[seg.baseOffset])
  /\ seg.nextOffset = seg.baseOffset + Len(indexes[seg.baseOffset])

\* The Log object has a segment for every .log file and caches what they say.
MemoryHolds(segs, files, logs, indexes) ==
  /\ \A b \in files : \E i \in 1..Len(segs) : segs[i].baseOffset = b
  /\ \A i \in 1..Len(segs) : segs[i].baseOffset \in files /\ Cached(segs[i], logs, indexes)

\* The active segment is the newest.
LEMMA ActiveNewest ==
  ASSUME Inv, status = "open", MemoryHolds(segments, logFiles, logData, indexData)
  PROVE  /\ Active.baseOffset \in logFiles
         /\ Cached(Active, logData, indexData)
         /\ \A c \in logFiles : c \in Nat /\ c \in Bases /\ c <= Active.baseOffset
<1>1. Tiled(segments) /\ Len(segments) \in Nat /\ Len(segments) >= 1
  BY OpenFacts, TiledSegments
<1>2. Len(segments) \in 1..Len(segments)
  BY <1>1
<1>3. Active.baseOffset \in logFiles /\ Cached(Active, logData, indexData)
  BY <1>2, Zenon DEF MemoryHolds, Active
<1>4. ASSUME NEW c \in logFiles PROVE c \in Nat /\ c \in Bases /\ c <= Active.baseOffset
  <2>1. c \in Bases /\ c \in Nat /\ Active.baseOffset \in Nat
    BY BasesNat, OpenFacts DEF Inv, TypeOK
  <2>2. PICK i \in 1..Len(segments) : segments[i].baseOffset = c
    BY Zenon DEF MemoryHolds
  <2>3. i < Len(segments) => c < Active.baseOffset
    BY <1>1, <1>2, <2>2, Zenon DEF Tiled, Active
  <2>4. i = Len(segments) => c = Active.baseOffset
    BY <2>2, Zenon DEF Active
  <2> QED BY <1>1, <2>1, <2>3, <2>4
<1> QED BY <1>3, <1>4

\* Acknowledgements beyond a file do not concern it.
LEMMA OldFile ==
  ASSUME NEW base \in Nat, NEW log, NEW index \in Seq(IndexEntry), NEW acks, NEW newAcks,
         NEW exact, NEW encodings, NEW from \in Nat,
         SegmentFile(base, log, index, acks, exact, encodings),
         base + Len(index) <= from, \A a \in newAcks : a \in acks \/ (a.offset \in Nat /\ from <= a.offset)
  PROVE  SegmentFile(base, log, index, newAcks, exact, encodings)
<1>1. ASSUME NEW e \in 1..Len(index)
      PROVE  \E r \in Records, z \in encodings :
               Slot(log, index, e, base + e - 1, r, z, exact) /\ Agrees(newAcks, base + e - 1, r)
  <2>1. PICK r \in Records, z \in encodings :
          Slot(log, index, e, base + e - 1, r, z, exact) /\ Agrees(acks, base + e - 1, r)
    BY Zenon DEF SegmentFile
  <2>2. ~(from <= base + e - 1)
    <3>1. Len(index) \in Nat
      OBVIOUS
    <3> QED BY <3>1
  <2>3. Agrees(newAcks, base + e - 1, r)
    BY <2>1, <2>2, Zenon DEF Agrees
  <2> QED BY <2>1, <2>3, Zenon
<1> QED BY <1>1, Zenon DEF SegmentFile

\* Acknowledgements of one call, as GrownFile and OldFile want them.
LEMMA AcksAre ==
  ASSUME Inv, NEW recs, Batch(recs), CanAppend(recs),
         NEW newAcks \in {acked, acked \cup Acks(recs)}
  PROVE  /\ NewAcks(newAcks, acked, Active.nextOffset, recs)
         /\ \A a \in newAcks : a \in acked \/ (a.offset \in Nat /\ Active.nextOffset <= a.offset)
<1>1. DOMAIN recs = 1..Len(recs)
  BY DEF Batch
<1>2. \A a \in newAcks : a \in acked \/ a \in Acks(recs)
  BY Zenon
<1>3. ASSUME NEW a \in Acks(recs)
      PROVE  \E i \in 1..Len(recs) : a.offset = Active.nextOffset + i - 1 /\ a.rec = recs[i]
  <2>1. PICK i \in 1..Len(recs) : a = [offset |-> Active.nextOffset + i - 1, rec |-> recs[i]]
    BY <1>1 DEF Acks, NextOffset
  <2>2. a.offset = Active.nextOffset + i - 1 /\ a.rec = recs[i]
    BY <2>1
  <2> QED BY <2>2, Zenon
<1>4. \A a \in Acks(recs) : a.offset \in Nat /\ Active.nextOffset <= a.offset
  BY AcksFacts
<1> QED BY <1>2, <1>3, <1>4, Zenon DEF NewAcks

\* The first cells of a block, and the first entries of its index.
LEMMA FirstOf ==
  ASSUME NEW S, NEW s \in Seq(S), NEW k \in Nat, k <= Len(s)
  PROVE  /\ SubSeq(s, 1, k) \in Seq(S) /\ Len(SubSeq(s, 1, k)) = k
         /\ \A i \in 1..k : SubSeq(s, 1, k)[i] = s[i]
         /\ k = Len(s) => SubSeq(s, 1, k) = s
<1>1. \A i \in 1..k : s[i] \in S
  OBVIOUS
<1>2. SubSeq(s, 1, k) \in Seq(S) /\ Len(SubSeq(s, 1, k)) = k
  BY <1>1, SubSeqProperties
<1>3. \A i \in 1..k : SubSeq(s, 1, k)[i] = s[i]
  OBVIOUS
<1>4. k = Len(s) => SubSeq(s, 1, k) = s
  OBVIOUS
<1> QED BY <1>2, <1>3, <1>4

\* The index entries of a batch.
LEMMA IndexBlockSeq ==
  ASSUME NEW seg \in SegmentType, NEW recs \in Seq(Records), NEW zip \in BOOLEAN
  PROVE  /\ IndexBlock(seg, recs, zip) \in Seq(IndexEntry)
         /\ Len(IndexBlock(seg, recs, zip)) = Len(recs)
<1> DEFINE x == IndexBlock(seg, recs, zip)
           len == Len(recs)
<1>1. x = [i \in 1..len |-> [offset   |-> seg.nextOffset + i - 1,
                             position |-> seg.size + SizeOfFirst(i - 1, recs, zip)]]
  BY DEF IndexBlock
<1>2. seg.nextOffset \in Nat /\ seg.size \in Nat /\ len \in Nat
  BY DEF SegmentType
<1>3. ASSUME NEW i \in 1..len
      PROVE  [offset   |-> seg.nextOffset + i - 1,
              position |-> seg.size + SizeOfFirst(i - 1, recs, zip)] \in IndexEntry
  <2>1. i - 1 \in 0..Len(recs)
    BY <1>2
  <2>2. SizeOfFirst(i - 1, recs, zip) \in Nat
    BY <2>1, SizeOfFirstType
  <2>3. seg.nextOffset + i - 1 \in Nat /\ seg.size + SizeOfFirst(i - 1, recs, zip) \in Nat
    BY <1>2, <2>2
  <2> QED BY <2>3 DEF IndexEntry
<1>4. x \in [1..len -> IndexEntry]
  BY <1>1, <1>3, Zenon
<1> HIDE DEF x
<1>5. x \in Seq(IndexEntry) /\ Len(x) = len
  BY <1>2, <1>4
<1> QED BY <1>5 DEF x

\* A write extends the files of the active segment and no other.
ExtendsActive(k, j) ==
  LET b == Active.baseOffset
  IN  /\ \A c \in Bases : c # b => logData'[c] = logData[c] /\ indexData'[c] = indexData[c]
      /\ Len(logData'[b]) = Len(logData[b]) + k
      /\ Len(indexData'[b]) = Len(indexData[b]) + j

\* What a write that may have stopped leaves on disk: the whole block is there
\* before its first index entry.
LEMMA WrittenDisk ==
  ASSUME Inv, NEW recs, Batch(recs), NEW ts \in Nat, CanAppend(recs),
         NEW exact \in BOOLEAN, NEW encodings \in SUBSET BOOLEAN, compressed \in encodings,
         DiskHolds(logFiles, logData, indexData, acked, exact, encodings),
         MemoryHolds(segments, logFiles, logData, indexData),
         NEW k \in Nat, NEW j \in 0..Len(recs),
         k <= Len(LogBlock(Active, recs, ts, compressed)),
         j = 0 \/ k = Len(LogBlock(Active, recs, ts, compressed)),
         exact => j = Len(recs),
         WriteBlock(recs, ts, k, j),
         NEW newAcks \in {acked, acked \cup Acks(recs)}
  PROVE  /\ DiskHolds(logFiles, logData', indexData', newAcks, exact, encodings)
         /\ ExtendsActive(k, j)
<1> DEFINE b == Active.baseOffset
           block == LogBlock(Active, recs, ts, compressed)
           entries == IndexBlock(Active, recs, compressed)
           cells == SubSeq(block, 1, k)
           firsts == SubSeq(entries, 1, j)
           log == logData[b]
           index == indexData[b]
           newLog == log \o cells
           newIndex == index \o firsts
<1>1. /\ status = "open" /\ recs \in Seq(Records) /\ compressed \in BOOLEAN
      /\ Len(recs) \in Nat /\ Len(recs) >= 1 /\ acked \subseteq [offset : Nat, rec : Records]
      /\ logData \in [Bases -> Seq(Cell)] /\ indexData \in [Bases -> Seq(IndexEntry)]
  BY DEF CanAppend, Batch, Inv, TypeOK
<1>2. /\ Active \in SegmentType /\ b \in Nat /\ b \in Bases /\ Active.nextOffset \in Nat
      /\ b <= Active.nextOffset
  BY <1>1, OpenFacts
<1>3. /\ b \in logFiles /\ Cached(Active, logData, indexData)
      /\ \A c \in logFiles : c \in Nat /\ c \in Bases /\ c <= b
  BY <1>1, ActiveNewest
<1>4. log \in Seq(Cell) /\ index \in Seq(IndexEntry)
  BY <1>1, <1>2, Zenon
<1>5. block \in Seq(Cell)
  BY <1>1, <1>2, LogBlockType
<1>6. entries \in Seq(IndexEntry) /\ Len(entries) = Len(recs)
  BY <1>1, <1>2, IndexBlockSeq
<1>7. /\ Active.size = Len(log) /\ Active.nextOffset = b + Len(index)
  BY <1>3, Zenon DEF Cached, Mirrors
<1>8. logData' = [logData EXCEPT ![b] = newLog] /\ indexData' = [indexData EXCEPT ![b] = newIndex]
  BY Zenon DEF WriteBlock
<1> HIDE DEF block, entries, log, index
<1>9. /\ cells \in Seq(Cell) /\ Len(cells) = k /\ (k = Len(block) => cells = block)
  <2>1. k <= Len(block)
    BY DEF block
  <2> QED BY <1>5, <2>1, FirstOf
<1>10. /\ firsts \in Seq(IndexEntry) /\ Len(firsts) = j
       /\ \A i \in 1..j : firsts[i] = entries[i]
  <2>1. j \in Nat /\ j <= Len(entries)
    BY <1>1, <1>6
  <2> QED BY <1>6, <2>1, FirstOf
<1> HIDE DEF cells, firsts
<1>11. Joined(newLog, log, cells) /\ Joined(newIndex, index, firsts)
  BY <1>4, <1>9, <1>10, ConcatJoined, Zenon
<1> HIDE DEF newLog, newIndex, b
<1>12. /\ logData'[b] = newLog /\ indexData'[b] = newIndex
       /\ \A c \in Bases : c # b => logData'[c] = logData[c] /\ indexData'[c] = indexData[c]
  BY <1>1, <1>2, <1>8, Zenon
<1>13. Len(newLog) = Len(log) + k /\ Len(newIndex) = Len(index) + j
  BY <1>9, <1>10, <1>11, Zenon DEF Joined
<1>14. ExtendsActive(k, j)
  BY <1>12, <1>13, Zenon DEF ExtendsActive, b, log, index
<1>15. /\ NewAcks(newAcks, acked, Active.nextOffset, recs)
       /\ \A a \in newAcks : a \in acked \/ (a.offset \in Nat /\ Active.nextOffset <= a.offset)
  BY AcksAre, Zenon
<1>16. BeforeWrite(b, Active, log, index, acked, newAcks, recs)
  <2>1. HeadOK
    BY <1>1, HeadOfInv
  <2>2. \A a \in acked : a.offset \in Nat
    BY <1>1
  <2>3. \A a \in acked : a.offset < Active.nextOffset
    BY <2>1, Zenon DEF HeadOK
  <2> QED BY <1>7, <1>15, <2>2, <2>3, Zenon DEF BeforeWrite
<1>17. SegmentFile(b, log, index, acked, exact, encodings)
  BY <1>3, Zenon DEF DiskHolds, log, index
<1>18. SegmentFile(b, newLog, newIndex, newAcks, exact, encodings)
  <2>1. /\ Len(firsts) <= Len(recs)
        /\ exact => Len(firsts) = Len(recs) /\ Len(recs) # 0
    <3>1. exact => j = Len(recs)
      OBVIOUS
    <3> QED BY <1>1, <1>10, <3>1
  <2>2. \A i \in 1..Len(firsts) : firsts[i] = IndexBlock(Active, recs, compressed)[i]
    BY <1>10, Zenon DEF entries
  <2>3. Len(firsts) = 0 \/ cells = LogBlock(Active, recs, ts, compressed)
    BY <1>9, <1>10, Zenon DEF block
  <2>4. WritesPart(Active, recs, ts, compressed, cells, firsts, exact)
    BY <2>1, <2>2, <2>3, Zenon DEF WritesPart
  <2>5. WriteTo(b, log, index, acked, exact, encodings, Active, recs, ts, compressed, cells,
                firsts, newAcks)
    BY <1>1, <1>2, <1>4, <1>16, <1>17, <2>4, Zenon DEF WriteTo
  <2> QED BY <1>11, <2>5, GrownFile, Zenon
<1>19. Chained(logFiles, indexData)
  BY Zenon DEF DiskHolds
<1>20. ASSUME NEW c \in logFiles
       PROVE  SegmentFile(c, logData'[c], indexData'[c], newAcks, exact, encodings)
  <2>1. CASE c = b
    BY <1>12, <1>18, <2>1, Zenon
  <2>2. CASE c # b
    <3>1. c \in Nat /\ c \in Bases /\ c < b
      BY <1>2, <1>3, <2>2
    <3>2. c + Len(indexData[c]) <= b
      BY <1>3, <1>19, <3>1, Zenon DEF Chained
    <3>3. indexData[c] \in Seq(IndexEntry) /\ Len(indexData[c]) \in Nat
      BY <1>1, <3>1
    <3>4. c + Len(indexData[c]) <= Active.nextOffset
      BY <1>2, <3>1, <3>2, <3>3
    <3>5. SegmentFile(c, logData[c], indexData[c], acked, exact, encodings)
      BY Zenon DEF DiskHolds
    <3>6. SegmentFile(c, logData[c], indexData[c], newAcks, exact, encodings)
      BY <1>2, <1>15, <3>1, <3>3, <3>4, <3>5, OldFile, Zenon
    <3> QED BY <1>12, <2>2, <3>1, <3>6, Zenon
  <2> QED BY <2>1, <2>2
<1>21. Chained(logFiles, indexData')
  <2>1. SUFFICES ASSUME NEW c \in logFiles, NEW d \in logFiles, c < d
                 PROVE  /\ Len(indexData'[c]) # 0
                        /\ c + Len(indexData'[c]) \in logFiles
                        /\ c + Len(indexData'[c]) <= d
    BY Zenon DEF Chained
  <2>2. c # b /\ c \in Bases
    BY <1>2, <1>3, <2>1
  <2>3. indexData'[c] = indexData[c]
    BY <1>12, <2>2, Zenon
  <2> QED BY <1>19, <2>1, <2>3, Zenon DEF Chained
<1>22. \A c \in Bases : c \notin logFiles => logData'[c] = << >>
  <2>1. \A c \in Bases : c \notin logFiles => logData[c] = << >>
    BY Zenon DEF DiskHolds
  <2> QED BY <1>3, <1>12, <2>1, Zenon
<1>23. DiskHolds(logFiles, logData', indexData', newAcks, exact, encodings)
  BY <1>20, <1>21, <1>22, Zenon DEF DiskHolds
<1> QED BY <1>14, <1>23, Zenon

\* A new, empty segment after the active one.
LEMMA RolledDisk ==
  ASSUME Inv, NEW recs, Batch(recs), CanAppend(recs),
         NEW exact \in BOOLEAN, NEW encodings, NEW newAcks,
         MemoryHolds(segments, logFiles, logData, indexData),
         DiskHolds(logFiles, logData, indexData, acked, exact, encodings),
         NEW k \in Nat, ExtendsActive(k, Len(recs)),
         DiskHolds(logFiles, logData', indexData', newAcks, exact, encodings)
  PROVE  DiskHolds(logFiles \cup {AfterWrite(recs).nextOffset}, logData', indexData', newAcks,
                   exact, encodings)
<1> DEFINE b == Active.baseOffset
           base == AfterWrite(recs).nextOffset
           files == logFiles \cup {base}
<1>1. /\ status = "open" /\ Len(recs) \in Nat /\ Len(recs) >= 1
      /\ indexData \in [Bases -> Seq(IndexEntry)]
  BY DEF CanAppend, Batch, Inv, TypeOK
<1>2. b \in Nat /\ b \in Bases
  BY <1>1, OpenFacts
<1>3. /\ base \in Bases /\ base > b /\ indexData[base] = << >>
      /\ base = Active.nextOffset + Len(recs)
  BY AfterWriteFacts
<1>4. base \in Nat
  BY <1>3, BasesNat
<1>5. /\ b \in logFiles /\ Cached(Active, logData, indexData)
      /\ \A c \in logFiles : c \in Nat /\ c \in Bases /\ c <= b
  BY <1>1, ActiveNewest
<1>6. Active.nextOffset = b + Len(indexData[b]) /\ Len(indexData[b]) \in Nat
  BY <1>1, <1>2, <1>5 DEF Cached
<1>7. Len(indexData'[b]) = Len(indexData[b]) + Len(recs)
  BY Zenon DEF ExtendsActive
<1> HIDE DEF base, b
<1>8. b + Len(indexData'[b]) = base /\ Len(indexData'[b]) # 0
  BY <1>1, <1>2, <1>3, <1>6, <1>7
<1>9. base # b /\ base \notin logFiles
  BY <1>2, <1>3, <1>4, <1>5
<1>10. logData'[base] = << >> /\ indexData'[base] = << >>
  <2>1. logData[base] = << >>
    BY <1>3, <1>9, Zenon DEF DiskHolds
  <2>2. logData'[base] = logData[base] /\ indexData'[base] = indexData[base]
    BY <1>3, <1>9, Zenon DEF ExtendsActive, b
  <2> QED BY <1>3, <2>1, <2>2, Zenon
<1>11. SegmentFile(base, << >>, << >>, newAcks, exact, encodings)
  <2>1. Len(<< >>) = 0 /\ 1..0 = {}
    OBVIOUS
  <2> QED BY <2>1, Zenon DEF SegmentFile
<1>12. \A c \in files : SegmentFile(c, logData'[c], indexData'[c], newAcks, exact, encodings)
  BY <1>10, <1>11, Zenon DEF DiskHolds
<1>13. \A c \in Bases : c \notin files => logData'[c] = << >>
  BY Zenon DEF DiskHolds
<1>14. Chained(logFiles, indexData')
  BY Zenon DEF DiskHolds
<1>15. ASSUME NEW c \in files, NEW d \in files, c < d
       PROVE  /\ Len(indexData'[c]) # 0
              /\ c + Len(indexData'[c]) \in files
              /\ c + Len(indexData'[c]) <= d
  <2>1. c # base /\ c \in logFiles
    <3>1. c = base => ~(c < d)
      BY <1>2, <1>3, <1>4, <1>5, <1>15
    <3> QED BY <1>15, <3>1, Zenon
  <2>2. CASE d \in logFiles
    BY <1>14, <1>15, <2>1, <2>2, Zenon DEF Chained
  <2>3. CASE d = base /\ c = b
    <3>1. base <= base
      BY <1>4
    <3> QED BY <1>8, <2>3, <3>1, Zenon
  <2>4. CASE d = base /\ c # b
    <3>1. c < b /\ c \in Bases
      BY <1>2, <1>5, <2>1, <2>4
    <3>2. /\ Len(indexData'[c]) # 0 /\ c + Len(indexData'[c]) \in logFiles
          /\ c + Len(indexData'[c]) <= b
      BY <1>5, <1>14, <2>1, <3>1, Zenon DEF Chained
    <3>3. c + Len(indexData'[c]) \in Nat
      BY <1>5, <3>2, Zenon
    <3>4. c + Len(indexData'[c]) <= base
      <4> DEFINE x == c + Len(indexData'[c])
      <4> HIDE DEF x
      <4>1. x \in Nat /\ x <= b
        BY <3>2, <3>3 DEF x
      <4>2. x <= base
        BY <1>2, <1>3, <1>4, <4>1
      <4> QED BY <4>2 DEF x
    <3> QED BY <2>4, <3>2, <3>4, Zenon
  <2> QED BY <2>2, <2>3, <2>4, Zenon
<1>16. Chained(files, indexData')
  BY <1>15, Zenon DEF Chained
<1>17. DiskHolds(files, logData', indexData', newAcks, exact, encodings)
  BY <1>12, <1>13, <1>16, Zenon DEF DiskHolds
<1> QED BY <1>17, Zenon DEF base

\* The directory, and the Log object if there is one.
LogHolds(exact, encodings) ==
  /\ DiskHolds(logFiles, logData, indexData, acked, exact, encodings)
  /\ status = "open" => MemoryHolds(segments, logFiles, logData, indexData)

\* The segments after a write that succeeded, before a rollover.
LEMMA WrittenMemory ==
  ASSUME Inv, NEW recs, Batch(recs), NEW ts \in Nat, CanAppend(recs),
         MemoryHolds(segments, logFiles, logData, indexData),
         ExtendsActive(Len(LogBlock(Active, recs, ts, compressed)), Len(recs))
  PROVE  MemoryHolds([segments EXCEPT ![Len(segments)] = AfterWrite(recs)],
                     logFiles, logData', indexData')
<1> DEFINE n == Len(segments)
           seg == AfterWrite(recs)
           kept == [segments EXCEPT ![n] = seg]
           b == Active.baseOffset
           size == SizeOfFirst(Len(recs), recs, compressed)
<1>1. /\ status = "open" /\ recs \in Seq(Records) /\ compressed \in BOOLEAN
      /\ Len(recs) \in Nat /\ Len(recs) >= 1 /\ segments \in Seq(SegmentType)
  BY DEF CanAppend, Batch, Inv, TypeOK
<1>2. n \in Nat /\ n >= 1 /\ n \in 1..n /\ Tiled(segments) /\ Active \in SegmentType
  BY <1>1, OpenFacts, TiledSegments
<1>3. seg \in SegmentType /\ seg.baseOffset = b /\ seg.nextOffset = Active.nextOffset + Len(recs)
  BY AfterWriteFacts
<1>4. seg.size = Active.size + size /\ seg.indexEntries = Active.indexEntries + Len(recs)
  BY DEF AfterWrite, Written
<1> HIDE DEF seg
<1>5. /\ Len(kept) = n
      /\ \A i \in 1..n : kept[i] = IF i = n THEN seg ELSE segments[i]
  BY <1>1, <1>2, <1>3, ExceptSeq
<1> HIDE DEF kept
<1>6. Len(LogBlock(Active, recs, ts, compressed)) = size
  BY <1>1, <1>2, BlockCells, Zenon
<1>7. /\ Len(logData'[b]) = Len(logData[b]) + size
      /\ Len(indexData'[b]) = Len(indexData[b]) + Len(recs)
      /\ \A c \in Bases : c # b => logData'[c] = logData[c] /\ indexData'[c] = indexData[c]
  BY <1>6, Zenon DEF ExtendsActive
<1>8. b \in logFiles /\ Cached(Active, logData, indexData) /\ \A c \in logFiles : c \in Bases
  BY <1>1, ActiveNewest
<1>9. ASSUME NEW i \in 1..n
      PROVE  kept[i].baseOffset = segments[i].baseOffset /\ Cached(kept[i], logData', indexData')
  <2>1. CASE i = n
    <3>1. kept[i] = seg /\ segments[i].baseOffset = b
      BY <1>5, <2>1, Zenon DEF Active
    <3>2. /\ Active.size = Len(logData[b]) /\ Active.indexEntries = Len(indexData[b])
          /\ Active.nextOffset = b + Len(indexData[b])
      BY <1>8, Zenon DEF Cached, Mirrors
    <3>3. seg.size = Len(logData'[b]) /\ seg.indexEntries = Len(indexData'[b])
      BY <1>4, <1>7, <3>2, Zenon
    <3>4. seg.nextOffset = b + Len(indexData'[b])
      <4>1. b \in Nat /\ Len(indexData[b]) \in Nat
        <5>1. b \in Nat /\ b \in Bases
          BY <1>1, OpenFacts
        <5>2. indexData[b] \in Seq(IndexEntry)
          BY <5>1 DEF Inv, TypeOK
        <5> QED BY <5>1, <5>2
      <4> HIDE DEF b
      <4> QED BY <1>1, <1>3, <1>7, <3>2, <4>1
    <3> QED BY <1>3, <3>1, <3>3, <3>4, Zenon DEF Cached, Mirrors
  <2>2. CASE i # n
    <3>1. kept[i] = segments[i]
      BY <1>5, <2>2, Zenon
    <3>2. i < n
      BY <1>2, <2>2
    <3>3. segments[i].baseOffset < b
      BY <1>2, <3>2, Zenon DEF Tiled, Active
    <3>4. segments[i].baseOffset \in logFiles /\ Cached(segments[i], logData, indexData)
      BY Zenon DEF MemoryHolds
    <3>5. segments[i].baseOffset # b
      <4>1. segments[i].baseOffset \in Nat /\ b \in Nat
        BY <1>1, <1>2, FieldTypes
      <4> QED BY <3>3, <4>1
    <3>6. /\ logData'[segments[i].baseOffset] = logData[segments[i].baseOffset]
          /\ indexData'[segments[i].baseOffset] = indexData[segments[i].baseOffset]
      BY <1>7, <1>8, <3>4, <3>5, Zenon
    <3> QED BY <3>1, <3>4, <3>6, Zenon DEF Cached
  <2> QED BY <2>1, <2>2
<1>10. MemoryHolds(kept, logFiles, logData', indexData')
  BY <1>5, <1>9, Zenon DEF MemoryHolds
<1> QED BY <1>10, Zenon DEF kept, seg

\* Append and AppendBatch.
LEMMA AppendHolds ==
  ASSUME Inv, NEW recs, Batch(recs), NEW ts \in Nat, AppendRecords(recs, ts),
         NEW exact \in BOOLEAN, NEW encodings \in SUBSET BOOLEAN, compressed \in encodings,
         LogHolds(exact, encodings)
  PROVE  LogHolds(exact, encodings)'
<1> DEFINE n == Len(segments)
           seg == AfterWrite(recs)
           base == seg.nextOffset
           kept == [segments EXCEPT ![n] = seg]
           k == Len(LogBlock(Active, recs, ts, compressed))
<1>1. /\ CanAppend(recs) /\ status = "open" /\ WriteBlock(recs, ts, k, Len(recs))
      /\ acked' = acked \cup Acks(recs) /\ status' = "open"
  BY DEF AppendRecords, WriteAll, CanAppend
<1>2. \/ segments' = kept /\ logFiles' = logFiles
      \/ /\ segments' = Append(kept, Opened(base, logData[base], indexData[base]))
         /\ logFiles' = logFiles \cup {base}
  BY DEF AppendRecords
<1>3. /\ recs \in Seq(Records) /\ compressed \in BOOLEAN /\ Len(recs) \in Nat
      /\ segments \in Seq(SegmentType) /\ Active \in SegmentType /\ n \in Nat /\ n \in 1..n
  BY <1>1, OpenFacts DEF Batch, Inv, TypeOK
<1>4. k \in Nat /\ k <= k /\ Len(recs) \in 0..Len(recs)
  <2>1. LogBlock(Active, recs, ts, compressed) \in Seq(Cell)
    BY <1>3, LogBlockType
  <2> QED BY <1>3, <2>1
<1>5. /\ DiskHolds(logFiles, logData, indexData, acked, exact, encodings)
      /\ MemoryHolds(segments, logFiles, logData, indexData)
  BY <1>1, Zenon DEF LogHolds
<1>6. /\ DiskHolds(logFiles, logData', indexData', acked', exact, encodings)
      /\ ExtendsActive(k, Len(recs))
  <2>1. acked' \in {acked, acked \cup Acks(recs)}
    BY <1>1
  <2> QED BY <1>1, <1>4, <1>5, <2>1, WrittenDisk
<1>7. MemoryHolds(kept, logFiles, logData', indexData')
  BY <1>1, <1>5, <1>6, WrittenMemory, Zenon
<1>8. CASE segments' = kept /\ logFiles' = logFiles
  BY <1>6, <1>7, <1>8, Zenon DEF LogHolds
<1>9. CASE /\ segments' = Append(kept, Opened(base, logData[base], indexData[base]))
           /\ logFiles' = logFiles \cup {base}
  <2> DEFINE new == Opened(base, logData[base], indexData[base])
  <2>1. DiskHolds(logFiles', logData', indexData', acked', exact, encodings)
    BY <1>1, <1>4, <1>5, <1>6, <1>9, RolledDisk, Zenon
  <2>2. /\ base \in Bases /\ base > Active.baseOffset /\ indexData[base] = << >>
        /\ seg \in SegmentType
    BY <1>1, AfterWriteFacts
  <2>3. base \notin logFiles /\ base # Active.baseOffset /\ base \in Nat
    <3>1. \A c \in logFiles : c \in Nat /\ c <= Active.baseOffset
      BY <1>1, <1>5, ActiveNewest
    <3>2. base \in Nat /\ Active.baseOffset \in Nat
      BY <1>3, <2>2, BasesNat, FieldTypes
    <3> QED BY <2>2, <3>1, <3>2
  <2>4. logData[base] = << >>
    BY <1>5, <2>2, <2>3, Zenon DEF DiskHolds
  <2>5. logData'[base] = << >> /\ indexData'[base] = << >>
    BY <1>6, <2>2, <2>3, <2>4, Zenon DEF ExtendsActive
  <2>6. /\ new.baseOffset = base /\ new.size = 0 /\ new.indexEntries = 0 /\ new.nextOffset = base
    <3>1. new = [baseOffset |-> base, nextOffset |-> base, size |-> 0, indexEntries |-> 0,
                 open |-> TRUE]
      BY <2>2, <2>4 DEF Opened
    <3> QED BY <3>1
  <2> HIDE DEF new, base, seg
  <2>7. Cached(new, logData', indexData')
    <3>1. Len(<< >>) = 0 /\ base = base + 0
      BY <2>3
    <3> QED BY <2>5, <2>6, <3>1, Zenon DEF Cached, Mirrors
  <2>8. kept \in Seq(SegmentType) /\ Len(kept) = n
    BY <1>3, <2>2, ExceptSeq
  <2>9. new \in SegmentType
    <3>1. new = [baseOffset |-> base, nextOffset |-> base, size |-> 0, indexEntries |-> 0,
                 open |-> TRUE]
      BY <2>2, <2>4 DEF new, Opened
    <3> QED BY <2>3, <3>1 DEF SegmentType
  <2>10. segments' = Append(kept, new)
    BY <1>9 DEF new
  <2> HIDE DEF kept
  <2>11. /\ Len(segments') = n + 1
         /\ \A i \in 1..n : segments'[i] = kept[i]
         /\ segments'[n + 1] = new
    BY <1>3, <2>8, <2>9, <2>10, AppendProperties
  <2>12. MemoryHolds(segments', logFiles', logData', indexData')
    <3>1. /\ \A c \in logFiles : \E i \in 1..n : kept[i].baseOffset = c
          /\ \A i \in 1..n : kept[i].baseOffset \in logFiles /\ Cached(kept[i], logData', indexData')
      BY <1>7, <2>8, Zenon DEF MemoryHolds
    <3>2. \A i \in 1..(n + 1) : i \in 1..n \/ i = n + 1
      BY <1>3
    <3>3. n + 1 \in 1..(n + 1) /\ \A i \in 1..n : i \in 1..(n + 1)
      BY <1>3
    <3>4. \A i \in 1..(n + 1) : segments'[i].baseOffset \in logFiles' /\ Cached(segments'[i], logData', indexData')
      BY <1>9, <2>6, <2>7, <2>11, <3>1, <3>2, Zenon
    <3>5. ASSUME NEW c \in logFiles' PROVE \E i \in 1..(n + 1) : segments'[i].baseOffset = c
      <4>1. CASE c = base
        BY <2>6, <2>11, <3>3, <4>1, Zenon
      <4>2. CASE c \in logFiles
        <5>1. PICK i \in 1..n : kept[i].baseOffset = c
          BY <3>1, <4>2, Zenon
        <5> QED BY <2>11, <3>3, <5>1, Zenon
      <4> QED BY <1>9, <4>1, <4>2, Zenon
    <3> QED BY <2>11, <3>4, <3>5, Zenon DEF MemoryHolds
  <2> QED BY <2>1, <2>12, Zenon DEF LogHolds
<1> QED BY <1>2, <1>8, <1>9

\* A process that dies in a write, or in the rollover after it.
LEMMA CrashedWriteHolds ==
  ASSUME Inv, NEW recs, Batch(recs), NEW ts \in Nat, CanAppend(recs),
         StoppedWrite(recs, ts) \/ WriteAll(recs, ts), LogHolds(FALSE, BOOLEAN)
  PROVE  /\ DiskHolds(logFiles, logData', indexData', acked, FALSE, BOOLEAN)
         /\ WriteAll(recs, ts) =>
              ExtendsActive(Len(LogBlock(Active, recs, ts, compressed)), Len(recs))
<1> DEFINE all == Len(LogBlock(Active, recs, ts, compressed))
<1>1. /\ recs \in Seq(Records) /\ compressed \in BOOLEAN /\ Len(recs) \in Nat
      /\ status = "open" /\ Active \in SegmentType
  BY OpenFacts DEF CanAppend, Batch, Inv, TypeOK
<1>2. all \in Nat
  <2>1. LogBlock(Active, recs, ts, compressed) \in Seq(Cell)
    BY <1>1, LogBlockType
  <2> QED BY <1>1, <2>1
<1>3. /\ DiskHolds(logFiles, logData, indexData, acked, FALSE, BOOLEAN)
      /\ MemoryHolds(segments, logFiles, logData, indexData)
  BY <1>1, Zenon DEF LogHolds
<1>4. acked \in {acked, acked \cup Acks(recs)} /\ FALSE \in BOOLEAN /\ BOOLEAN \in SUBSET BOOLEAN
  BY Zenon
<1> HIDE DEF all
<1>5. ASSUME NEW k \in Nat, NEW j \in 0..Len(recs), k <= all, j = 0 \/ k = all,
             WriteBlock(recs, ts, k, j)
      PROVE  /\ DiskHolds(logFiles, logData', indexData', acked, FALSE, BOOLEAN)
             /\ ExtendsActive(k, j)
  <2>1. k <= Len(LogBlock(Active, recs, ts, compressed))
        /\ (j = 0 \/ k = Len(LogBlock(Active, recs, ts, compressed)))
    BY <1>5 DEF all
  <2> QED BY <1>1, <1>3, <1>4, <1>5, <2>1, WrittenDisk
<1>6. CASE WriteAll(recs, ts)
  <2>1. all <= all /\ Len(recs) \in 0..Len(recs) /\ WriteBlock(recs, ts, all, Len(recs))
    BY <1>1, <1>2, <1>6 DEF WriteAll, all
  <2> QED BY <1>2, <1>5, <2>1, Zenon DEF all
<1>7. CASE ~WriteAll(recs, ts)
  <2>1. StoppedWrite(recs, ts)
    BY <1>7
  <2>2. CASE \E k \in 0..(all - 1) : WriteBlock(recs, ts, k, 0)
    <3>1. PICK k \in 0..(all - 1) : WriteBlock(recs, ts, k, 0)
      BY <2>2
    <3>2. k \in Nat /\ k <= all /\ 0 \in 0..Len(recs)
      BY <1>1, <1>2
    <3> QED BY <1>5, <1>7, <3>1, <3>2, Zenon
  <2>3. CASE \E j \in 0..(Len(recs) - 1) : WriteBlock(recs, ts, all, j)
    <3>1. PICK j \in 0..(Len(recs) - 1) : WriteBlock(recs, ts, all, j)
      BY <2>3
    <3>2. j \in 0..Len(recs) /\ all <= all
      BY <1>1, <1>2
    <3> QED BY <1>2, <1>5, <1>7, <3>1, <3>2, Zenon
  <2> QED BY <2>1, <2>2, <2>3 DEF StoppedWrite, all
<1> QED BY <1>6, <1>7

\* A crash in Append.
LEMMA AppendCrashHolds ==
  ASSUME Inv, NEW recs, Batch(recs), NEW ts \in Nat, AppendCrash(recs, ts), LogHolds(FALSE, BOOLEAN)
  PROVE  LogHolds(FALSE, BOOLEAN)'
<1>1. /\ CanAppend(recs) /\ (StoppedWrite(recs, ts) \/ WriteAll(recs, ts))
      /\ status' = "closed" /\ logFiles' = logFiles /\ acked' = acked
  BY DEF AppendCrash, history
<1>2. DiskHolds(logFiles, logData', indexData', acked, FALSE, BOOLEAN)
  BY <1>1, CrashedWriteHolds, Zenon
<1>3. DiskHolds(logFiles', logData', indexData', acked', FALSE, BOOLEAN) /\ status' # "open"
  BY <1>1, <1>2
<1> QED BY <1>3, Zenon DEF LogHolds

\* A crash in the rollover.
LEMMA RollCrashHolds ==
  ASSUME Inv, NEW recs, Batch(recs), NEW ts \in Nat, RollCrash(recs, ts), LogHolds(FALSE, BOOLEAN)
  PROVE  LogHolds(FALSE, BOOLEAN)'
<1> DEFINE base == AfterWrite(recs).nextOffset
           all == Len(LogBlock(Active, recs, ts, compressed))
<1>1. /\ CanAppend(recs) /\ WriteAll(recs, ts)
      /\ logFiles' \in {logFiles, logFiles \cup {base}}
      /\ status' = "closed" /\ acked' = acked
  BY DEF RollCrash, StoppedRoll, history
<1>2. /\ DiskHolds(logFiles, logData', indexData', acked, FALSE, BOOLEAN)
      /\ ExtendsActive(all, Len(recs))
  BY <1>1, CrashedWriteHolds, Zenon
<1>3. /\ DiskHolds(logFiles, logData, indexData, acked, FALSE, BOOLEAN)
      /\ MemoryHolds(segments, logFiles, logData, indexData)
  BY <1>1, Zenon DEF LogHolds, CanAppend
<1>4. all \in Nat
  <2>1. /\ recs \in Seq(Records) /\ compressed \in BOOLEAN /\ Active \in SegmentType
    BY <1>1, OpenFacts DEF CanAppend, Batch, Inv, TypeOK
  <2>2. LogBlock(Active, recs, ts, compressed) \in Seq(Cell)
    BY <2>1, LogBlockType
  <2> QED BY <2>2
<1>5. DiskHolds(logFiles \cup {base}, logData', indexData', acked, FALSE, BOOLEAN)
  <2>1. FALSE \in BOOLEAN
    OBVIOUS
  <2> HIDE DEF all
  <2> QED BY <1>1, <1>2, <1>3, <1>4, <2>1, RolledDisk, Zenon
<1>6. logFiles' = logFiles \/ logFiles' = logFiles \cup {base}
  BY <1>1, Zenon
<1> HIDE DEF base
<1>7. DiskHolds(logFiles', logData', indexData', acked', FALSE, BOOLEAN) /\ status' # "open"
  BY <1>1, <1>2, <1>5, <1>6
<1> QED BY <1>7, Zenon DEF LogHolds

\* Retention removes the files of the oldest segments.
LEMMA UnlinkedDisk ==
  ASSUME Inv, status = "open", NEW exact, NEW encodings, LogHolds(exact, encodings),
         NEW j \in Nat, NEW j2 \in Nat, j <= j2, j2 <= Len(segments) - 1, Unlink(j, j2)
  PROVE  /\ DiskHolds(logFiles', logData', indexData', acked, exact, encodings)
         /\ \A i \in (j2 + 1)..Len(segments) :
              LET b == segments[i].baseOffset
              IN  b \in logFiles' /\ logData'[b] = logData[b] /\ indexData'[b] = indexData[b]
         /\ \A b \in logFiles' : \E i \in (j2 + 1)..Len(segments) : segments[i].baseOffset = b
<1> DEFINE n == Len(segments)
           logsGone == {segments[i].baseOffset : i \in 1..j2}
           indexGone == {segments[i].baseOffset : i \in 1..j}
<1>1. /\ logFiles' = logFiles \ logsGone
      /\ logData' = [b \in Bases |-> IF b \in logsGone THEN << >> ELSE logData[b]]
      /\ indexData' = [b \in Bases |-> IF b \in indexGone THEN << >> ELSE indexData[b]]
  BY DEF Unlink
<1>2. /\ DiskHolds(logFiles, logData, indexData, acked, exact, encodings)
      /\ MemoryHolds(segments, logFiles, logData, indexData)
  BY Zenon DEF LogHolds
<1>3. n \in Nat /\ Tiled(segments) /\ \A b \in logFiles : b \in Bases /\ b \in Nat
  BY <1>2, OpenFacts, TiledSegments, ActiveNewest
<1>4. indexGone \subseteq logsGone
  <2>1. \A i \in 1..j : i \in 1..j2
    OBVIOUS
  <2> QED BY <2>1, Zenon
<1>5. ASSUME NEW b \in logFiles'
      PROVE  /\ b \in logFiles /\ b \in Bases /\ logData'[b] = logData[b] /\ indexData'[b] = indexData[b]
             /\ \E i \in (j2 + 1)..n : segments[i].baseOffset = b
  <2>1. b \in logFiles /\ b \notin logsGone /\ b \notin indexGone
    BY <1>1, <1>4, Zenon
  <2>2. PICK i \in 1..n : segments[i].baseOffset = b
    BY <1>2, <2>1, Zenon DEF MemoryHolds
  <2>3. i \notin 1..j2
    BY <2>1, <2>2, Zenon
  <2>4. i \in (j2 + 1)..n
    BY <1>3, <2>3
  <2> HIDE DEF logsGone, indexGone
  <2> QED BY <1>1, <1>3, <2>1, <2>2, <2>4, Zenon
<1>6. ASSUME NEW i \in (j2 + 1)..n
      PROVE  segments[i].baseOffset \in logFiles'
  <2>1. i \in 1..n /\ \A m \in 1..j2 : m \in 1..n /\ m < i
    BY <1>3
  <2>2. \A m \in 1..j2 : segments[m].baseOffset < segments[i].baseOffset
    BY <1>3, <2>1, Zenon DEF Tiled
  <2>3. segments[i].baseOffset \in logFiles
    BY <1>2, <2>1, Zenon DEF MemoryHolds
  <2>4. segments[i].baseOffset \in Nat
    BY <1>3, <2>3
  <2>5. ~(segments[i].baseOffset < segments[i].baseOffset)
    BY <2>4
  <2>6. segments[i].baseOffset \notin logsGone
    BY <2>2, <2>5, Zenon
  <2> QED BY <1>1, <2>3, <2>6, Zenon
<1>7. ASSUME NEW b \in logFiles', NEW c \in logFiles, b < c PROVE c \in logFiles'
  <2>1. PICK i \in (j2 + 1)..n : segments[i].baseOffset = b
    BY <1>5
  <2>2. PICK m \in 1..n : segments[m].baseOffset = c
    BY <1>2, Zenon DEF MemoryHolds
  <2>3. i \in 1..n
    BY <1>3
  <2>4. m < i => c < b
    BY <1>3, <2>1, <2>2, <2>3, Zenon DEF Tiled
  <2>5. b \in Nat /\ c \in Nat
    BY <1>3, <1>5
  <2>6. ~(m < i)
    BY <1>7, <2>4, <2>5
  <2>7. m \in (j2 + 1)..n
    BY <1>3, <2>6
  <2> QED BY <1>6, <2>2, <2>7, Zenon
<1>8. Chained(logFiles', indexData')
  <2>1. SUFFICES ASSUME NEW b \in logFiles', NEW c \in logFiles', b < c
                 PROVE  /\ Len(indexData'[b]) # 0
                        /\ b + Len(indexData'[b]) \in logFiles'
                        /\ b + Len(indexData'[b]) <= c
    BY Zenon DEF Chained
  <2> DEFINE l == Len(indexData[b])
  <2>2. b \in logFiles /\ c \in logFiles /\ Len(indexData'[b]) = l /\ b \in Nat
    BY <1>3, <1>5, Zenon
  <2>3. l # 0 /\ b + l \in logFiles /\ b + l <= c
    BY <1>2, <2>1, <2>2, Zenon DEF DiskHolds, Chained
  <2>4. l \in Nat
    <3>1. indexData[b] \in Seq(IndexEntry)
      BY <1>3, <2>2 DEF Inv, TypeOK
    <3> QED BY <3>1
  <2> HIDE DEF l
  <2>5. b < b + l
    BY <2>2, <2>3, <2>4
  <2>6. b + l \in logFiles'
    BY <1>7, <2>3, <2>5, Zenon
  <2> QED BY <2>2, <2>3, <2>6, Zenon
<1>9. \A b \in Bases : b \notin logFiles' => logData'[b] = << >>
  <2>1. \A b \in Bases : b \notin logFiles => logData[b] = << >>
    BY <1>2, Zenon DEF DiskHolds
  <2> HIDE DEF logsGone, indexGone
  <2>2. \A b \in Bases : logData'[b] = IF b \in logsGone THEN << >> ELSE logData[b]
    BY <1>1, Zenon
  <2> QED BY <1>1, <2>1, <2>2, Zenon
<1>10. \A b \in logFiles' : SegmentFile(b, logData'[b], indexData'[b], acked, exact, encodings)
  BY <1>2, <1>5, Zenon DEF DiskHolds
<1>11. DiskHolds(logFiles', logData', indexData', acked, exact, encodings)
  BY <1>8, <1>9, <1>10, Zenon DEF DiskHolds
<1> QED BY <1>5, <1>6, <1>11, Zenon

\* EnforceRetention.
LEMMA RetentionHolds ==
  ASSUME Inv, NEW exact, NEW encodings, LogHolds(exact, encodings),
         NEW k, NEW bytes, NEW cutoff, NEW junk, EnforceRetention(k, bytes, cutoff, junk)
  PROVE  LogHolds(exact, encodings)'
<1> DEFINE n == Len(segments)
<1>1. /\ status = "open" /\ status' = "open" /\ k \in 0..(n - 1) /\ Unlink(k, k)
      /\ segments' = SubSeq(segments, k + 1, n) /\ acked' = acked
  BY DEF EnforceRetention, Removes
<1>2. n \in Nat /\ k \in Nat /\ k <= k /\ k <= n - 1 /\ Tiled(segments)
  BY <1>1, OpenFacts, TiledSegments
<1>3. /\ DiskHolds(logFiles', logData', indexData', acked, exact, encodings)
      /\ \A i \in (k + 1)..n :
              LET b == segments[i].baseOffset
              IN  b \in logFiles' /\ logData'[b] = logData[b] /\ indexData'[b] = indexData[b]
      /\ \A b \in logFiles' : \E i \in (k + 1)..n : segments[i].baseOffset = b
  BY <1>1, <1>2, UnlinkedDisk
<1>4. Len(segments') = n - k /\ \A i \in 1..(n - k) : segments'[i] = segments[k + i]
  BY <1>1, <1>2, TiledSuffix
<1>5. MemoryHolds(segments, logFiles, logData, indexData)
  BY <1>1, Zenon DEF LogHolds
<1>6. ASSUME NEW i \in 1..(n - k)
      PROVE  segments'[i].baseOffset \in logFiles' /\ Cached(segments'[i], logData', indexData')
  <2>1. k + i \in (k + 1)..n /\ k + i \in 1..n
    BY <1>2
  <2>2. Cached(segments[k + i], logData, indexData)
    BY <1>5, <2>1, Zenon DEF MemoryHolds
  <2> QED BY <1>3, <1>4, <2>1, <2>2, Zenon DEF Cached
<1>7. ASSUME NEW b \in logFiles' PROVE \E i \in 1..(n - k) : segments'[i].baseOffset = b
  <2>1. PICK i \in (k + 1)..n : segments[i].baseOffset = b
    BY <1>3, Zenon
  <2>2. i - k \in 1..(n - k) /\ k + (i - k) = i
    BY <1>2
  <2>3. segments'[i - k] = segments[i]
    BY <1>4, <2>2, Zenon
  <2> QED BY <2>1, <2>2, <2>3, Zenon
<1>8. MemoryHolds(segments', logFiles', logData', indexData')
  BY <1>4, <1>6, <1>7, Zenon DEF MemoryHolds
<1> QED BY <1>1, <1>3, <1>8, Zenon DEF LogHolds

\* A crash in EnforceRetention.
LEMMA RetentionCrashHolds ==
  ASSUME Inv, LogHolds(FALSE, BOOLEAN), NEW k, NEW j \in Nat, NEW j2, NEW bytes, NEW cutoff, NEW junk,
         RetentionCrash(k, j, j2, bytes, cutoff, junk)
  PROVE  LogHolds(FALSE, BOOLEAN)'
<1> DEFINE n == Len(segments)
<1>1. /\ status = "open" /\ status' = "closed" /\ k \in 0..(n - 1) /\ j < k
      /\ j2 \in {j, j + 1} /\ Unlink(j, j2) /\ acked' = acked
  BY DEF RetentionCrash, StoppedRetention, Removes
<1>2. n \in Nat
  BY <1>1, OpenFacts
<1>3. j2 \in Nat /\ j <= j2 /\ j2 <= n - 1
  BY <1>1, <1>2
<1>4. DiskHolds(logFiles', logData', indexData', acked, FALSE, BOOLEAN)
  BY <1>1, <1>3, UnlinkedDisk, Zenon
<1>5. DiskHolds(logFiles', logData', indexData', acked', FALSE, BOOLEAN) /\ status' # "open"
  BY <1>1, <1>4
<1> QED BY <1>5, Zenon DEF LogHolds

\* NewSegment on a file that holds its records.
LEMMA OpenedCaches ==
  ASSUME NEW b \in Nat, NEW log \in Seq(Cell), NEW index \in Seq(IndexEntry), NEW acks, NEW exact,
         NEW encodings, SegmentFile(b, log, index, acks, exact, encodings)
  PROVE  LET seg == Opened(b, log, index)
         IN  /\ seg \in SegmentType /\ seg.baseOffset = b /\ seg.open
             /\ Mirrors(seg, log, index) /\ seg.nextOffset = b + Len(index)
<1> DEFINE seg == Opened(b, log, index)
<1>1. seg \in SegmentType
  BY OpenedType
<1>2. /\ seg.baseOffset = b /\ seg.open /\ seg.size = Len(log) /\ seg.indexEntries = Len(index)
      /\ seg.nextOffset = IF index = << >> THEN b ELSE index[Len(index)].offset + 1
  BY DEF Opened
<1> HIDE DEF seg
<1>3. seg.nextOffset = b + Len(index)
  <2>1. CASE index = << >>
    <3>1. Len(index) = 0 /\ seg.nextOffset = b
      BY <1>2, <2>1
    <3> QED BY <3>1
  <2>2. CASE index # << >>
    <3>1. Len(index) \in 1..Len(index) /\ Len(index) \in Nat
      BY <2>2
    <3>2. index[Len(index)].offset = b + Len(index) - 1
      BY <3>1, Zenon DEF SegmentFile, Slot
    <3> QED BY <1>2, <2>2, <3>1, <3>2
  <2> QED BY <2>1, <2>2
<1> QED BY <1>1, <1>2, <1>3, Zenon DEF Mirrors, seg

\* The list NewLog builds: the next offset taken from the following file is the
\* one the segment's own index gives.
LEMMA LoadedMemory ==
  ASSUME Inv, NEW exact, NEW encodings, DiskHolds(logFiles, logData, indexData, acked, exact, encodings),
         NEW c \in Nat, c >= 1, NEW bases \in [1..c -> logFiles], IsSorted(bases)
  PROVE  /\ MemoryHolds(LoadSegments(bases), logFiles, logData, indexData)
         /\ Len(LoadSegments(bases)) = c
         /\ \A i \in 1..c : /\ LoadSegments(bases)[i].open
                            /\ LoadSegments(bases)[i].baseOffset = bases[i]
<1> DEFINE opened(i) == Opened(bases[i], logData[bases[i]], indexData[bases[i]])
           s == LoadSegments(bases)
<1>1. Len(bases) = c /\ DOMAIN bases = 1..c
  OBVIOUS
<1>2. ASSUME NEW i \in 1..c
      PROVE  /\ bases[i] \in logFiles /\ bases[i] \in Bases /\ bases[i] \in Nat
             /\ logData[bases[i]] \in Seq(Cell) /\ indexData[bases[i]] \in Seq(IndexEntry)
  BY BasesNat DEF Inv, TypeOK
<1>3. /\ \A i, j \in 1..c : i < j => bases[i] < bases[j]
      /\ \A b \in logFiles : \E i \in 1..c : bases[i] = b
  BY <1>1 DEF IsSorted
<1>4. ASSUME NEW i \in 1..c
      PROVE  /\ opened(i) \in SegmentType /\ opened(i).baseOffset = bases[i] /\ opened(i).open
             /\ Mirrors(opened(i), logData[bases[i]], indexData[bases[i]])
             /\ opened(i).nextOffset = bases[i] + Len(indexData[bases[i]])
  <2>1. SegmentFile(bases[i], logData[bases[i]], indexData[bases[i]], acked, exact, encodings)
    BY <1>2, Zenon DEF DiskHolds
  <2> QED BY <1>2, <2>1, OpenedCaches
<1>5. ASSUME NEW i \in 1..c, i < c
      PROVE  i + 1 \in 1..c /\ bases[i+1] = bases[i] + Len(indexData[bases[i]])
  <2> DEFINE x == bases[i] + Len(indexData[bases[i]])
  <2>1. i + 1 \in 1..c /\ i < i + 1
    BY <1>5
  <2>2. bases[i] < bases[i+1]
    BY <1>3, <2>1, Zenon
  <2>3. bases[i] \in logFiles /\ bases[i+1] \in logFiles
    BY <1>2, <2>1, Zenon
  <2>4. Len(indexData[bases[i]]) # 0 /\ x \in logFiles /\ x <= bases[i+1]
    BY <2>2, <2>3, Zenon DEF DiskHolds, Chained
  <2>5. PICK m \in 1..c : bases[m] = x
    BY <1>3, <2>4, Zenon
  <2>6. bases[i] < x /\ x \in Nat
    <3>1. bases[i] \in Nat /\ Len(indexData[bases[i]]) \in Nat
      BY <1>2
    <3> QED BY <2>4, <3>1
  <2> HIDE DEF x
  <2>7. m < i => x < bases[i]
    BY <1>3, <2>5, Zenon
  <2>8. i + 1 < m => bases[i+1] < x
    BY <1>3, <2>1, <2>5, Zenon
  <2>9. bases[i] \in Nat /\ bases[i+1] \in Nat
    BY <1>2, <2>1
  <2>10. ~(m < i) /\ ~(i + 1 < m) /\ m # i
    BY <2>4, <2>5, <2>6, <2>7, <2>8, <2>9
  <2>11. m = i + 1
    BY <2>1, <2>10
  <2> QED BY <2>1, <2>5, <2>11, Zenon DEF x
<1>6. s = [i \in 1..c |-> IF i < c THEN [opened(i) EXCEPT !.nextOffset = bases[i+1]]
                                  ELSE opened(i)]
  BY <1>1 DEF LoadSegments
<1>7. Len(s) = c
  BY <1>6
<1> HIDE DEF opened, s
<1>8. ASSUME NEW i \in 1..c
      PROVE  s[i].open /\ s[i].baseOffset = bases[i] /\ Cached(s[i], logData, indexData)
  <2>1. /\ s[i].baseOffset = bases[i] /\ s[i].open = opened(i).open
        /\ s[i].size = opened(i).size /\ s[i].indexEntries = opened(i).indexEntries
        /\ s[i].nextOffset = bases[i] + Len(indexData[bases[i]])
    <3>1. opened(i) \in SegmentType /\ opened(i).baseOffset = bases[i]
          /\ opened(i).nextOffset = bases[i] + Len(indexData[bases[i]])
      BY <1>4
    <3>2. CASE i < c
      <4>1. s[i] = [opened(i) EXCEPT !.nextOffset = bases[i+1]]
        BY <1>6, <3>2
      <4>2. bases[i+1] = bases[i] + Len(indexData[bases[i]])
        BY <1>5, <3>2
      <4>3. /\ s[i].baseOffset = opened(i).baseOffset /\ s[i].open = opened(i).open
            /\ s[i].size = opened(i).size /\ s[i].indexEntries = opened(i).indexEntries
            /\ s[i].nextOffset = bases[i+1]
        BY <3>1, <4>1 DEF SegmentType
      <4> QED BY <3>1, <4>2, <4>3, Zenon
    <3>3. CASE ~(i < c)
      <4>1. s[i] = opened(i)
        BY <1>6, <3>3
      <4> QED BY <3>1, <4>1, Zenon
    <3> QED BY <3>2, <3>3
  <2> QED BY <1>4, <2>1, Zenon DEF Cached, Mirrors
<1>9. MemoryHolds(s, logFiles, logData, indexData)
  <2>1. ASSUME NEW b \in logFiles PROVE \E i \in 1..Len(s) : s[i].baseOffset = b
    <3>1. PICK i \in 1..c : bases[i] = b
      BY <1>3, Zenon
    <3>2. i \in 1..Len(s) /\ s[i].baseOffset = b
      BY <1>7, <1>8, <3>1, Zenon
    <3> QED BY <3>2, Zenon
  <2>2. ASSUME NEW i \in 1..Len(s)
        PROVE  s[i].baseOffset \in logFiles /\ Cached(s[i], logData, indexData)
    <3>1. i \in 1..c
      BY <1>7, Zenon
    <3> QED BY <1>2, <1>8, <3>1, Zenon
  <2> QED BY <2>1, <2>2, Zenon DEF MemoryHolds
<1> QED BY <1>7, <1>8, <1>9, Zenon DEF s

\* A new, empty segment 0 in an empty directory.
LEMMA FirstSegment ==
  ASSUME TypeOK, NEW exact, NEW encodings,
         DiskHolds({}, logData, indexData, acked, exact, encodings), indexData[0] = << >>
  PROVE  /\ DiskHolds({0}, logData, indexData, acked, exact, encodings)
         /\ MemoryHolds(<<Opened(0, << >>, << >>)>>, {0}, logData, indexData)
<1> DEFINE seg == Opened(0, << >>, << >>)
<1>1. 0 \in Bases /\ 0 \notin {}
  BY BasesNat
<1>2. logData[0] = << >>
  BY <1>1, Zenon DEF DiskHolds
<1>3. SegmentFile(0, << >>, << >>, acked, exact, encodings)
  <2>1. Len(<< >>) = 0 /\ 1..0 = {}
    OBVIOUS
  <2> QED BY <2>1, Zenon DEF SegmentFile
<1>4. Chained({0}, indexData)
  BY DEF Chained
<1>5. DiskHolds({0}, logData, indexData, acked, exact, encodings)
  BY <1>2, <1>3, <1>4, Zenon DEF DiskHolds
<1>6. seg.baseOffset = 0 /\ seg.size = 0 /\ seg.indexEntries = 0 /\ seg.nextOffset = 0
  BY DEF Opened
<1> HIDE DEF seg
<1>7. Cached(seg, logData, indexData)
  <2>1. Len(<< >>) = 0 /\ 0 = 0 + 0
    OBVIOUS
  <2> QED BY <1>2, <1>6, <2>1, Zenon DEF Cached, Mirrors
<1>8. Len(<<seg>>) = 1 /\ <<seg>>[1] = seg /\ 1 \in 1..1 /\ \A i \in 1..1 : i = 1
  OBVIOUS
<1>9. MemoryHolds(<<seg>>, {0}, logData, indexData)
  BY <1>6, <1>7, <1>8, Zenon DEF MemoryHolds
<1> QED BY <1>5, <1>9 DEF seg

\* NewLog.
LEMMA NewLogHolds ==
  ASSUME Inv, NEW exact, NEW encodings, LogHolds(exact, encodings), NewLog
  PROVE  LogHolds(exact, encodings)'
<1>1. /\ status = "closed" /\ Loadable /\ status' = "open" /\ acked' = acked
      /\ logData' = logData /\ indexData' = indexData
  BY DEF NewLog, history, disk
<1>2. DiskHolds(logFiles, logData, indexData, acked, exact, encodings) /\ TypeOK
  BY DEF LogHolds, Inv
<1>3. CASE logFiles # {}
  <2>1. logFiles' = logFiles
    BY <1>3 DEF NewLog, disk
  <2>2. PICK bases \in [1..Cardinality(logFiles) -> logFiles] :
          IsSorted(bases) /\ segments' = LoadSegments(bases)
    BY <1>3, Zenon DEF NewLog
  <2> DEFINE c == Cardinality(logFiles)
  <2>3. c \in Nat
    <3>1. IsFiniteSet(0..MaxOffset)
      BY FS_Interval, CommitLogAssumption
    <3>2. logFiles \in SUBSET (0..MaxOffset)
      BY <1>2 DEF TypeOK, Bases
    <3>3. IsFiniteSet(logFiles)
      BY <3>1, <3>2, FS_Subset
    <3> QED BY <3>3, FS_CardinalityType
  <2> HIDE DEF c
  <2>4. bases \in [1..c -> logFiles]
    BY DEF c
  <2>5. c >= 1
    <3>1. PICK b \in logFiles : TRUE
      BY <1>3
    <3>2. \E i \in DOMAIN bases : bases[i] = b
      BY <2>2 DEF IsSorted
    <3>3. \E i \in 1..c : TRUE
      BY <2>4, <3>2
    <3> QED BY <2>3, <3>3
  <2>6. MemoryHolds(LoadSegments(bases), logFiles, logData, indexData)
    BY <1>2, <2>2, <2>3, <2>4, <2>5, LoadedMemory
  <2>7. MemoryHolds(segments', logFiles', logData', indexData')
        /\ DiskHolds(logFiles', logData', indexData', acked', exact, encodings)
    BY <1>1, <1>2, <2>1, <2>2, <2>6, Zenon
  <2> QED BY <2>7, Zenon DEF LogHolds
<1>4. CASE logFiles = {}
  <2>1. segments' = <<Opened(0, << >>, << >>)>> /\ logFiles' = {0}
    BY <1>4 DEF NewLog
  <2>2. indexData[0] = << >>
    BY <1>1, <1>4 DEF Loadable
  <2>3. /\ DiskHolds({0}, logData, indexData, acked, exact, encodings)
        /\ MemoryHolds(<<Opened(0, << >>, << >>)>>, {0}, logData, indexData)
    BY <1>2, <1>4, <2>2, FirstSegment
  <2>4. MemoryHolds(segments', logFiles', logData', indexData')
        /\ DiskHolds(logFiles', logData', indexData', acked', exact, encodings)
    BY <1>1, <2>1, <2>3, Zenon
  <2> QED BY <2>4, Zenon DEF LogHolds
<1> QED BY <1>3, <1>4

\* NewLog that dies between 0.log and 0.index.
LEMMA NewLogCrashHolds ==
  ASSUME Inv, NEW exact, NEW encodings, LogHolds(exact, encodings), NewLogCrash
  PROVE  LogHolds(exact, encodings)'
<1>1. /\ status = "closed" /\ status' = "closed" /\ acked' = acked /\ logFiles = {} /\ logFiles' = {0}
      /\ logData' = logData /\ indexData' = indexData
  BY DEF NewLogCrash, history, memory
<1>2. DiskHolds({}, logData, indexData, acked, exact, encodings) /\ TypeOK
  BY <1>1 DEF LogHolds, Inv
<1>3. indexData[0] = << >>
  BY <1>1, BasesNat DEF Inv, RestartContinues, IndexesInRange
<1>4. DiskHolds({0}, logData, indexData, acked, exact, encodings)
  BY <1>2, <1>3, FirstSegment, Zenon
<1>5. DiskHolds(logFiles', logData', indexData', acked', exact, encodings) /\ status' # "open"
  BY <1>1, <1>4
<1> QED BY <1>5, Zenon DEF LogHolds

\* Steps that leave the directory and the acknowledgements alone.
LEMMA SameDiskHolds ==
  ASSUME NEW exact, NEW encodings, LogHolds(exact, encodings),
         UNCHANGED <<logFiles, logData, indexData, acked>>,
         \/ status' # "open"
         \/ status' = status /\ segments' = segments
  PROVE  LogHolds(exact, encodings)'
<1>1. DiskHolds(logFiles', logData', indexData', acked', exact, encodings)
  BY DEF LogHolds
<1>2. status' = "open" => MemoryHolds(segments', logFiles', logData', indexData')
  BY DEF LogHolds
<1> QED BY <1>1, <1>2, Zenon DEF LogHolds

\* Compact closes the handles of a segment.
LEMMA CompactHolds ==
  ASSUME Inv, NEW exact, NEW encodings, LogHolds(exact, encodings), Compact
  PROVE  LogHolds(exact, encodings)'
<1> DEFINE n == Len(segments)
<1>1. /\ status = "open" /\ status' = "open"
      /\ UNCHANGED <<logFiles, logData, indexData, acked>>
  BY DEF Compact, disk, history
<1>2. PICK i \in 1..(n - 1) : segments' = [segments EXCEPT ![i].open = FALSE]
  BY DEF Compact
<1>3. n \in Nat /\ i \in 1..n /\ segments \in Seq(SegmentType) /\ segments[i] \in SegmentType
  BY <1>1, OpenFacts DEF Inv, TypeOK
<1> DEFINE seg == [segments[i] EXCEPT !.open = FALSE]
<1>4. /\ seg \in SegmentType /\ seg.baseOffset = segments[i].baseOffset
      /\ seg.nextOffset = segments[i].nextOffset /\ seg.size = segments[i].size
      /\ seg.indexEntries = segments[i].indexEntries
  BY <1>3 DEF SegmentType
<1>5. segments' = [segments EXCEPT ![i] = seg]
  BY <1>2
<1> HIDE DEF seg
<1>6. Len(segments') = n /\ \A j \in 1..n : segments'[j] = IF j = i THEN seg ELSE segments[j]
  BY <1>3, <1>4, <1>5, ExceptSeq
<1>7. MemoryHolds(segments, logFiles, logData, indexData)
  BY <1>1, Zenon DEF LogHolds
<1>8. ASSUME NEW j \in 1..n
      PROVE  /\ segments'[j].baseOffset = segments[j].baseOffset
             /\ Cached(segments[j], logData, indexData) => Cached(segments'[j], logData, indexData)
  <2>1. CASE j = i
    BY <1>4, <1>6, <2>1, Zenon DEF Cached, Mirrors
  <2>2. CASE j # i
    BY <1>6, <2>2, Zenon
  <2> QED BY <2>1, <2>2
<1>9. MemoryHolds(segments', logFiles, logData, indexData)
  BY <1>6, <1>7, <1>8, Zenon DEF MemoryHolds
<1>10. /\ MemoryHolds(segments', logFiles', logData', indexData')
       /\ DiskHolds(logFiles', logData', indexData', acked', exact, encodings)
  BY <1>1, <1>9 DEF LogHolds
<1> QED BY <1>10, Zenon DEF LogHolds

(***************************************************************************)
(* As long as no write has failed the directory holds what was             *)
(* acknowledged, whatever crashed: torn writes leave cells that no index   *)
(* entry covers.                                                           *)
(***************************************************************************)
Faithful == writeErrors = 0 => LogHolds(FALSE, BOOLEAN)

\* An empty directory.
LEMMA InitHolds ==
  ASSUME Init, NEW exact, NEW encodings
  PROVE  LogHolds(exact, encodings)
<1>1. /\ logFiles = {} /\ logData = [b \in Bases |-> << >>] /\ status # "open"
  BY DEF Init
<1>2. \A b \in Bases : logData[b] = << >>
  BY <1>1, Zenon
<1>3. Chained(logFiles, indexData)
  BY <1>1, Zenon DEF Chained
<1> QED BY <1>1, <1>2, <1>3, Zenon DEF LogHolds, DiskHolds

\* An operation that succeeds keeps the directory faithful.
LEMMA ServeHolds ==
  ASSUME Inv, Serve, NEW exact \in BOOLEAN, NEW encodings \in SUBSET BOOLEAN, compressed \in encodings,
         LogHolds(exact, encodings)
  PROVE  LogHolds(exact, encodings)'
<1>1. CASE NewLog
  BY <1>1, NewLogHolds
<1>2. CASE Close
  <2>1. UNCHANGED <<logFiles, logData, indexData, acked>> /\ status' # "open"
    BY <1>2 DEF Close, disk, history
  <2> QED BY <2>1, SameDiskHolds
<1>3. CASE \E r \in Records, ts \in Times : AppendOne(r, ts)
  <2>1. PICK r \in Records, ts \in Times : AppendRecords(<<r>>, ts)
    BY <1>3 DEF AppendOne
  <2>2. Batch(<<r>>) /\ ts \in Nat
    BY BatchesAre
  <2> QED BY <2>1, <2>2, AppendHolds
<1>4. CASE \E recs \in Batches, ts \in Times : AppendBatch(recs, ts)
  <2>1. PICK recs \in Batches, ts \in Times : AppendRecords(recs, ts)
    BY <1>4 DEF AppendBatch
  <2>2. Batch(recs) /\ ts \in Nat
    BY BatchesAre
  <2> QED BY <2>1, <2>2, AppendHolds
<1>5. CASE \E bytes \in RetentionSizes, cutoff \in Cutoffs, junk \in Times :
             \E k \in 0..Len(segments) : EnforceRetention(k, bytes, cutoff, junk)
  BY <1>5, RetentionHolds
<1> QED BY <1>1, <1>2, <1>3, <1>4, <1>5 DEF Serve

\* A crash keeps the directory faithful.
LEMMA CrashHolds ==
  ASSUME Inv, Crash, LogHolds(FALSE, BOOLEAN)
  PROVE  LogHolds(FALSE, BOOLEAN)'
<1>2. CASE NewLogCrash
  BY <1>2, NewLogCrashHolds
<1>3. CASE \E r \in Records, ts \in Times : AppendCrash(<<r>>, ts)
  <2>1. PICK r \in Records, ts \in Times : AppendCrash(<<r>>, ts)
    BY <1>3
  <2>2. Batch(<<r>>) /\ ts \in Nat
    BY BatchesAre
  <2> QED BY <2>1, <2>2, AppendCrashHolds
<1>4. CASE \E recs \in Batches, ts \in Times : AppendCrash(recs, ts)
  BY <1>4, BatchesAre, AppendCrashHolds
<1>5. CASE \E recs \in Batches \cup {<<r>> : r \in Records}, ts \in Times : RollCrash(recs, ts)
  <2>1. PICK recs \in Batches \cup {<<r>> : r \in Records}, ts \in Times : RollCrash(recs, ts)
    BY <1>5
  <2>2. Batch(recs) /\ ts \in Nat
    BY BatchesAre
  <2> QED BY <2>1, <2>2, RollCrashHolds
<1>6. CASE \E bytes \in RetentionSizes, cutoff \in Cutoffs, junk \in Times :
             \E k, j, j2 \in 0..Len(segments) : RetentionCrash(k, j, j2, bytes, cutoff, junk)
  <2>1. PICK bytes \in RetentionSizes, cutoff \in Cutoffs, junk \in Times :
          \E k, j, j2 \in 0..Len(segments) : RetentionCrash(k, j, j2, bytes, cutoff, junk)
    BY <1>6
  <2>2. PICK k, j, j2 \in 0..Len(segments) : RetentionCrash(k, j, j2, bytes, cutoff, junk)
    BY <2>1
  <2>3. j \in Nat
    OBVIOUS
  <2> QED BY <2>2, <2>3, RetentionCrashHolds
<1> QED BY <1>2, <1>3, <1>4, <1>5, <1>6 DEF Crash

\* Whatever succeeds and whatever crashes, as long as no write has failed the
\* index entries of every segment find the records that were acknowledged.
THEOREM FaithfulDirectory == Spec => []Faithful
<1>1. Init => Faithful
  BY InitHolds DEF Faithful
<1>2. Inv /\ Faithful /\ [Next]_vars => Faithful'
  <2> SUFFICES ASSUME Inv, Faithful, [Next]_vars, writeErrors' = 0
               PROVE  LogHolds(FALSE, BOOLEAN)'
    BY DEF Faithful
  <2>1. /\ writeErrors \in Nat /\ compressed \in BOOLEAN
        /\ FALSE \in BOOLEAN /\ BOOLEAN \in SUBSET BOOLEAN
    BY DEF Inv, TypeOK
  <2>2. ~WriteError /\ (~WriteError => writeErrors = 0)
    <3>1. WriteError => writeErrors' = writeErrors + 1
      BY DEF WriteError
    <3>2. ~WriteError => writeErrors' = writeErrors
      BY DEF Next, Serve, NewLog, Close, AppendOne, AppendBatch, AppendRecords, EnforceRetention,
             NewLogRefused, Toggle, SetCompressed, Compact, CompactPanics, Crash, faults, vars
    <3> QED BY <2>1, <3>1, <3>2
  <2>3. LogHolds(FALSE, BOOLEAN)
    BY <2>2 DEF Faithful
  <2>4. CASE Serve
    BY <2>1, <2>3, <2>4, ServeHolds
  <2>5. CASE NewLogRefused \/ UNCHANGED vars
    <3>1. UNCHANGED <<logFiles, logData, indexData, acked, status, segments>>
      BY <2>5 DEF NewLogRefused, vars
    <3> QED BY <2>3, <3>1, SameDiskHolds
  <2>6. CASE Toggle
    <3>1. UNCHANGED <<logFiles, logData, indexData, acked, status, segments>>
      BY <2>6 DEF Toggle, SetCompressed, disk, history
    <3> QED BY <2>3, <3>1, SameDiskHolds
  <2>7. CASE Compact
    BY <2>3, <2>7, CompactHolds
  <2>8. CASE CompactPanics
    <3>1. UNCHANGED <<logFiles, logData, indexData, acked>> /\ status' # "open"
      BY <2>8 DEF CompactPanics, disk, history
    <3> QED BY <2>3, <3>1, SameDiskHolds
  <2>9. CASE Crash
    BY <2>3, <2>9, CrashHolds
  <2> QED BY <2>2, <2>4, <2>5, <2>6, <2>7, <2>8, <2>9 DEF Next
<1> QED BY <1>1, <1>2, Invariance, PTL DEF Spec

(***************************************************************************)
(* Finding the segment of an offset.                                       *)
(***************************************************************************)
IsSegmentFor(segs, i, offset) ==
  /\ i \in 1..Len(segs)
  /\ segs[i].baseOffset <= offset
  /\ i = Len(segs) \/ segs[i+1].baseOffset > offset

\* segmentForOffset finds the segment whose range holds the offset.
LEMMA SegmentForIs ==
  ASSUME Tiled(segments), NEW offset \in Nat, segments[1].baseOffset <= offset
  PROVE  LET i == SegmentForOffset(offset)
         IN  /\ IsSegmentFor(segments, i, offset)
             /\ offset < NextOffset => offset < segments[i].nextOffset
             /\ offset = NextOffset => i = Len(segments)
<1> DEFINE n == Len(segments)
           F == {m \in Nat : m < n /\ segments[n - m].baseOffset <= offset}
<1>1. /\ segments \in Seq(SegmentType) /\ n \in Nat /\ n >= 1 /\ DOMAIN segments = 1..n
      /\ \A i \in 1..n : segments[i].baseOffset \in Nat /\ segments[i].nextOffset \in Nat
  <2>1. segments \in Seq(SegmentType) /\ n \in Nat /\ n >= 1 /\ DOMAIN segments = 1..n
    BY DEF Tiled
  <2>2. \A i \in 1..n : segments[i] \in SegmentType
    BY <2>1
  <2> QED BY <2>1, <2>2, FieldTypes
<1>2. n - 1 \in F
  <2>1. n - 1 \in Nat /\ n - 1 < n /\ n - (n - 1) = 1
    BY <1>1
  <2> QED BY <2>1
<1>3. PICK m \in F : \A q \in F : m <= q
  <2>1. F \in SUBSET Nat /\ F # {}
    BY <1>2, Zenon
  <2> HIDE DEF F
  <2> QED BY <2>1, LeastNat, Zenon
<1>4. IsSegmentFor(segments, n - m, offset)
  <2>1. m \in Nat /\ m < n /\ segments[n - m].baseOffset <= offset
    BY Zenon
  <2>2. n - m \in 1..n
    BY <1>1, <2>1
  <2>3. CASE m = 0
    <3>1. n - m = n
      BY <1>1, <2>3
    <3> QED BY <2>1, <2>2, <3>1, Zenon DEF IsSegmentFor
  <2>4. CASE m # 0
    <3>1. /\ m - 1 \in Nat /\ m - 1 < n /\ ~(m <= m - 1) /\ n - (m - 1) = (n - m) + 1
          /\ (n - m) + 1 \in 1..n
      BY <1>1, <2>1, <2>4
    <3>2. m - 1 \notin F
      BY <1>3, <3>1, Zenon
    <3>3. ~(segments[(n - m) + 1].baseOffset <= offset)
      BY <3>1, <3>2
    <3>4. segments[(n - m) + 1].baseOffset > offset
      BY <1>1, <3>1, <3>3
    <3> QED BY <2>1, <2>2, <3>4, Zenon DEF IsSegmentFor
  <2> QED BY <2>3, <2>4
<1> DEFINE i == SegmentForOffset(offset)
<1>5. IsSegmentFor(segments, i, offset)
  <2>1. \E j \in DOMAIN segments : /\ segments[j].baseOffset <= offset
                                   /\ j = Len(segments) \/ segments[j+1].baseOffset > offset
    BY <1>1, <1>4, Zenon DEF IsSegmentFor
  <2>2. /\ i \in DOMAIN segments /\ segments[i].baseOffset <= offset
        /\ i = Len(segments) \/ segments[i+1].baseOffset > offset
    BY <2>1, Zenon DEF SegmentForOffset
  <2> QED BY <1>1, <2>2, Zenon DEF IsSegmentFor
<1> HIDE DEF i, F
<1>6. offset < NextOffset => offset < segments[i].nextOffset
  <2>1. CASE i = n
    BY <2>1 DEF NextOffset, Active
  <2>2. CASE i # n
    <3>1. i \in 1..n /\ segments[i+1].baseOffset > offset
      BY <1>5, <2>2, Zenon DEF IsSegmentFor
    <3>2. i \in 1..(n - 1) /\ i + 1 \in 1..n
      <4>1. i \in 1..n
        BY <3>1
      <4>2. n \in Nat
        BY <1>1
      <4> QED BY <2>2, <4>1, <4>2
    <3>3. segments[i].nextOffset = segments[i+1].baseOffset
      BY <3>2, Zenon DEF Tiled
    <3> QED BY <1>1, <3>1, <3>2, <3>3
  <2> QED BY <2>1, <2>2
<1>7. offset = NextOffset => i = n
  <2>1. SUFFICES ASSUME offset = NextOffset, i # n PROVE FALSE
    OBVIOUS
  <2>2. i \in 1..n /\ segments[i+1].baseOffset > offset
    BY <1>5, <2>1, Zenon DEF IsSegmentFor
  <2>3. i + 1 \in 1..n /\ n \in 1..n
    <3>1. i \in 1..n /\ i # n
      BY <2>1, <2>2
    <3>2. n \in Nat
      BY <1>1
    <3> QED BY <3>1, <3>2
  <2>4. segments[n].baseOffset <= segments[n].nextOffset /\ segments[n].nextOffset = offset
    BY <2>1, <2>3 DEF Tiled, NextOffset, Active
  <2>5. i + 1 < n => segments[i+1].baseOffset < segments[n].baseOffset
    BY <2>3, Zenon DEF Tiled
  <2>6. i + 1 = n => segments[i+1].baseOffset = segments[n].baseOffset
    BY Zenon
  <2>7. segments[i+1].baseOffset \in Nat /\ segments[n].baseOffset \in Nat
    BY <1>1, <2>3
  <2>8. i + 1 < n \/ i + 1 = n
    BY <1>1, <2>3
  <2> QED BY <2>2, <2>4, <2>5, <2>6, <2>7, <2>8
<1> QED BY <1>5, <1>6, <1>7, Zenon DEF i

\* The i-th segment holds the offset: its files have an index entry for it, and
\* what stands there is the record acknowledged at that offset, if there is one.
SlotIn(i, offset, exact, encodings) ==
  LET b == segments[i].baseOffset
      e == offset - b + 1
  IN  /\ segments[i] \in SegmentType /\ Mirrors(segments[i], logData[b], indexData[b])
      /\ logData[b] \in Seq(Cell) /\ indexData[b] \in Seq(IndexEntry)
      /\ b \in logFiles /\ e \in 1..Len(indexData[b]) /\ b + e - 1 = offset
      /\ \E r \in Records, z \in encodings :
           Slot(logData[b], indexData[b], e, offset, r, z, exact) /\ Agrees(acked, offset, r)

\* The slot of an offset that the log covers.
LEMMA SlotOf ==
  ASSUME Inv, status = "open", NEW exact, NEW encodings, LogHolds(exact, encodings),
         NEW i \in 1..Len(segments), NEW offset \in Nat,
         segments[i].baseOffset <= offset, offset < segments[i].nextOffset
  PROVE  SlotIn(i, offset, exact, encodings)
<1> DEFINE b == segments[i].baseOffset
           e == offset - b + 1
<1>1. /\ DiskHolds(logFiles, logData, indexData, acked, exact, encodings)
      /\ MemoryHolds(segments, logFiles, logData, indexData)
  BY Zenon DEF LogHolds
<1>2. b \in logFiles /\ Cached(segments[i], logData, indexData)
  BY <1>1, Zenon DEF MemoryHolds
<1>3. b \in Nat /\ b \in Bases
  BY <1>1, <1>2, ActiveNewest
<1>4. logData[b] \in Seq(Cell) /\ indexData[b] \in Seq(IndexEntry) /\ Len(indexData[b]) \in Nat
  BY <1>3 DEF Inv, TypeOK
<1>5. segments[i].nextOffset = b + Len(indexData[b]) /\ Mirrors(segments[i], logData[b], indexData[b])
  BY <1>2, Zenon DEF Cached
<1>6. segments[i] \in SegmentType
  BY OpenFacts
<1> HIDE DEF b
<1>7. e \in 1..Len(indexData[b]) /\ b + e - 1 = offset
  <2>1. b <= offset /\ offset < b + Len(indexData[b])
    BY <1>5 DEF b
  <2> QED BY <1>3, <1>4, <2>1
<1> HIDE DEF e
<1>8. \E r \in Records, z \in encodings :
        Slot(logData[b], indexData[b], e, b + e - 1, r, z, exact) /\ Agrees(acked, b + e - 1, r)
  BY <1>1, <1>2, <1>7, Zenon DEF DiskHolds, SegmentFile
<1>9. \E r \in Records, z \in encodings :
        Slot(logData[b], indexData[b], e, offset, r, z, exact) /\ Agrees(acked, offset, r)
  BY <1>7, <1>8, Zenon
<1> QED BY <1>2, <1>4, <1>5, <1>6, <1>7, <1>9, Zenon DEF SlotIn, b, e

\* A read of an acknowledged offset returns the record acknowledged or fails,
\* however often the process died and whatever was compacted, as long as no
\* write failed and one compression setting was used.
THEOREM NeverWrong == Spec => []ReadsNeverWrong
<1>1. Inv /\ Faithful => ReadsNeverWrong
  <2> SUFFICES ASSUME Inv, Faithful, status = "open", writeErrors = 0, UniformlyEncoded,
                      NEW a \in acked
               PROVE  Read(a.offset).outcome = "error" \/ Holds(a)
    BY DEF ReadsNeverWrong
  <2> DEFINE off == a.offset
             i == SegmentForOffset(off)
             b == segments[i].baseOffset
             e == off - b + 1
             got == ReadSegment(segments[i], logData[b], indexData[b], compressed, off)
  <2>1. off \in Nat /\ off < NextOffset /\ a.rec \in Records /\ compressed \in BOOLEAN
    BY DEF Inv, TypeOK, AckedBelowHead
  <2>2. CASE BeforeLog(off)
    <3>1. Read(off) = ReadError /\ ReadError.outcome = "error"
      BY <2>2 DEF Read, ReadError
    <3> QED BY <3>1, Zenon
  <2>3. CASE ~BeforeLog(off)
    <3>1. Tiled(segments) /\ Len(segments) >= 1 /\ Len(segments) \in Nat
          /\ segments[1] \in SegmentType
      BY OpenFacts, TiledSegments
    <3>2. segments[1].baseOffset <= off
      BY <2>1, <2>3, <3>1, FieldTypes DEF BeforeLog
    <3>3. IsSegmentFor(segments, i, off) /\ off < segments[i].nextOffset
      BY <2>1, <3>1, <3>2, SegmentForIs
    <3>4. i \in 1..Len(segments) /\ b <= off
      BY <3>3, Zenon DEF IsSegmentFor
    <3>5. LogHolds(FALSE, BOOLEAN)
      BY DEF Faithful
    <3>6. /\ segments[i] \in SegmentType /\ Mirrors(segments[i], logData[b], indexData[b])
          /\ logData[b] \in Seq(Cell) /\ indexData[b] \in Seq(IndexEntry)
          /\ b \in logFiles /\ e \in 1..Len(indexData[b]) /\ b + e - 1 = off
          /\ \E r \in Records, z \in BOOLEAN :
               Slot(logData[b], indexData[b], e, off, r, z, FALSE) /\ Agrees(acked, off, r)
      <4>1. SlotIn(i, off, FALSE, BOOLEAN)
        <5> HIDE DEF i, off
        <5> QED BY <2>1, <3>3, <3>4, <3>5, SlotOf, Zenon DEF b
      <4> QED BY <4>1, Zenon DEF SlotIn
    <3>7. PICK r \in Records, z \in BOOLEAN :
            Slot(logData[b], indexData[b], e, off, r, z, FALSE) /\ Agrees(acked, off, r)
      BY <3>6
    <3>8. a.rec = r
      BY <3>7, Zenon DEF Agrees
    <3>9. Uniform(logData[b], compressed)
      <4>1. DOMAIN logData[b] = 1..Len(logData[b])
        BY <3>6
      <4> QED BY <3>6, <4>1, Zenon DEF Uniform, UniformlyEncoded
    <3>10. Read(off) = got
      BY <2>3, Zenon DEF Read, ReadAt
    <3> HIDE DEF i, off, b, e
    <3>11. RecordOrError(got, off, r)
      <4>1. /\ segments[i] \in SegmentType /\ Mirrors(segments[i], logData[b], indexData[b])
            /\ logData[b] \in Seq(Cell) /\ indexData[b] \in Seq(IndexEntry)
            /\ e \in 1..Len(indexData[b]) /\ segments[i].baseOffset + e - 1 = off
        BY <3>6, Zenon DEF b
      <4>2. Slot(logData[b], indexData[b], e, segments[i].baseOffset + e - 1, r, z, FALSE)
        BY <3>7, <4>1, Zenon
      <4>3. RecordOrError(ReadSegment(segments[i], logData[b], indexData[b], compressed,
                                      segments[i].baseOffset + e - 1),
                          segments[i].baseOffset + e - 1, r)
        BY <2>1, <3>9, <4>1, <4>2, ReadStored, Zenon
      <4> QED BY <4>1, <4>3, Zenon
    <3>12. Read(off).outcome = "error"
           \/ (Read(off).outcome = "ok" /\ Read(off).offset = off
               /\ Read(off).payload = Payload(a.rec, FALSE))
      BY <3>8, <3>10, <3>11, Zenon DEF RecordOrError
    <3> QED BY <3>12, Zenon DEF Holds, off
  <2> QED BY <2>2, <2>3
<1> QED BY <1>1, Invariance, FaithfulDirectory, PTL

(***************************************************************************)
(* A log in service: every operation succeeds, compression is off.         *)
(***************************************************************************)
\* Retention has given up exactly the offsets before the first segment.
TrimmedIsFirst ==
  IF logFiles = {} THEN trimmed = 0
  ELSE trimmed \in logFiles /\ \A b \in logFiles : trimmed <= b

\* Every index entry is about an offset that was returned to a caller.
EntriesAcked ==
  \A b \in logFiles : \A e \in 1..Len(indexData[b]) : \E a \in acked : a.offset = b + e - 1

\* Files that hold nothing but acknowledged records, all of them uncompressed, and
\* segments with open handles.
InService ==
  /\ LogHolds(TRUE, {FALSE})
  /\ compressed = FALSE
  /\ \A i \in 1..Len(segments) : segments[i].open
  /\ logFiles \subseteq indexFiles
  /\ TrimmedIsFirst
  /\ EntriesAcked

\* An empty directory is in service.
LEMMA InitInService ==
  ASSUME Init
  PROVE  InService
<1>1. LogHolds(TRUE, {FALSE})
  BY InitHolds
<1>2. /\ compressed = FALSE /\ logFiles = {} /\ trimmed = 0 /\ Len(segments) = 0
  BY DEF Init
<1>3. \A i \in 1..Len(segments) : segments[i].open
  BY <1>2
<1> QED BY <1>1, <1>2, <1>3 DEF InService, TrimmedIsFirst, EntriesAcked

\* NewLog.
LEMMA NewLogInService ==
  ASSUME Inv, InService, NewLog
  PROVE  InService'
<1>1. LogHolds(TRUE, {FALSE})'
  BY NewLogHolds DEF InService
<1>2. /\ compressed' = FALSE /\ trimmed' = trimmed /\ acked' = acked /\ Loadable
      /\ indexData' = indexData
  BY DEF NewLog, history, disk
<1>3. CASE logFiles # {}
  <2>1. logFiles' = logFiles /\ indexFiles' = indexFiles
    BY <1>3 DEF NewLog, disk
  <2>2. PICK bases \in [1..Cardinality(logFiles) -> logFiles] :
          IsSorted(bases) /\ segments' = LoadSegments(bases)
    BY <1>3, Zenon DEF NewLog
  <2>3. Len(bases) = Cardinality(logFiles) /\ Cardinality(logFiles) \in Nat
        /\ DOMAIN bases = 1..Cardinality(logFiles)
    <3>1. IsFiniteSet(0..MaxOffset)
      BY FS_Interval, CommitLogAssumption
    <3>2. logFiles \in SUBSET (0..MaxOffset)
      BY DEF Inv, TypeOK, Bases
    <3>3. IsFiniteSet(logFiles)
      BY <3>1, <3>2, FS_Subset
    <3>4. Cardinality(logFiles) \in Nat
      BY <3>3, FS_CardinalityType
    <3> QED BY <3>4
  <2> DEFINE c == Cardinality(logFiles)
  <2> HIDE DEF c
  <2>4. c \in Nat /\ bases \in [1..c -> logFiles]
    BY <2>3 DEF c
  <2>5. c >= 1
    <3>1. PICK b \in logFiles : TRUE
      BY <1>3
    <3>2. \E i \in DOMAIN bases : bases[i] = b
      BY <2>2 DEF IsSorted
    <3>3. \E i \in 1..c : TRUE
      BY <2>4, <3>2
    <3> QED BY <2>4, <3>3
  <2>6. Len(segments') = c /\ \A i \in 1..c : segments'[i].open
    <3>1. DiskHolds(logFiles, logData, indexData, acked, TRUE, {FALSE})
      BY DEF InService, LogHolds
    <3> QED BY <2>2, <2>4, <2>5, <3>1, LoadedMemory
  <2>7. TrimmedIsFirst' /\ EntriesAcked' /\ logFiles' \subseteq indexFiles'
    BY <1>2, <2>1 DEF InService, TrimmedIsFirst, EntriesAcked
  <2> QED BY <1>1, <1>2, <2>6, <2>7 DEF InService
<1>4. CASE logFiles = {}
  <2>1. /\ segments' = <<Opened(0, << >>, << >>)>> /\ logFiles' = {0}
        /\ indexFiles' = indexFiles \cup {0}
    BY <1>4 DEF NewLog
  <2>2. \A i \in 1..Len(segments') : segments'[i].open
    <3> DEFINE seg == Opened(0, << >>, << >>)
    <3>1. seg.open
      BY DEF Opened
    <3> HIDE DEF seg
    <3>2. segments' = <<seg>>
      BY <2>1 DEF seg
    <3> QED BY <3>1, <3>2
  <2>3. trimmed = 0
    BY <1>4 DEF InService, TrimmedIsFirst
  <2>4. TrimmedIsFirst'
    BY <1>2, <2>1, <2>3 DEF TrimmedIsFirst
  <2>5. EntriesAcked'
    <3>1. indexData'[0] = << >>
      BY <1>2, <1>4 DEF Loadable
    <3> QED BY <2>1, <3>1 DEF EntriesAcked
  <2>6. logFiles' \subseteq indexFiles'
    BY <2>1
  <2> QED BY <1>1, <1>2, <2>2, <2>4, <2>5, <2>6 DEF InService
<1> QED BY <1>3, <1>4

\* Close.
LEMMA CloseInService ==
  ASSUME Inv, InService, Close
  PROVE  InService'
<1>1. /\ UNCHANGED <<logFiles, indexFiles, logData, indexData, acked, trimmed, compressed>>
      /\ status' # "open" /\ segments' = << >>
  BY DEF Close, disk, history
<1>2. LogHolds(TRUE, {FALSE})'
  BY <1>1, SameDiskHolds DEF InService
<1>3. \A i \in 1..Len(segments') : segments'[i].open
  BY <1>1
<1> QED BY <1>1, <1>2, <1>3 DEF InService, TrimmedIsFirst, EntriesAcked

\* Append and AppendBatch.
LEMMA AppendInService ==
  ASSUME Inv, InService, NEW recs, Batch(recs), NEW ts \in Nat, AppendRecords(recs, ts)
  PROVE  InService'
<1> DEFINE n == Len(segments)
           seg == AfterWrite(recs)
           base == seg.nextOffset
           kept == [segments EXCEPT ![n] = seg]
           k == Len(LogBlock(Active, recs, ts, compressed))
           b == Active.baseOffset
<1>1. /\ CanAppend(recs) /\ status = "open" /\ WriteBlock(recs, ts, k, Len(recs))
      /\ acked' = acked \cup Acks(recs)
      /\ UNCHANGED <<status, trimmed, compressed>>
  BY DEF AppendRecords, WriteAll, CanAppend
<1>2. \/ segments' = kept /\ logFiles' = logFiles /\ indexFiles' = indexFiles
      \/ /\ segments' = Append(kept, Opened(base, logData[base], indexData[base]))
         /\ logFiles' = logFiles \cup {base} /\ indexFiles' = indexFiles \cup {base}
  BY DEF AppendRecords
<1>3. compressed \in {FALSE} /\ TRUE \in BOOLEAN /\ {FALSE} \in SUBSET BOOLEAN
      /\ LogHolds(TRUE, {FALSE})
  BY DEF InService
<1>4. LogHolds(TRUE, {FALSE})'
  BY <1>3, AppendHolds
<1>5. /\ recs \in Seq(Records) /\ compressed \in BOOLEAN /\ Len(recs) \in Nat /\ Len(recs) >= 1
      /\ segments \in Seq(SegmentType) /\ Active \in SegmentType /\ n \in Nat /\ n \in 1..n
      /\ b \in Bases /\ b \in Nat
  BY <1>1, OpenFacts DEF Batch, Inv, TypeOK
<1>6. /\ seg \in SegmentType /\ seg.open = Active.open /\ base \in Bases /\ base > b
      /\ indexData[base] = << >> /\ base \in Nat
  BY <1>1, AfterWriteFacts, BasesNat
<1>7. Active.open /\ \A i \in 1..n : segments[i].open
  BY <1>5 DEF InService, Active
<1>8. kept \in Seq(SegmentType) /\ Len(kept) = n /\ \A i \in 1..n : kept[i] = IF i = n THEN seg ELSE segments[i]
  BY <1>5, <1>6, ExceptSeq
<1>9. \A i \in 1..n : kept[i].open
  BY <1>6, <1>7, <1>8, Zenon
<1>10. /\ \A c \in Bases : c # b => indexData'[c] = indexData[c]
       /\ Len(indexData'[b]) = Len(indexData[b]) + Len(recs)
       /\ Active.nextOffset = b + Len(indexData[b]) /\ Len(indexData[b]) \in Nat
       /\ b \in logFiles /\ \A c \in logFiles : c \in Bases /\ c \in Nat /\ c <= b
  <2>1. /\ DiskHolds(logFiles, logData, indexData, acked, TRUE, {FALSE})
        /\ MemoryHolds(segments, logFiles, logData, indexData)
    BY <1>1, <1>3, Zenon DEF LogHolds
  <2>2. acked \in {acked, acked \cup Acks(recs)}
    BY Zenon
  <2>3. k \in Nat /\ k <= k /\ Len(recs) \in 0..Len(recs)
    <3>1. LogBlock(Active, recs, ts, compressed) \in Seq(Cell)
      BY <1>5, LogBlockType
    <3> QED BY <1>5, <3>1
  <2>4. ExtendsActive(k, Len(recs))
    BY <1>1, <1>3, <2>1, <2>2, <2>3, WrittenDisk
  <2>5. /\ b \in logFiles /\ Cached(Active, logData, indexData)
        /\ \A c \in logFiles : c \in Bases /\ c \in Nat /\ c <= b
    BY <1>1, <2>1, ActiveNewest
  <2>6. Len(indexData[b]) \in Nat
    <3>1. indexData[b] \in Seq(IndexEntry)
      BY <1>5 DEF Inv, TypeOK
    <3> QED BY <3>1
  <2> QED BY <2>4, <2>5, <2>6, Zenon DEF ExtendsActive, Cached
<1> HIDE DEF seg, kept, base
<1>11. ASSUME NEW c \in logFiles, NEW e \in 1..Len(indexData'[c])
       PROVE  \E a \in acked' : a.offset = c + e - 1
  <2>1. CASE e \in 1..Len(indexData[c])
    <3>1. \E a \in acked : a.offset = c + e - 1
      BY <2>1, Zenon DEF InService, EntriesAcked
    <3> QED BY <1>1, <3>1, Zenon
  <2>2. CASE e \notin 1..Len(indexData[c])
    <3>1. c = b
      BY <1>10, <2>2, Zenon
    <3> DEFINE l == Len(indexData[b])
               i == e - l
    <3>2. e \in 1..(l + Len(recs)) /\ e \notin 1..l
      BY <1>10, <2>2, <3>1, Zenon
    <3>3. l \in Nat /\ Active.nextOffset = b + l
      BY <1>10
    <3> HIDE DEF l
    <3>4. i \in 1..Len(recs) /\ Active.nextOffset + i - 1 = b + e - 1
      BY <1>5, <3>2, <3>3
    <3> DEFINE a == [offset |-> Active.nextOffset + i - 1, rec |-> recs[i]]
    <3>5. a \in Acks(recs)
      <4>1. i \in DOMAIN recs
        BY <1>5, <3>4
      <4> QED BY <4>1, Zenon DEF Acks, NextOffset
    <3>6. a.offset = Active.nextOffset + i - 1
      OBVIOUS
    <3> HIDE DEF a, i
    <3>7. a \in acked' /\ a.offset = c + e - 1
      BY <1>1, <3>1, <3>4, <3>5, <3>6, Zenon
    <3> QED BY <3>7, Zenon
  <2> QED BY <2>1, <2>2
<1>12. trimmed \in logFiles /\ \A c \in logFiles : trimmed <= c
  BY <1>10 DEF InService, TrimmedIsFirst
<1>13. CASE segments' = kept /\ logFiles' = logFiles /\ indexFiles' = indexFiles
  <2>1. \A i \in 1..Len(segments') : segments'[i].open
    BY <1>8, <1>9, <1>13, Zenon
  <2>2. TrimmedIsFirst'
    BY <1>1, <1>12, <1>13 DEF TrimmedIsFirst
  <2>3. EntriesAcked'
    BY <1>11, <1>13, Zenon DEF EntriesAcked
  <2>4. compressed' = FALSE /\ logFiles' \subseteq indexFiles'
    BY <1>1, <1>13 DEF InService
  <2> QED BY <1>4, <2>1, <2>2, <2>3, <2>4, Zenon DEF InService
<1>14. CASE /\ segments' = Append(kept, Opened(base, logData[base], indexData[base]))
            /\ logFiles' = logFiles \cup {base} /\ indexFiles' = indexFiles \cup {base}
  <2> DEFINE new == Opened(base, logData[base], indexData[base])
  <2>1. new.open /\ new \in SegmentType
    <3>1. logData[base] \in Seq(Cell) /\ indexData[base] \in Seq(IndexEntry)
      BY <1>6 DEF Inv, TypeOK
    <3>2. new \in SegmentType
      BY <1>6, <3>1, OpenedType
    <3> QED BY <3>2 DEF Opened
  <2>2. segments' = Append(kept, new)
    BY <1>14
  <2> HIDE DEF new
  <2>3. Len(segments') = n + 1 /\ segments'[n + 1] = new /\ \A i \in 1..n : segments'[i] = kept[i]
    BY <1>5, <1>8, <2>1, <2>2, AppendProperties
  <2>4. \A i \in 1..Len(segments') : segments'[i].open
    <3>1. \A i \in 1..(n + 1) : i \in 1..n \/ i = n + 1
      BY <1>5
    <3> QED BY <1>9, <2>1, <2>3, <3>1, Zenon
  <2>5. TrimmedIsFirst'
    <3>1. trimmed \in Nat /\ trimmed <= b
      BY <1>10, <1>12 DEF Inv, TypeOK
    <3>2. trimmed <= base
      BY <1>5, <1>6, <3>1
    <3>3. trimmed \in logFiles' /\ \A c \in logFiles' : trimmed <= c
      BY <1>12, <1>14, <3>2, Zenon
    <3> QED BY <1>1, <3>3 DEF TrimmedIsFirst
  <2>6. EntriesAcked'
    <3>1. indexData'[base] = << >>
      <4>1. base # b
        BY <1>5, <1>6
      <4> QED BY <1>6, <1>10, <4>1, Zenon
    <3>2. \A e \in 1..Len(indexData'[base]) : FALSE
      BY <3>1
    <3> QED BY <1>11, <1>14, <3>2, Zenon DEF EntriesAcked
  <2>7. compressed' = FALSE /\ logFiles' \subseteq indexFiles'
    BY <1>1, <1>14 DEF InService
  <2> QED BY <1>4, <2>4, <2>5, <2>6, <2>7, Zenon DEF InService
<1> QED BY <1>2, <1>13, <1>14

\* EnforceRetention.
LEMMA RetentionInService ==
  ASSUME Inv, InService, NEW k, NEW bytes, NEW cutoff, NEW junk,
         EnforceRetention(k, bytes, cutoff, junk)
  PROVE  InService'
<1> DEFINE n == Len(segments)
<1>1. /\ status = "open" /\ k \in 0..(n - 1) /\ Unlink(k, k)
      /\ segments' = SubSeq(segments, k + 1, n) /\ acked' = acked
      /\ trimmed' = segments[k+1].baseOffset /\ compressed' = compressed
  BY DEF EnforceRetention, Removes
<1>2. n \in Nat /\ k \in Nat /\ k <= k /\ k <= n - 1 /\ Tiled(segments)
  BY <1>1, OpenFacts, TiledSegments
<1>3. LogHolds(TRUE, {FALSE})'
  BY RetentionHolds DEF InService
<1>4. /\ \A i \in (k + 1)..n :
              LET b == segments[i].baseOffset
              IN  b \in logFiles' /\ logData'[b] = logData[b] /\ indexData'[b] = indexData[b]
      /\ \A b \in logFiles' : \E i \in (k + 1)..n : segments[i].baseOffset = b
  <2>1. LogHolds(TRUE, {FALSE})
    BY DEF InService
  <2> QED BY <1>1, <1>2, <2>1, UnlinkedDisk, Zenon
<1>5. Len(segments') = n - k /\ \A i \in 1..(n - k) : segments'[i] = segments[k + i]
  BY <1>1, <1>2, TiledSuffix
<1>6. \A i \in 1..Len(segments') : segments'[i].open
  <2>1. \A i \in 1..(n - k) : k + i \in 1..n
    BY <1>2
  <2> QED BY <1>5, <2>1, Zenon DEF InService
<1>7. TrimmedIsFirst'
  <2>1. k + 1 \in (k + 1)..n /\ k + 1 \in 1..n
    BY <1>2
  <2>2. trimmed' \in logFiles'
    BY <1>1, <1>4, <2>1, Zenon
  <2>3. ASSUME NEW b \in logFiles' PROVE trimmed' <= b
    <3>1. PICK i \in (k + 1)..n : segments[i].baseOffset = b
      BY <1>4, Zenon
    <3>2. i \in 1..n /\ (i = k + 1 \/ k + 1 < i)
      BY <1>2
    <3>3. k + 1 < i => segments[k+1].baseOffset < b
      BY <1>2, <2>1, <3>1, <3>2, Zenon DEF Tiled
    <3>4. segments[k+1].baseOffset \in Nat /\ b \in Nat
      <4>1. segments[k+1] \in SegmentType /\ segments[i] \in SegmentType
        BY <1>1, <2>1, <3>2, OpenFacts
      <4> QED BY <3>1, <4>1, FieldTypes
    <3>5. i = k + 1 => segments[k+1].baseOffset = b
      BY <3>1, Zenon
    <3> QED BY <1>1, <3>2, <3>3, <3>4, <3>5
  <2> QED BY <2>2, <2>3, Zenon DEF TrimmedIsFirst
<1>8. /\ \A b \in logFiles' : b \in logFiles /\ indexData'[b] = indexData[b] /\ b \in indexFiles'
  <2>1. ASSUME NEW b \in logFiles' PROVE b \in logFiles /\ indexData'[b] = indexData[b] /\ b \in indexFiles'
    <3> DEFINE gone == {segments[i].baseOffset : i \in 1..k}
    <3>1. logFiles' = logFiles \ gone /\ indexFiles' = indexFiles \ gone
      BY <1>1 DEF Unlink
    <3> HIDE DEF gone
    <3>2. b \in logFiles /\ b \in indexFiles'
      BY <3>1 DEF InService
    <3>3. indexData'[b] = indexData[b]
      <4>1. PICK i \in (k + 1)..n : segments[i].baseOffset = b
        BY <1>4, Zenon
      <4>2. indexData'[segments[i].baseOffset] = indexData[segments[i].baseOffset]
        BY <1>4, Zenon
      <4> QED BY <4>1, <4>2, Zenon
    <3> QED BY <3>2, <3>3
  <2> QED BY <2>1
<1>9. EntriesAcked'
  BY <1>1, <1>8, Zenon DEF InService, EntriesAcked
<1>10. compressed' = FALSE /\ logFiles' \subseteq indexFiles'
  BY <1>1, <1>8 DEF InService
<1> QED BY <1>3, <1>6, <1>7, <1>9, <1>10, Zenon DEF InService

\* A state without a change is in service as before.
LEMMA StutterInService ==
  ASSUME InService, UNCHANGED vars
  PROVE  InService'
<1>1. UNCHANGED <<segments, compressed, status, logFiles, indexFiles, logData, indexData, acked, trimmed>>
  BY DEF vars
<1>2. LogHolds(TRUE, {FALSE})'
  BY <1>1 DEF InService, LogHolds
<1> QED BY <1>1, <1>2 DEF InService, TrimmedIsFirst, EntriesAcked

\* Every operation of a log in service.
LEMMA ServeInService ==
  ASSUME Inv, InService, Serve
  PROVE  InService'
<1>1. CASE NewLog
  BY <1>1, NewLogInService
<1>2. CASE Close
  BY <1>2, CloseInService
<1>3. CASE \E r \in Records, ts \in Times : AppendOne(r, ts)
  <2>1. PICK r \in Records, ts \in Times : AppendRecords(<<r>>, ts)
    BY <1>3 DEF AppendOne
  <2>2. Batch(<<r>>) /\ ts \in Nat
    BY BatchesAre
  <2> QED BY <2>1, <2>2, AppendInService
<1>4. CASE \E recs \in Batches, ts \in Times : AppendBatch(recs, ts)
  <2>1. PICK recs \in Batches, ts \in Times : AppendRecords(recs, ts)
    BY <1>4 DEF AppendBatch
  <2>2. Batch(recs) /\ ts \in Nat
    BY BatchesAre
  <2> QED BY <2>1, <2>2, AppendInService
<1>5. CASE \E bytes \in RetentionSizes, cutoff \in Cutoffs, junk \in Times :
             \E k \in 0..Len(segments) : EnforceRetention(k, bytes, cutoff, junk)
  BY <1>5, RetentionInService
<1> QED BY <1>1, <1>2, <1>3, <1>4, <1>5 DEF Serve

\* Inv and InService hold of a log in service: its files hold exactly what was
\* acknowledged and not given up to retention.
THEOREM ServeInvariance == ServeSpec => [](Inv /\ InService)
<1>1. Init => Inv /\ InService
  BY InitInv, InitInService
<1>2. Inv /\ InService /\ [Serve]_vars => (Inv /\ InService)'
  <2> SUFFICES ASSUME Inv, InService, [Serve]_vars PROVE Inv' /\ InService'
    OBVIOUS
  <2>1. CASE Serve
    BY <2>1, ServeStep, ServeInService
  <2>2. CASE UNCHANGED vars
    BY <2>2, StutterStep, StutterInService
  <2> QED BY <2>1, <2>2
<1> QED BY <1>1, <1>2, PTL DEF ServeSpec

\* A read of the segment at the offset returns the record acknowledged for it.
ServesAt(seg, offset) ==
  LET b   == seg.baseOffset
      got == ReadSegment(seg, logData[b], indexData[b], FALSE, offset)
  IN  \E r \in Records : /\ got.outcome = "ok" /\ got.offset = offset
                         /\ got.payload = Payload(r, FALSE) /\ Agrees(acked, offset, r)

\* A segment that mirrors its files serves every offset of its range.
LEMMA SegmentServes ==
  ASSUME TypeOK, NEW files \in SUBSET Bases,
         DiskHolds(files, logData, indexData, acked, TRUE, {FALSE}),
         NEW seg \in SegmentType, seg.open, seg.baseOffset \in files,
         Cached(seg, logData, indexData),
         NEW offset \in Nat, seg.baseOffset <= offset, offset < seg.nextOffset
  PROVE  ServesAt(seg, offset)
<1> DEFINE b == seg.baseOffset
           e == offset - b + 1
<1>1. b \in Bases /\ b \in Nat /\ seg.nextOffset \in Nat
  BY BasesNat, FieldTypes DEF TypeOK
<1>2. logData[b] \in Seq(Cell) /\ indexData[b] \in Seq(IndexEntry) /\ Len(indexData[b]) \in Nat
  BY <1>1 DEF TypeOK
<1>3. Mirrors(seg, logData[b], indexData[b]) /\ seg.nextOffset = b + Len(indexData[b])
  BY Zenon DEF Cached
<1>4. e \in 1..Len(indexData[b]) /\ b + e - 1 = offset
  <2> HIDE DEF b
  <2>1. b <= offset /\ offset < b + Len(indexData[b])
    BY <1>3 DEF b
  <2> QED BY <1>1, <1>2, <2>1
<1> HIDE DEF e
<1>5. PICK r \in Records, z \in {FALSE} :
        Slot(logData[b], indexData[b], e, b + e - 1, r, z, TRUE) /\ Agrees(acked, b + e - 1, r)
  BY <1>4, Zenon DEF DiskHolds, SegmentFile
<1>6. z = FALSE
  BY <1>5
<1>7. /\ Slot(logData[b], indexData[b], e, seg.baseOffset + e - 1, r, FALSE, TRUE)
      /\ seg.baseOffset + e - 1 < seg.nextOffset /\ Agrees(acked, offset, r)
  BY <1>4, <1>5, <1>6, Zenon
<1>8. LET got == ReadSegment(seg, logData[b], indexData[b], FALSE, seg.baseOffset + e - 1)
      IN  got.outcome = "ok" /\ got.offset = seg.baseOffset + e - 1 /\ got.payload = Payload(r, FALSE)
  BY <1>2, <1>3, <1>4, <1>7, ReadExact, Zenon
<1>9. seg.baseOffset + e - 1 = offset
  BY <1>4
<1> QED BY <1>5, <1>7, <1>8, <1>9, Zenon DEF ServesAt

\* In service, the first segment of an open log begins at trimmed.
LEMMA FirstIsTrimmed ==
  ASSUME Inv, InService, status = "open"
  PROVE  segments[1].baseOffset = trimmed /\ trimmed \in logFiles /\ trimmed \in Nat
<1>1. Tiled(segments) /\ Len(segments) >= 1 /\ Len(segments) \in Nat
      /\ \A i \in 1..Len(segments) : segments[i] \in SegmentType
  BY OpenFacts, TiledSegments
<1>2. MemoryHolds(segments, logFiles, logData, indexData)
  BY DEF InService, LogHolds
<1>3. 1 \in 1..Len(segments)
  BY <1>1
<1>4. segments[1].baseOffset \in logFiles
  BY <1>2, <1>3, Zenon DEF MemoryHolds
<1>5. trimmed \in logFiles /\ trimmed <= segments[1].baseOffset
  BY <1>4 DEF InService, TrimmedIsFirst
<1>6. PICK i \in 1..Len(segments) : segments[i].baseOffset = trimmed
  BY <1>2, <1>5, Zenon DEF MemoryHolds
<1>7. segments[1].baseOffset \in Nat /\ trimmed \in Nat
  BY <1>1, <1>3, FieldTypes DEF Inv, TypeOK
<1>8. 1 < i => segments[1].baseOffset < trimmed
  BY <1>1, <1>3, <1>6, Zenon DEF Tiled
<1>9. i = 1 => segments[1].baseOffset = trimmed
  BY <1>6, Zenon
<1>10. i = 1 \/ 1 < i
  BY <1>1
<1> QED BY <1>5, <1>7, <1>8, <1>9, <1>10

\* In service, the segment that segmentForOffset finds serves the offset.
LEMMA OpenServes ==
  ASSUME Inv, InService, status = "open", NEW offset \in Nat, trimmed <= offset, offset < NextOffset
  PROVE  LET i == SegmentForOffset(offset)
         IN  /\ i \in 1..Len(segments) /\ offset < segments[i].nextOffset
             /\ ServesAt(segments[i], offset)
             /\ ~BeforeLog(offset)
<1> DEFINE i == SegmentForOffset(offset)
<1>1. Tiled(segments) /\ segments[1].baseOffset <= offset
  BY TiledSegments, FirstIsTrimmed
<1>2. IsSegmentFor(segments, i, offset) /\ offset < segments[i].nextOffset
  BY <1>1, SegmentForIs
<1> HIDE DEF i
<1>3. i \in 1..Len(segments) /\ segments[i].baseOffset <= offset
  BY <1>2, Zenon DEF IsSegmentFor
<1>4. segments[i] \in SegmentType
  BY <1>3, OpenFacts
<1>5. /\ DiskHolds(logFiles, logData, indexData, acked, TRUE, {FALSE})
      /\ MemoryHolds(segments, logFiles, logData, indexData)
  BY DEF InService, LogHolds
<1>6. segments[i].open /\ segments[i].baseOffset \in logFiles /\ Cached(segments[i], logData, indexData)
  BY <1>3, <1>5, Zenon DEF MemoryHolds, InService
<1>7. ServesAt(segments[i], offset)
  <2>1. TypeOK /\ logFiles \in SUBSET Bases
    BY DEF Inv, TypeOK
  <2> QED BY <1>2, <1>3, <1>4, <1>5, <1>6, <2>1, SegmentServes
<1>8. ~BeforeLog(offset)
  <2>1. segments[1].baseOffset = trimmed /\ trimmed \in Nat
    BY FirstIsTrimmed
  <2> QED BY <2>1 DEF BeforeLog
<1> QED BY <1>2, <1>3, <1>7, <1>8, Zenon DEF i

\* Read returns the record of every acknowledged offset that retention has not
\* given up, across rollovers, Close and NewLog.
THEOREM EveryAckReadable == ServeSpec => []AckedReadable
<1>1. Inv /\ InService => AckedReadable
  <2> SUFFICES ASSUME Inv, InService, status = "open", NEW a \in acked, a.offset >= trimmed
               PROVE  Holds(a)
    BY DEF AckedReadable
  <2> DEFINE off == a.offset
             i == SegmentForOffset(off)
             b == segments[i].baseOffset
             got == ReadSegment(segments[i], logData[b], indexData[b], FALSE, off)
  <2>1. off \in Nat /\ trimmed <= off /\ off < NextOffset /\ compressed = FALSE
    BY DEF Inv, TypeOK, AckedBelowHead, InService
  <2>2. ServesAt(segments[i], off) /\ ~BeforeLog(off)
    <3> HIDE DEF off
    <3> QED BY <2>1, OpenServes
  <2>3. PICK r \in Records : /\ got.outcome = "ok" /\ got.offset = off
                             /\ got.payload = Payload(r, FALSE) /\ Agrees(acked, off, r)
    BY <2>2, Zenon DEF ServesAt
  <2>4. a.rec = r
    BY <2>3, Zenon DEF Agrees
  <2>5. Read(off) = got
    BY <2>1, <2>2, Zenon DEF Read, ReadAt
  <2> HIDE DEF got
  <2> QED BY <2>3, <2>4, <2>5, Zenon DEF Holds
<1> QED BY <1>1, ServeInvariance, PTL

\* LatestOffset is the offset of the last record, also when the active segment
\* is empty.
THEOREM LatestIsLast == ServeSpec => []LatestOffsetIsLast
<1>1. Inv /\ InService => LatestOffsetIsLast
  <2> SUFFICES ASSUME Inv, InService, status = "open", trimmed < NextOffset
               PROVE  LatestOffset = NextOffset - 1
    BY DEF LatestOffsetIsLast
  <2> DEFINE n == Len(segments)
             full == {i \in DOMAIN segments : segments[i].nextOffset > segments[i].baseOffset}
             last == CHOOSE i \in full : \A j \in full : j <= i
  <2>1. /\ Tiled(segments) /\ n \in Nat /\ n >= 1 /\ DOMAIN segments = 1..n
        /\ \A i \in 1..n : segments[i] \in SegmentType
    BY OpenFacts, TiledSegments
  <2>2. \A i \in 1..n : segments[i].baseOffset \in Nat /\ segments[i].nextOffset \in Nat
    BY <2>1, FieldTypes
  <2>3. segments[1].baseOffset = trimmed /\ trimmed \in Nat
    BY FirstIsTrimmed
  <2>4. NextOffset = segments[n].nextOffset /\ NextOffset \in Nat
    BY <2>1, <2>2 DEF NextOffset, Active
  <2>5. \E m \in full : segments[m].nextOffset = NextOffset /\ \A j \in full : j <= m
    <3>1. CASE segments[n].nextOffset > segments[n].baseOffset
      <4>1. n \in full /\ \A j \in full : j <= n
        BY <2>1, <3>1
      <4> QED BY <2>4, <4>1, Zenon
    <3>2. CASE ~(segments[n].nextOffset > segments[n].baseOffset)
      <4>1. n \in 1..n /\ 1 \in 1..n
        BY <2>1
      <4>2. segments[n].baseOffset = NextOffset
        <5>1. segments[n].baseOffset <= segments[n].nextOffset
          BY <2>1, <4>1, Zenon DEF Tiled
        <5> QED BY <2>2, <2>4, <3>2, <4>1, <5>1
      <4>3. n # 1
        BY <2>3, <2>4, <4>2
      <4>4. n - 1 \in 1..n /\ n - 1 \in 1..(n - 1) /\ n - 1 + 1 = n /\ n - 1 < n
        BY <2>1, <4>3
      <4>5. segments[n-1].nextOffset = segments[n].baseOffset
        BY <2>1, <4>4, Zenon DEF Tiled
      <4>6. segments[n-1].baseOffset < segments[n].baseOffset
        BY <2>1, <4>1, <4>4, Zenon DEF Tiled
      <4>7. segments[n-1].nextOffset > segments[n-1].baseOffset
        BY <2>2, <4>1, <4>4, <4>5, <4>6
      <4>8. n - 1 \in full /\ \A j \in full : j <= n - 1
        BY <2>1, <3>2, <4>4, <4>7
      <4> QED BY <4>2, <4>5, <4>8, Zenon
    <3> QED BY <3>1, <3>2
  <2>6. full # {} /\ \A j \in full : j \in Nat
    BY <2>1, <2>5
  <2>7. LatestOffset = segments[last].nextOffset - 1
    BY <2>6 DEF LatestOffset
  <2>8. last \in full /\ \A j \in full : j <= last
    BY <2>5, Zenon
  <2>9. segments[last].nextOffset = NextOffset
    <3> HIDE DEF full, last
    <3>1. PICK m \in full : segments[m].nextOffset = NextOffset /\ \A j \in full : j <= m
      BY <2>5
    <3>2. m <= last /\ last <= m /\ m \in Nat /\ last \in Nat
      BY <2>6, <2>8, <3>1, Zenon
    <3>3. m = last
      BY <3>2
    <3> QED BY <3>1, <3>3, Zenon
  <2> QED BY <2>7, <2>9
<1> QED BY <1>1, ServeInvariance, PTL

\* NewLog accepts the directory of a log that was in service and was closed.
THEOREM ReopenAlways == ServeSpec => []ReopenSucceeds
<1>1. Inv /\ InService => ReopenSucceeds
  <2> SUFFICES ASSUME Inv, InService, status = "closed" PROVE Loadable
    BY DEF ReopenSucceeds
  <2>1. logFiles \subseteq indexFiles
    BY DEF InService
  <2>2. ASSUME NEW b \in logFiles PROVE Openable(logData[b], indexData[b])
    <3>1. SegmentFile(b, logData[b], indexData[b], acked, TRUE, {FALSE})
      BY Zenon DEF InService, LogHolds, DiskHolds
    <3>2. indexData[b] = << >> => logData[b] = << >>
      BY <3>1, Zenon DEF SegmentFile
    <3>3. logData[b] \in Seq(Cell) /\ indexData[b] \in Seq(IndexEntry)
      BY DEF Inv, TypeOK
    <3>4. logData[b] = << >> => indexData[b] = << >>
      <4> SUFFICES ASSUME logData[b] = << >>, indexData[b] # << >> PROVE FALSE
        OBVIOUS
      <4>1. 1 \in 1..Len(indexData[b])
        BY <3>3
      <4>2. PICK r \in Records, z \in {FALSE} : Slot(logData[b], indexData[b], 1, b + 1 - 1, r, z, TRUE)
        BY <3>1, <4>1, Zenon DEF SegmentFile
      <4> DEFINE p == indexData[b][1].position
                 q == Len(Payload(r, z))
                 x == EndOf(logData[b], indexData[b], 1)
      <4>3. x <= Len(logData[b]) /\ p + 1 + q <= x
        BY <4>2, Zenon DEF Slot, StoredAt
      <4>4. p \in Nat /\ x \in Nat /\ Len(logData[b]) = 0
        <5>1. \A e \in 1..Len(indexData[b]) : indexData[b][e] \in IndexEntry
          BY <3>3
        <5>2. \A e \in 1..Len(indexData[b]) : indexData[b][e].position \in Nat
          BY <5>1 DEF IndexEntry
        <5>3. Len(logData[b]) = 0 /\ (1 < Len(indexData[b]) => 2 \in 1..Len(indexData[b]))
          BY <3>3
        <5>4. 1 + 1 = 2
          OBVIOUS
        <5> QED BY <4>1, <5>2, <5>3, <5>4 DEF EndOf
      <4>5. q \in Nat
        BY PayloadType
      <4> HIDE DEF p, q, x
      <4> QED BY <4>3, <4>4, <4>5
    <3> QED BY <3>2, <3>3, <3>4 DEF Openable
  <2>3. logFiles = {} => indexData[0] = << >>
    BY BasesNat DEF Inv, RestartContinues, IndexesInRange
  <2> QED BY <2>1, <2>2, <2>3 DEF Loadable
<1> QED BY <1>1, ServeInvariance, PTL

(***************************************************************************)
(* ReadBatch.  Its loop goes on while a message is read and stops at the   *)
(* first position where none is.                                           *)
(***************************************************************************)
IsScan(f, n, Goes, Stop) ==
  f = [l \in 0..n |-> IF l # 0 /\ Goes[l] THEN f[l-1] ELSE Stop[l]]

\* The loop is a function that satisfies its own definition.
LEMMA ScanExists ==
  ASSUME NEW n \in Nat, NEW Goes, NEW Stop
  PROVE  \E f : IsScan(f, n, Goes, Stop)
<1> DEFINE Scan(f, m) == f = [l \in 0..m |-> IF l # 0 /\ Goes[l] THEN f[l-1] ELSE Stop[l]]
           T == {m \in Nat : ~(\E f : Scan(f, m))}
<1>1. SUFFICES ASSUME T # {} PROVE FALSE
  BY <1>1 DEF IsScan
<1>2. PICK m \in T : \A k \in T : m <= k
  BY <1>1, LeastNat
<1>3. m # 0
  <2>1. Scan([l \in 0..0 |-> Stop[l]], 0)
    OBVIOUS
  <2> QED BY <2>1
<1>4. PICK f : Scan(f, m - 1)
  <2>1. m - 1 \in Nat /\ ~(m <= m - 1)
    BY <1>3
  <2> QED BY <1>2, <2>1, Zenon
<1> DEFINE Turn(h, l) == IF l # 0 /\ Goes[l] THEN h[l-1] ELSE Stop[l]
           g == [l \in 0..m |-> IF l = m THEN Turn(f, m) ELSE f[l]]
<1>5. Scan(g, m)
  <2>1. ASSUME NEW l \in 0..m PROVE g[l] = Turn(g, l)
    <3>1. g[l] = IF l = m THEN Turn(f, m) ELSE f[l]
      BY Zenon
    <3>2. m \in Nat /\ l \in Nat /\ l <= m
      OBVIOUS
    <3>3. ASSUME l # 0 PROVE g[l-1] = f[l-1]
      <4>1. l - 1 \in 0..m /\ l - 1 # m
        BY <3>2, <3>3
      <4> QED BY <4>1, Zenon
    <3>4. ASSUME l # m PROVE f[l] = Turn(f, l)
      <4>1. l \in 0..(m-1)
        BY <3>2, <3>4
      <4> QED BY <1>4, <4>1, Zenon
    <3>5. CASE l = m
      BY <1>3, <3>1, <3>3, <3>5, Zenon
    <3>6. CASE l # m
      BY <3>1, <3>3, <3>4, <3>6, Zenon
    <3> QED BY <3>5, <3>6
  <2> QED BY <2>1, Zenon
<1> QED BY <1>2, <1>5

\* Whether ReadBatch reads a message at a position, and what it ends with if not.
BatchReads(cur) ==
  LET i == SegmentForOffset(cur)
  IN  cur < segments[i].nextOffset /\ ReadAt(i, cur).outcome = "ok"

BatchStops(left, cur) ==
  LET i == SegmentForOffset(cur)
  IN  [at |-> cur, spins |-> left # 0 /\ ~(cur < segments[i].nextOffset) /\ i < Len(segments)]

\* ReadBatchEnd is such a loop.
LEMMA BatchIsScan ==
  ASSUME NEW offset \in Nat, NEW max \in Nat
  PROVE  \E f : /\ IsScan(f, max, [l \in 0..max |-> BatchReads(offset + max - l)],
                                  [l \in 0..max |-> BatchStops(l, offset + max - l)])
                /\ ReadBatchEnd(offset, max) = f[max]
<1> DEFINE Goes == [l \in 0..max |-> BatchReads(offset + max - l)]
           Stop == [l \in 0..max |-> BatchStops(l, offset + max - l)]
           Body(f, left) ==
             LET cur == offset + max - left
                 i   == SegmentForOffset(cur)
             IN  IF left = 0 THEN [at |-> cur, spins |-> FALSE]
                 ELSE IF cur < segments[i].nextOffset
                      THEN IF ReadAt(i, cur).outcome = "ok" THEN f[left - 1]
                           ELSE [at |-> cur, spins |-> FALSE]
                 ELSE [at |-> cur, spins |-> i < Len(segments)]
           End(f) == f = [left \in 0..max |-> Body(f, left)]
<1>1. ASSUME NEW f PROVE IsScan(f, max, Goes, Stop) <=> End(f)
  <2>1. ASSUME NEW l \in 0..max
        PROVE  (IF l # 0 /\ Goes[l] THEN f[l-1] ELSE Stop[l]) = Body(f, l)
    <3> DEFINE cur == offset + max - l
               i == SegmentForOffset(cur)
    <3>1. Goes[l] = BatchReads(cur) /\ Stop[l] = BatchStops(l, cur)
      BY Zenon
    <3>2. BatchReads(cur) <=> cur < segments[i].nextOffset /\ ReadAt(i, cur).outcome = "ok"
      BY Zenon DEF BatchReads
    <3>3. BatchStops(l, cur)
            = [at |-> cur, spins |-> l # 0 /\ ~(cur < segments[i].nextOffset) /\ i < Len(segments)]
      BY Zenon DEF BatchStops
    <3>4. Body(f, l) = IF l = 0 THEN [at |-> cur, spins |-> FALSE]
                       ELSE IF cur < segments[i].nextOffset
                            THEN IF ReadAt(i, cur).outcome = "ok" THEN f[l - 1]
                                 ELSE [at |-> cur, spins |-> FALSE]
                       ELSE [at |-> cur, spins |-> i < Len(segments)]
      BY Zenon
    <3> HIDE DEF i, cur, Body, Goes, Stop
    <3>5. CASE l = 0
      <4>1. (l # 0 /\ ~(cur < segments[i].nextOffset) /\ i < Len(segments)) = FALSE
        BY <3>5
      <4> QED BY <3>1, <3>3, <3>4, <3>5, <4>1, Zenon
    <3>6. CASE l # 0 /\ cur < segments[i].nextOffset
      <4>1. (l # 0 /\ ~(cur < segments[i].nextOffset) /\ i < Len(segments)) = FALSE
        BY <3>6
      <4> QED BY <3>1, <3>2, <3>3, <3>4, <3>6, <4>1, Zenon
    <3>7. CASE l # 0 /\ ~(cur < segments[i].nextOffset)
      <4>1. (l # 0 /\ ~(cur < segments[i].nextOffset) /\ i < Len(segments)) = (i < Len(segments))
        BY <3>7
      <4> QED BY <3>1, <3>2, <3>3, <3>4, <3>7, <4>1, Zenon
    <3> QED BY <3>5, <3>6, <3>7
  <2> HIDE DEF Goes, Stop, Body
  <2>2. [l \in 0..max |-> IF l # 0 /\ Goes[l] THEN f[l-1] ELSE Stop[l]]
          = [left \in 0..max |-> Body(f, left)]
    BY <2>1, Zenon
  <2> QED BY <2>2, Zenon DEF IsScan
<1>2. ReadBatchEnd(offset, max) = (CHOOSE f : End(f))[max]
  BY DEF ReadBatchEnd
<1> HIDE DEF End, Goes, Stop
<1>3. \E f : IsScan(f, max, Goes, Stop)
  BY ScanExists, Zenon
<1>4. End(CHOOSE f : End(f))
  BY <1>1, <1>3, Zenon
<1>5. IsScan(CHOOSE f : End(f), max, Goes, Stop)
  BY <1>1, <1>4, Zenon
<1> QED BY <1>2, <1>5, Zenon DEF Goes, Stop

\* ReadBatch stops at its limit or at the head, and never spins between segments.
THEOREM BatchesComplete == ServeSpec => []ReadBatchComplete
<1>1. Inv /\ InService => ReadBatchComplete
  <2> SUFFICES ASSUME Inv, InService, status = "open",
                      NEW offset \in trimmed..NextOffset, NEW max \in 1..MaxOffset
               PROVE  LET got  == ReadBatchEnd(offset, max)
                          want == IF offset + max < NextOffset THEN offset + max ELSE NextOffset
                      IN  got.at = want /\ ~got.spins
    BY DEF ReadBatchComplete
  <2> DEFINE n == Len(segments)
             head == NextOffset
             want == IF offset + max < head THEN offset + max ELSE head
             Goes == [l \in 0..max |-> BatchReads(offset + max - l)]
             Stop == [l \in 0..max |-> BatchStops(l, offset + max - l)]
             done == [at |-> want, spins |-> FALSE]
  <2>1. /\ head \in Nat /\ trimmed \in Nat /\ segments[1].baseOffset = trimmed /\ max \in Nat
        /\ Tiled(segments) /\ head = segments[n].nextOffset
    <3>1. Active.nextOffset \in Nat
      BY OpenFacts
    <3>2. max \in Nat
      BY CommitLogAssumption
    <3> QED BY <3>1, <3>2, FirstIsTrimmed, TiledSegments DEF NextOffset, Active
  <2>2. offset \in Nat /\ trimmed <= offset /\ offset <= head
    BY <2>1
  <2> HIDE DEF head
  <2>3. PICK f : IsScan(f, max, Goes, Stop) /\ ReadBatchEnd(offset, max) = f[max]
    BY <2>1, <2>2, BatchIsScan, Zenon
  <2>4. ASSUME NEW l \in 0..max
        PROVE  f[l] = IF l # 0 /\ BatchReads(offset + max - l) THEN f[l-1]
                      ELSE BatchStops(l, offset + max - l)
    <3>1. f[l] = IF l # 0 /\ Goes[l] THEN f[l-1] ELSE Stop[l]
      <4> HIDE DEF Goes, Stop
      <4> QED BY <2>3, Zenon DEF IsScan
    <3> QED BY <3>1, Zenon
  <2> DEFINE T == {l \in Nat : l <= max /\ offset + max - l <= head /\ f[l] # done}
  <2>5. T = {}
    <3> SUFFICES ASSUME T # {} PROVE FALSE
      OBVIOUS
    <3>1. PICK l \in T : \A k \in T : l <= k
      <4>1. T \in SUBSET Nat
        BY Zenon
      <4> HIDE DEF T
      <4> QED BY <4>1, LeastNat, Zenon
    <3>2. l \in Nat /\ l <= max /\ offset + max - l <= head /\ f[l] # done
      BY <3>1, Zenon
    <3> DEFINE cur == offset + max - l
               i == SegmentForOffset(cur)
    <3>3. cur \in Nat /\ trimmed <= cur /\ cur <= head /\ l \in 0..max
      BY <2>1, <2>2, <3>2
    <3>4. f[l] = IF l # 0 /\ BatchReads(cur) THEN f[l-1] ELSE BatchStops(l, cur)
      BY <2>4, <3>3
    <3>5. BatchStops(l, cur)
            = [at |-> cur, spins |-> l # 0 /\ ~(cur < segments[i].nextOffset) /\ i < Len(segments)]
      BY Zenon DEF BatchStops
    <3> HIDE DEF i
    <3>6. CASE l = 0
      <4>1. cur = want
        BY <2>1, <2>2, <3>2, <3>6
      <4>2. (l # 0 /\ ~(cur < segments[i].nextOffset) /\ i < Len(segments)) = FALSE
        BY <3>6
      <4> HIDE DEF cur, want
      <4>3. BatchStops(l, cur) = done
        BY <3>5, <4>1, <4>2, Zenon
      <4> QED BY <3>2, <3>4, <3>6, <4>3, Zenon
    <3>7. CASE l # 0 /\ cur = head
      <4>1. cur = want
        BY <2>1, <2>2, <3>2, <3>7
      <4>2. i = n
        <5> HIDE DEF cur
        <5>1. cur \in Nat /\ cur = NextOffset /\ segments[1].baseOffset <= cur
          BY <2>1, <3>3, <3>7 DEF head
        <5> QED BY <2>1, <5>1, SegmentForIs DEF i
      <4>3. ~(cur < segments[i].nextOffset) /\ ~(i < Len(segments))
        <5>1. n \in Nat
          BY OpenFacts
        <5> HIDE DEF n
        <5>2. segments[i].nextOffset = head
          BY <2>1, <4>2, Zenon
        <5> QED BY <2>1, <3>7, <4>2, <5>1, <5>2 DEF n
      <4>4. (l # 0 /\ ~(cur < segments[i].nextOffset) /\ i < Len(segments)) = FALSE
        BY <4>3
      <4>5. ~BatchReads(cur)
        BY <4>3, Zenon DEF BatchReads, i
      <4> HIDE DEF cur, want
      <4>6. BatchStops(l, cur) = done
        BY <3>5, <4>1, <4>4, Zenon
      <4> QED BY <3>2, <3>4, <4>5, <4>6, Zenon
    <3>8. CASE l # 0 /\ cur < head
      <4>1. i \in 1..Len(segments) /\ cur < segments[i].nextOffset /\ ServesAt(segments[i], cur)
        <5> HIDE DEF cur
        <5>1. cur \in Nat /\ trimmed <= cur /\ cur < NextOffset
          BY <3>3, <3>8 DEF head
        <5> QED BY <5>1, OpenServes DEF i
      <4>2. ReadAt(i, cur).outcome = "ok"
        <5>1. compressed = FALSE
          BY DEF InService
        <5> QED BY <4>1, <5>1, Zenon DEF ServesAt, ReadAt
      <4>3. BatchReads(cur)
        BY <4>1, <4>2, Zenon DEF BatchReads, i
      <4>4. f[l] = f[l-1]
        BY <3>4, <3>8, <4>3, Zenon
      <4>5. l - 1 \in Nat /\ l - 1 <= max /\ offset + max - (l - 1) <= head /\ ~(l <= l - 1)
        BY <2>1, <2>2, <3>2, <3>8
      <4>6. l - 1 \notin T
        BY <3>1, <4>5, Zenon
      <4>7. f[l-1] = done
        <5> HIDE DEF done
        <5> QED BY <4>5, <4>6, Zenon
      <4> QED BY <3>2, <4>4, <4>7, Zenon
    <3>9. cur < head \/ cur = head
      BY <2>1, <3>3
    <3> QED BY <3>6, <3>7, <3>8, <3>9
  <2>6. f[max] = done
    <3>1. max \in Nat /\ max <= max /\ offset + max - max <= head
      BY <2>1, <2>2
    <3> HIDE DEF done
    <3> QED BY <2>5, <3>1, Zenon
  <2>7. ReadBatchEnd(offset, max).at = want /\ ~ReadBatchEnd(offset, max).spins
    <3> HIDE DEF want
    <3> QED BY <2>3, <2>6
  <2> QED BY <2>7, Zenon DEF head
<1> QED BY <1>1, ServeInvariance, PTL

(***************************************************************************)
(* What a client sees of a log in service.                                 *)
(***************************************************************************)
\* bases lists the members of files in increasing order.
Lists(bases, n, files) ==
  /\ bases \in [1..n -> files]
  /\ \A b \in files : \E i \in 1..n : bases[i] = b
  /\ \A i, j \in 1..n : i < j => bases[i] < bases[j]

\* A set of offsets that is not empty has a greatest member.
LEMMA GreatestOf ==
  ASSUME NEW files \in SUBSET Bases, files # {}
  PROVE  \E m \in files : \A b \in files : b <= m
<1> DEFINE F == {d \in Nat : MaxOffset - d \in files}
<1>1. MaxOffset \in Nat /\ \A b \in files : b \in Nat /\ b <= MaxOffset
  BY CommitLogAssumption DEF Bases
<1>2. \A b \in files : MaxOffset - b \in F
  <2>1. \A b \in files : MaxOffset - b \in Nat /\ MaxOffset - (MaxOffset - b) = b
    BY <1>1
  <2> QED BY <2>1
<1>3. PICK d \in F : \A q \in F : d <= q
  <2>1. F \in SUBSET Nat /\ F # {}
    BY <1>2
  <2> HIDE DEF F
  <2> QED BY <2>1, LeastNat, Zenon
<1>4. d \in Nat /\ MaxOffset - d \in files
  BY Zenon
<1>5. \A b \in files : d <= MaxOffset - b
  BY <1>2, <1>3, Zenon
<1>6. \A b \in files : b <= MaxOffset - d
  <2> HIDE DEF F
  <2> QED BY <1>1, <1>4, <1>5
<1> QED BY <1>4, <1>6, Zenon

\* Every set of base offsets can be listed in increasing order, as NewLog does.
LEMMA SortedExists ==
  ASSUME NEW files \in SUBSET Bases
  PROVE  /\ Cardinality(files) \in Nat /\ IsFiniteSet(files)
         /\ \E bases : Lists(bases, Cardinality(files), files)
<1> DEFINE Sortable(n) == \A S \in SUBSET Bases : Cardinality(S) = n => \E bases : Lists(bases, n, S)
           T == {n \in Nat : ~Sortable(n)}
<1>1. \A S \in SUBSET Bases : IsFiniteSet(S) /\ Cardinality(S) \in Nat
  <2>1. IsFiniteSet(0..MaxOffset)
    BY FS_Interval, CommitLogAssumption
  <2> QED BY <2>1, FS_Subset, FS_CardinalityType DEF Bases
<1>2. T = {}
  <2> SUFFICES ASSUME T # {} PROVE FALSE
    OBVIOUS
  <2>1. PICK n \in T : \A k \in T : n <= k
    <3>1. T \in SUBSET Nat
      BY Zenon
    <3> HIDE DEF T
    <3> QED BY <3>1, LeastNat, Zenon
  <2>2. n \in Nat /\ ~Sortable(n)
    BY Zenon
  <2>3. PICK S \in SUBSET Bases : Cardinality(S) = n /\ ~(\E bases : Lists(bases, n, S))
    BY <2>2, Zenon
  <2>4. CASE n = 0
    <3>1. S = {}
      BY <1>1, <2>3, <2>4, FS_EmptySet
    <3>2. Lists(<< >>, 0, {})
      BY DEF Lists
    <3> QED BY <2>3, <2>4, <3>1, <3>2, Zenon
  <2>5. CASE n # 0
    <3>1. S # {}
      <4>1. Cardinality({}) = 0
        BY FS_EmptySet
      <4> QED BY <2>3, <2>5, <4>1, Zenon
    <3>2. PICK m \in S : \A b \in S : b <= m
      BY <3>1, GreatestOf
    <3> DEFINE R == S \ {m}
    <3>3. R \in SUBSET Bases /\ Cardinality(R) = n - 1 /\ n - 1 \in Nat /\ ~(n <= n - 1)
      <4>1. Cardinality(R) = n - 1
        BY <1>1, <2>3, <3>2, FS_RemoveElement
      <4> QED BY <2>2, <2>5, <4>1
    <3>4. n - 1 \notin T
      BY <2>1, <3>3, Zenon
    <3>5. Sortable(n - 1)
      <4> HIDE DEF Sortable
      <4> QED BY <3>3, <3>4, Zenon
    <3> HIDE DEF R
    <3>6. PICK bases : Lists(bases, n - 1, R)
      BY <3>3, <3>5, Zenon
    <3> DEFINE longer == [i \in 1..n |-> IF i = n THEN m ELSE bases[i]]
    <3>7. \A i \in 1..n : i = n \/ i \in 1..(n - 1)
      BY <2>2
    <3>8. \A i \in 1..(n - 1) : bases[i] \in S /\ bases[i] < m /\ longer[i] = bases[i] /\ i \in 1..n
      <4>1. \A i \in 1..(n - 1) : i \in 1..n /\ i # n
        BY <2>2
      <4>2. \A i \in 1..(n - 1) : bases[i] \in R
        BY <3>6 DEF Lists
      <4>3. \A b \in R : b \in S /\ b # m /\ b \in Nat /\ b <= m /\ m \in Nat
        BY <2>3, <3>2, BasesNat DEF R
      <4>4. \A b \in R : b < m
        BY <4>3
      <4>5. \A i \in 1..(n - 1) : longer[i] = bases[i]
        BY <4>1, Zenon
      <4> HIDE DEF longer
      <4> QED BY <4>1, <4>2, <4>3, <4>4, <4>5, Zenon
    <3>9. n \in 1..n /\ longer[n] = m
      BY <2>2, <2>5
    <3>10. longer \in [1..n -> S]
      BY <3>2, <3>7, <3>8, <3>9
    <3> HIDE DEF longer
    <3>11. ASSUME NEW b \in S PROVE \E i \in 1..n : longer[i] = b
      <4>1. b = m \/ b \in R
        BY DEF R
      <4>2. b \in R => \E i \in 1..(n - 1) : bases[i] = b
        BY <3>6, Zenon DEF Lists
      <4> QED BY <3>8, <3>9, <4>1, <4>2, Zenon
    <3>12. ASSUME NEW i \in 1..n, NEW j \in 1..n, i < j PROVE longer[i] < longer[j]
      <4>1. i \in 1..(n - 1)
        BY <2>2, <3>12
      <4>2. j = n \/ j \in 1..(n - 1)
        BY <3>7
      <4>3. j \in 1..(n - 1) => bases[i] < bases[j]
        BY <3>6, <3>12, <4>1, Zenon DEF Lists
      <4> QED BY <3>8, <3>9, <4>1, <4>2, <4>3, Zenon
    <3>13. Lists(longer, n, S)
      BY <3>10, <3>11, <3>12, Zenon DEF Lists
    <3> QED BY <2>3, <3>13, Zenon
  <2> QED BY <2>4, <2>5
<1>3. Cardinality(files) \in Nat /\ IsFiniteSet(files)
  BY <1>1
<1>4. Sortable(Cardinality(files))
  <2> HIDE DEF Sortable
  <2> QED BY <1>2, <1>3, Zenon
<1> QED BY <1>3, <1>4, Zenon

\* SortedBases lists the .log files in increasing order.
LEMMA SortedBasesAre ==
  ASSUME TypeOK
  PROVE  /\ Cardinality(logFiles) \in Nat
         /\ SortedBases \in [1..Cardinality(logFiles) -> logFiles] /\ IsSorted(SortedBases)
         /\ logFiles # {} => Cardinality(logFiles) >= 1
<1> DEFINE n == Cardinality(logFiles)
<1>1. logFiles \in SUBSET Bases
  BY DEF TypeOK
<1>2. n \in Nat /\ IsFiniteSet(logFiles)
  BY <1>1, SortedExists
<1>3. PICK bases : Lists(bases, n, logFiles)
  BY <1>1, SortedExists
<1> HIDE DEF n
<1>4. bases \in [1..n -> logFiles] /\ DOMAIN bases = 1..n
  BY <1>3 DEF Lists
<1>5. {bases[i] : i \in DOMAIN bases} = logFiles
  <2>1. \A i \in 1..n : bases[i] \in logFiles
    BY <1>4
  <2> QED BY <1>3, <1>4, <2>1, Zenon DEF Lists
<1>6. IsSorted(bases)
  BY <1>3, <1>4, <1>5, Zenon DEF Lists, IsSorted
<1>7. SortedBases \in [1..n -> logFiles] /\ IsSorted(SortedBases)
  BY <1>4, <1>6, Zenon DEF SortedBases, n
<1>8. logFiles # {} => n >= 1
  <2>1. logFiles # {} => n # 0
    BY <1>2, FS_EmptySet DEF n
  <2> QED BY <1>2, <2>1
<1> QED BY <1>2, <1>7, <1>8 DEF n

\* What a client sees of one record, and of any.
Seen(r) == [outcome |-> "ok", payload |-> Payload(r, FALSE)]
Visible == {[outcome |-> "ok", payload |-> Payload(r, FALSE)] : r \in Records}

\* x is what a client sees of the record acknowledged at the offset.
ShowsAck(x, offset, acks) == \E a \in acks : a.offset = offset /\ x = Seen(a.rec)

\* w shows, for each offset from lo up to hi, the record acknowledged there.
View(w, acks, lo, hi) ==
  /\ w \in Seq(Visible) /\ Len(w) = hi - lo
  /\ \A i \in 1..(hi - lo) : ShowsAck(w[i], lo + i - 1, acks)

\* No offset was handed out twice.
UniqueOffsetsIn(acks) == \A a, b \in acks : a.offset = b.offset => a = b

\* Two views of the same history agree.
LEMMA ViewsAgree ==
  ASSUME NEW x, NEW y, NEW offset, NEW acks, NEW more,
         ShowsAck(x, offset, acks), ShowsAck(y, offset, more),
         acks \subseteq more, UniqueOffsetsIn(more)
  PROVE  y = x
<1>1. PICK a \in acks : a.offset = offset /\ x = Seen(a.rec)
  BY Zenon DEF ShowsAck
<1>2. PICK b \in more : b.offset = offset /\ y = Seen(b.rec)
  BY Zenon DEF ShowsAck
<1>3. a \in more /\ a.offset = b.offset
  BY <1>1, <1>2, Zenon
<1>4. a = b
  BY <1>3, Zenon DEF UniqueOffsetsIn
<1> QED BY <1>1, <1>2, <1>4, Zenon

\* segs are the open segments of a directory with the given .log files.
Serves(segs, files) ==
  /\ files \in SUBSET Bases
  /\ Tiled(segs)
  /\ DiskHolds(files, logData, indexData, acked, TRUE, {FALSE})
  /\ MemoryHolds(segs, files, logData, indexData)
  /\ \A i \in 1..Len(segs) : segs[i].open
  /\ \A b \in files : \A e \in 1..Len(indexData[b]) : \E a \in acked : a.offset = b + e - 1

\* The segment shows the record acknowledged at the offset.
ShownAt(seg, offset) ==
  LET b == seg.baseOffset
  IN  \E a \in acked : /\ a.offset = offset
                       /\ Shown(ReadSegment(seg, logData[b], indexData[b], FALSE, offset)) = Seen(a.rec)

\* Every offset of a segment shows the record acknowledged there.
LEMMA SegmentShows ==
  ASSUME TypeOK, NEW segs, NEW files, Serves(segs, files), NEW i \in 1..Len(segs),
         NEW offset \in Nat, segs[i].baseOffset <= offset, offset < segs[i].nextOffset
  PROVE  ShownAt(segs[i], offset)
<1> DEFINE seg == segs[i]
           b == seg.baseOffset
           e == offset - b + 1
           got == ReadSegment(seg, logData[b], indexData[b], FALSE, offset)
<1>1. seg \in SegmentType /\ files \in SUBSET Bases
  BY DEF Serves, Tiled
<1>2. seg.open /\ b \in files /\ Cached(seg, logData, indexData)
      /\ DiskHolds(files, logData, indexData, acked, TRUE, {FALSE})
  BY Zenon DEF Serves, MemoryHolds
<1>3. ServesAt(seg, offset)
  <2> HIDE DEF seg
  <2>1. seg.baseOffset <= offset /\ offset < seg.nextOffset
    BY DEF seg
  <2> QED BY <1>1, <1>2, <2>1, SegmentServes DEF b
<1>4. PICK r \in Records : /\ got.outcome = "ok" /\ got.payload = Payload(r, FALSE)
                           /\ Agrees(acked, offset, r)
  BY <1>3, Zenon DEF ServesAt
<1>5. e \in 1..Len(indexData[b]) /\ b + e - 1 = offset
  <2>1. b \in Nat /\ b \in Bases
    BY <1>1, <1>2, BasesNat
  <2>2. seg.nextOffset = b + Len(indexData[b])
    BY <1>2, Zenon DEF Cached
  <2>3. Len(indexData[b]) \in Nat
    <3>1. indexData[b] \in Seq(IndexEntry)
      BY <2>1 DEF TypeOK
    <3> QED BY <3>1
  <2>4. b <= offset /\ offset < b + Len(indexData[b])
    BY <2>2
  <2> HIDE DEF b
  <2> QED BY <2>1, <2>3, <2>4
<1> HIDE DEF e
<1>6. PICK a \in acked : a.offset = b + e - 1
  BY <1>2, <1>5, Zenon DEF Serves
<1>7. a.offset = offset /\ a.rec = r
  BY <1>4, <1>5, <1>6, Zenon DEF Agrees
<1>8. Shown(got) = Seen(a.rec)
  <2> HIDE DEF got
  <2> QED BY <1>4, <1>7 DEF Shown, Seen
<1> QED BY <1>7, <1>8, Zenon DEF ShownAt

\* A segment shows a sequence of visible records, one for each offset.
LEMMA SegmentView ==
  ASSUME TypeOK, NEW segs, NEW files, Serves(segs, files), NEW i \in 1..Len(segs)
  PROVE  LET lo == segs[i].baseOffset
             hi == segs[i].nextOffset
         IN  /\ lo \in Nat /\ hi \in Nat /\ lo <= hi
             /\ View(ShownSegment(segs[i]), acked, lo, hi)
<1> DEFINE seg == segs[i]
           lo == seg.baseOffset
           hi == seg.nextOffset
           w == ShownSegment(seg)
<1>1. lo \in Nat /\ hi \in Nat /\ lo <= hi
  <2>1. seg \in SegmentType /\ lo <= hi
    BY DEF Serves, Tiled
  <2> HIDE DEF seg
  <2> QED BY <2>1, FieldTypes
<1>2. w = [j \in 1..(hi - lo) |-> Shown(ReadSegment(seg, logData[lo], indexData[lo], FALSE, lo + j - 1))]
  BY DEF ShownSegment
<1>3. ASSUME NEW j \in 1..(hi - lo)
      PROVE  \E a \in acked : a.offset = lo + j - 1 /\ w[j] = Seen(a.rec)
  <2> HIDE DEF w
  <2>1. lo + j - 1 \in Nat /\ lo <= lo + j - 1 /\ lo + j - 1 < hi
    <3> HIDE DEF lo, hi
    <3> QED BY <1>1
  <2> DEFINE off == lo + j - 1
  <2>2. w[j] = Shown(ReadSegment(seg, logData[lo], indexData[lo], FALSE, off))
    BY <1>2, Zenon
  <2> HIDE DEF off
  <2>3. ShownAt(segs[i], off)
    BY <2>1, SegmentShows DEF off
  <2> QED BY <2>2, <2>3, Zenon DEF ShownAt, off
<1>4. ASSUME NEW j \in 1..(hi - lo) PROVE w[j] \in Visible
  <2> HIDE DEF w
  <2>1. PICK a \in acked : w[j] = Seen(a.rec)
    BY <1>3, Zenon
  <2>2. a.rec \in Records
    BY DEF TypeOK
  <2> QED BY <2>1, <2>2, Zenon DEF Visible, Seen
<1>5. DOMAIN w = 1..(hi - lo) /\ w = [j \in DOMAIN w |-> w[j]]
  BY <1>2, Zenon
<1> HIDE DEF w
<1>6. w \in [1..(hi - lo) -> Visible]
  BY <1>4, <1>5, Zenon
<1>7. w \in Seq(Visible) /\ Len(w) = hi - lo
  <2>1. hi - lo \in Nat
    <3> HIDE DEF lo, hi
    <3> QED BY <1>1
  <2> HIDE DEF lo, hi, Visible
  <2> QED BY <1>6, <2>1
<1>8. View(w, acked, lo, hi)
  BY <1>3, <1>7, Zenon DEF View, ShowsAck
<1> QED BY <1>1, <1>8, Zenon DEF w

\* What the segments of a log show, one after the other.
Pages(segs) == [i \in 1..Len(segs) |-> ShownSegment(segs[i])]

\* The end of each segment, counted from the first offset.
Ends(segs) ==
  [k \in 0..Len(segs) |-> IF k = 0 THEN 0 ELSE segs[k].nextOffset - segs[1].baseOffset]

\* The number of offsets of each segment.
Lengths(segs) == [i \in 1..Len(segs) |-> segs[i].nextOffset - segs[i].baseOffset]

\* Since the segments tile the offsets, their lengths add up to their ends.
LEMMA EndsAreTotals ==
  ASSUME NEW segs, Tiled(segs)
  PROVE  /\ IsTotal(Ends(segs), Len(segs), Lengths(segs))
         /\ \A i \in 1..Len(segs) : Ends(segs)[i-1] = segs[i].baseOffset - segs[1].baseOffset
<1> DEFINE n == Len(segs)
           g == Ends(segs)
           G == Lengths(segs)
           lo == segs[1].baseOffset
<1>1. n \in Nat /\ n >= 1 /\ \A i \in 1..n : segs[i].baseOffset \in Nat /\ segs[i].nextOffset \in Nat
  <2>1. segs \in Seq(SegmentType) /\ n \in Nat /\ n >= 1
    BY DEF Tiled
  <2>2. \A i \in 1..n : segs[i] \in SegmentType
    BY <2>1
  <2> QED BY <2>1, <2>2, FieldTypes
<1>2. lo \in Nat
  BY <1>1
<1>3. \A k \in 0..n : g[k] = IF k = 0 THEN 0 ELSE segs[k].nextOffset - lo
  BY Zenon DEF Ends
<1>4. \A k \in 1..n : G[k] = segs[k].nextOffset - segs[k].baseOffset
  BY Zenon DEF Lengths
<1>5. ASSUME NEW i \in 1..n PROVE g[i-1] = segs[i].baseOffset - lo
  <2>1. CASE i = 1
    <3>1. 0 \in 0..n /\ i - 1 = 0
      BY <1>1, <2>1
    <3>2. g[i-1] = 0 /\ segs[i].baseOffset = lo
      BY <1>3, <2>1, <3>1, Zenon
    <3> HIDE DEF lo, g
    <3> QED BY <1>2, <3>2
  <2>2. CASE i # 1
    <3>1. i - 1 \in 0..n /\ i - 1 # 0 /\ i - 1 \in 1..(n - 1) /\ i - 1 + 1 = i
      BY <1>1, <2>2
    <3>2. g[i-1] = segs[i-1].nextOffset - lo
      BY <1>3, <3>1, Zenon
    <3>3. segs[i-1].nextOffset = segs[i].baseOffset
      BY <3>1, Zenon DEF Tiled
    <3> QED BY <3>2, <3>3, Zenon
  <2> QED BY <2>1, <2>2
<1> HIDE DEF g, G
<1>6. ASSUME NEW k \in 0..n PROVE g[k] = IF k = 0 THEN 0 ELSE g[k-1] + G[k]
  <2>1. CASE k = 0
    BY <1>3, <2>1, Zenon
  <2>2. CASE k # 0
    <3>1. k \in 1..n
      BY <1>1, <2>2
    <3>2. /\ g[k] = segs[k].nextOffset - lo /\ g[k-1] = segs[k].baseOffset - lo
          /\ G[k] = segs[k].nextOffset - segs[k].baseOffset
      BY <1>3, <1>4, <1>5, <2>2, <3>1, Zenon
    <3>3. segs[k].baseOffset \in Nat /\ segs[k].nextOffset \in Nat
      BY <1>1, <3>1
    <3> HIDE DEF lo
    <3>4. g[k] = g[k-1] + G[k]
      BY <1>2, <3>2, <3>3
    <3> QED BY <2>2, <3>4
  <2> QED BY <2>1, <2>2
<1>7. DOMAIN g = 0..n /\ g = [k \in DOMAIN g |-> g[k]]
  BY Zenon DEF g, Ends
<1>8. IsTotal(g, n, G)
  BY <1>6, <1>7, Zenon DEF IsTotal
<1> QED BY <1>5, <1>8 DEF g, G

\* The segments in a row show every offset of the log.
LEMMA PagesView ==
  ASSUME TypeOK, NEW segs, NEW files, Serves(segs, files),
         NEW f, IsConcat(f, Len(segs), Pages(segs))
  PROVE  View(f[Len(segs)], acked, segs[1].baseOffset, segs[Len(segs)].nextOffset)
<1> DEFINE n == Len(segs)
           g == Ends(segs)
           G == Lengths(segs)
           B == Pages(segs)
           lo == segs[1].baseOffset
           hi == segs[n].nextOffset
           w == f[n]
<1>1. Tiled(segs) /\ n \in Nat /\ n >= 1
  BY DEF Serves, Tiled
<1>2. 1 \in 1..n /\ n \in 1..n /\ n \in 0..n
  BY <1>1
<1>3. ASSUME NEW i \in 1..n
      PROVE  /\ segs[i].baseOffset \in Nat /\ segs[i].nextOffset \in Nat
             /\ segs[i].baseOffset <= segs[i].nextOffset
             /\ B[i] = ShownSegment(segs[i]) /\ B[i] \in Seq(Visible)
             /\ Len(B[i]) = segs[i].nextOffset - segs[i].baseOffset
             /\ G[i] = segs[i].nextOffset - segs[i].baseOffset
             /\ g[i] = segs[i].nextOffset - lo /\ g[i-1] = segs[i].baseOffset - lo
  <2>1. /\ segs[i].baseOffset \in Nat /\ segs[i].nextOffset \in Nat
        /\ segs[i].baseOffset <= segs[i].nextOffset
        /\ View(ShownSegment(segs[i]), acked, segs[i].baseOffset, segs[i].nextOffset)
    BY SegmentView, Zenon
  <2>2. /\ ShownSegment(segs[i]) \in Seq(Visible)
        /\ Len(ShownSegment(segs[i])) = segs[i].nextOffset - segs[i].baseOffset
    BY <2>1, Zenon DEF View
  <2>3. B[i] = ShownSegment(segs[i]) /\ G[i] = segs[i].nextOffset - segs[i].baseOffset
    BY Zenon DEF Pages, Lengths
  <2>4. g[i] = segs[i].nextOffset - lo
    <3>1. i \in 0..n /\ i # 0
      BY <1>1
    <3> QED BY <3>1, Zenon DEF Ends
  <2>5. g[i-1] = segs[i].baseOffset - lo
    BY <1>1, EndsAreTotals
  <2> QED BY <2>1, <2>2, <2>3, <2>4, <2>5, Zenon
<1> HIDE DEF g, G, B
<1>4. lo \in Nat /\ hi \in Nat
  BY <1>2, <1>3
<1>5. SeqsOfLength(B, G, n, Visible)
  BY <1>3, Zenon DEF SeqsOfLength
<1>6. IsTotal(g, n, G) /\ IsConcat(f, n, B)
  BY <1>1, EndsAreTotals DEF g, G, B
<1>7. LaidOut(w, n, B, g)
  BY <1>1, <1>5, <1>6, ConcatLayout, Zenon
<1>8. w \in Seq(Visible)
  <2>1. \A i \in 1..n : B[i] \in Seq(Visible)
    BY <1>3
  <2> HIDE DEF Visible
  <2>2. \A i \in 0..n : f[i] \in Seq(Visible)
    BY <1>1, <1>6, <2>1, ConcatType, Zenon
  <2> QED BY <1>2, <2>2, Zenon
<1>9. Len(w) = hi - lo
  BY <1>2, <1>3, <1>7, Zenon DEF LaidOut
<1>10. ASSUME NEW p \in 1..(hi - lo)
       PROVE  \E a \in acked : a.offset = lo + p - 1 /\ w[p] = Seen(a.rec)
  <2> DEFINE F == {i \in Nat : i \in 1..n /\ p <= segs[i].nextOffset - lo}
  <2>1. p \in Nat /\ p >= 1 /\ p <= hi - lo
    <3> HIDE DEF hi, lo
    <3> QED BY <1>4
  <2>2. n \in F
    BY <1>1, <1>2, <2>1
  <2>3. PICK i \in F : \A q \in F : i <= q
    <3>1. F \in SUBSET Nat /\ F # {}
      BY <2>2, Zenon
    <3> HIDE DEF F
    <3> QED BY <3>1, LeastNat, Zenon
  <2>4. i \in Nat /\ i \in 1..n /\ p <= segs[i].nextOffset - lo
    BY Zenon
  <2> DEFINE base == segs[i].baseOffset
             next == segs[i].nextOffset
             j == p - (base - lo)
  <2>5. base \in Nat /\ next \in Nat /\ Len(B[i]) = next - base
    BY <1>3, <2>4, Zenon
  <2>6. base - lo < p
    <3>1. CASE i = 1
      <4>1. base = lo
        BY <3>1, Zenon
      <4> HIDE DEF base, lo
      <4> QED BY <1>4, <2>1, <4>1
    <3>2. CASE i # 1
      <4>1. i - 1 \in Nat /\ i - 1 \in 1..n /\ i - 1 \in 1..(n - 1) /\ i - 1 + 1 = i /\ ~(i <= i - 1)
        BY <1>1, <2>4, <3>2
      <4>2. i - 1 \notin F
        BY <2>3, <4>1, Zenon
      <4>3. ~(p <= segs[i-1].nextOffset - lo)
        BY <4>1, <4>2, Zenon
      <4>4. segs[i-1].nextOffset = base
        BY <1>1, <4>1, Zenon DEF Tiled
      <4>5. ~(p <= base - lo)
        BY <4>3, <4>4, Zenon
      <4> HIDE DEF base, lo
      <4> QED BY <1>4, <2>1, <2>5, <4>5
    <3> QED BY <3>1, <3>2
  <2>7. j \in 1..(next - base) /\ (base - lo) + j = p /\ base + j - 1 = lo + p - 1
    <3>1. p <= next - lo
      BY <2>4
    <3> HIDE DEF base, next, lo
    <3> QED BY <1>4, <2>1, <2>5, <2>6, <3>1
  <2> HIDE DEF j
  <2>8. w[g[i-1] + j] = B[i][j]
    BY <1>7, <2>4, <2>5, <2>7, Zenon DEF LaidOut
  <2>9. w[p] = ShownSegment(segs[i])[j]
    BY <1>3, <2>4, <2>7, <2>8, Zenon
  <2>10. \E a \in acked : a.offset = base + j - 1 /\ ShownSegment(segs[i])[j] = Seen(a.rec)
    <3>1. View(ShownSegment(segs[i]), acked, base, next)
      BY <2>4, SegmentView, Zenon
    <3> QED BY <2>7, <3>1, Zenon DEF View, ShowsAck
  <2> QED BY <2>7, <2>9, <2>10, Zenon
<1> QED BY <1>8, <1>9, <1>10, Zenon DEF View, ShowsAck

\* ShownLog is what the loaded segments show in a row.
LEMMA ShownLogIs ==
  ASSUME Len(LoadedSegments) \in Nat
  PROVE  \E f : /\ IsConcat(f, Len(LoadedSegments), Pages(LoadedSegments))
                /\ ShownLog = f[Len(LoadedSegments)]
<1> DEFINE segs == LoadedSegments
           n == Len(segs)
           B == Pages(segs)
           Image(f) == f = [k \in 0..n |-> IF k = 0 THEN << >> ELSE f[k-1] \o ShownSegment(segs[k])]
<1>1. ShownLog = (CHOOSE f : Image(f))[n]
  BY DEF ShownLog
<1> HIDE DEF segs
<1>2. ASSUME NEW f PROVE IsConcat(f, n, B) <=> Image(f)
  <2>1. \A k \in 0..n : k # 0 => B[k] = ShownSegment(segs[k])
    <3>1. \A k \in 0..n : k # 0 => k \in 1..n
      BY DEF segs
    <3> QED BY <3>1, Zenon DEF Pages
  <2>2. ASSUME NEW k \in 0..n
        PROVE  (IF k = 0 THEN << >> ELSE f[k-1] \o B[k])
                 = (IF k = 0 THEN << >> ELSE f[k-1] \o ShownSegment(segs[k]))
    <3> HIDE DEF B
    <3> QED BY <2>1, Zenon
  <2> HIDE DEF B
  <2>3. [k \in 0..n |-> IF k = 0 THEN << >> ELSE f[k-1] \o B[k]]
          = [k \in 0..n |-> IF k = 0 THEN << >> ELSE f[k-1] \o ShownSegment(segs[k])]
    BY <2>2, Zenon
  <2> QED BY <2>3, Zenon DEF IsConcat
<1> HIDE DEF Image, B
<1>3. n \in Nat
  BY DEF segs
<1>4. \E f : IsConcat(f, n, B)
  <2> HIDE DEF n
  <2> QED BY <1>3, ConcatExists, Zenon
<1>5. Image(CHOOSE f : Image(f))
  BY <1>2, <1>4, Zenon
<1>6. IsConcat(CHOOSE f : Image(f), n, B)
  BY <1>2, <1>5, Zenon
<1> QED BY <1>1, <1>6, Zenon DEF B, segs

\* w and v are views before and after n more records.
GrownBy(w, acks, lo, hi, v, more, n) ==
  /\ lo \in Nat /\ hi \in Nat /\ n \in Nat /\ lo <= hi
  /\ View(w, acks, lo, hi) /\ View(v, more, lo, hi + n)
  /\ acks \subseteq more /\ UniqueOffsetsIn(more)

\* A log that has grown shows what it showed, and n records more.
LEMMA GrownView ==
  ASSUME NEW w, NEW acks, NEW lo, NEW hi, NEW v, NEW more, NEW n,
         GrownBy(w, acks, lo, hi, v, more, n)
  PROVE  /\ v \in [1..(Len(w) + n) -> Visible]
         /\ SubSeq(v, 1, Len(w)) = w
<1> USE DEF GrownBy
<1>1. /\ w \in Seq(Visible) /\ Len(w) = hi - lo
      /\ v \in Seq(Visible) /\ Len(v) = (hi + n) - lo
  BY Zenon DEF View
<1> HIDE DEF Visible
<1>2. Len(v) = Len(w) + n /\ Len(w) \in Nat /\ Len(v) \in Nat
  BY <1>1
<1>3. v \in [1..(Len(w) + n) -> Visible]
  <2>1. v \in [1..Len(v) -> Visible]
    BY <1>1, LenProperties
  <2> QED BY <1>2, <2>1, Zenon
<1>4. \A i \in 1..Len(w) : v[i] \in Visible
  BY <1>1, <1>2
<1>5. /\ SubSeq(v, 1, Len(w)) \in Seq(Visible) /\ Len(SubSeq(v, 1, Len(w))) = Len(w)
      /\ \A i \in 1..Len(w) : SubSeq(v, 1, Len(w))[i] = v[i]
  BY <1>1, <1>2, FirstOf
<1>6. ASSUME NEW i \in 1..Len(w) PROVE v[i] = w[i]
  <2>1. i \in 1..(hi - lo) /\ i \in 1..((hi + n) - lo)
    BY <1>1, <1>2
  <2>2. ShowsAck(w[i], lo + i - 1, acks) /\ ShowsAck(v[i], lo + i - 1, more)
    BY <2>1, Zenon DEF View
  <2> QED BY <2>2, ViewsAgree, Zenon
<1>7. SubSeq(v, 1, Len(w)) = w
  <2>1. \A i \in 1..Len(w) : SubSeq(v, 1, Len(w))[i] = w[i]
    BY <1>5, <1>6, Zenon
  <2> QED BY <1>1, <1>5, <2>1, SeqEqual
<1> QED BY <1>3, <1>7

\* w and v are views before and after the n oldest records were dropped.
CutBy(w, v, acks, lo, hi, n) ==
  /\ lo \in Nat /\ hi \in Nat /\ n \in Nat /\ lo + n <= hi
  /\ View(w, acks, lo, hi) /\ View(v, acks, lo + n, hi) /\ UniqueOffsetsIn(acks)

\* A log that has lost its first n records shows the others.
LEMMA CutView ==
  ASSUME NEW w, NEW v, NEW acks, NEW lo, NEW hi, NEW n, CutBy(w, v, acks, lo, hi, n)
  PROVE  /\ n <= Len(w) /\ Len(w) \in Nat
         /\ v = SubSeq(w, n + 1, Len(w))
         /\ n = 0 => v = w
<1> USE DEF CutBy
<1>1. /\ w \in Seq(Visible) /\ Len(w) = hi - lo
      /\ v \in Seq(Visible) /\ Len(v) = hi - (lo + n)
  BY Zenon DEF View
<1> HIDE DEF Visible
<1>2. Len(v) = Len(w) - n /\ Len(w) \in Nat /\ Len(v) \in Nat /\ n <= Len(w)
  BY <1>1
<1> DEFINE t == SubSeq(w, n + 1, Len(w))
<1>3. /\ t \in Seq(Visible) /\ Len(t) = Len(w) - n
      /\ \A i \in 1..(Len(w) - n) : t[i] = w[n + i]
  <2>1. \A i \in (n + 1)..Len(w) : w[i] \in Visible
    <3>1. \A i \in (n + 1)..Len(w) : i \in 1..Len(w)
      BY <1>2
    <3> QED BY <1>1, <3>1, ElementOfSeq
  <2>2. /\ t \in Seq(Visible)
        /\ Len(t) = IF n + 1 <= Len(w) THEN Len(w) - (n + 1) + 1 ELSE 0
        /\ \A i \in 1..(Len(w) - (n + 1) + 1) : t[i] = w[(n + 1) + i - 1]
    BY <1>2, <2>1, SubSeqProperties
  <2> HIDE DEF t
  <2>3. Len(t) = Len(w) - n
    BY <1>2, <2>2
  <2>4. \A i \in 1..(Len(w) - n) : i \in 1..(Len(w) - (n + 1) + 1) /\ (n + 1) + i - 1 = n + i
    BY <1>2
  <2> QED BY <2>2, <2>3, <2>4, Zenon
<1> HIDE DEF t
<1>4. ASSUME NEW i \in 1..Len(v) PROVE v[i] = t[i]
  <2>1. /\ n + i \in 1..(hi - lo) /\ i \in 1..(hi - (lo + n)) /\ lo + (n + i) - 1 = (lo + n) + i - 1
        /\ i \in 1..(Len(w) - n)
    BY <1>1, <1>2
  <2>2. ShowsAck(w[n + i], lo + (n + i) - 1, acks) /\ ShowsAck(v[i], (lo + n) + i - 1, acks)
    BY <2>1, Zenon DEF View
  <2>3. ShowsAck(v[i], lo + (n + i) - 1, acks) /\ acks \subseteq acks
    BY <2>1, <2>2, Zenon
  <2>4. v[i] = w[n + i]
    BY <2>2, <2>3, ViewsAgree, Zenon
  <2> QED BY <1>3, <2>1, <2>4, Zenon
<1>5. v = t
  BY <1>1, <1>2, <1>3, <1>4, SeqEqual
<1>6. n = 0 => t = w
  <2>1. SubSeq(w, 1, Len(w)) = w
    BY <1>1, SubSeqFull
  <2> QED BY <2>1 DEF t
<1> QED BY <1>2, <1>5, <1>6, Zenon DEF t

(***************************************************************************)
(* The segments that NewLog would load, or has loaded.                     *)
(***************************************************************************)
\* h is the offset after the last record of the directory.
HeadAt(files, indexes, h) ==
  \E m \in files : (\A b \in files : b <= m) /\ h = m + Len(indexes[m])

\* A directory has one head.
LEMMA HeadUnique ==
  ASSUME NEW files \in SUBSET Nat, NEW indexes, NEW g, NEW h,
         HeadAt(files, indexes, g), HeadAt(files, indexes, h)
  PROVE  g = h
<1>1. PICK m \in files : (\A b \in files : b <= m) /\ g = m + Len(indexes[m])
  BY DEF HeadAt
<1>2. PICK q \in files : (\A b \in files : b <= q) /\ h = q + Len(indexes[q])
  BY DEF HeadAt
<1>3. m = q
  BY <1>1, <1>2
<1> QED BY <1>1, <1>2, <1>3, Zenon

\* The first segment is the oldest of the directory, the last the newest.
LEMMA ServedEnds ==
  ASSUME TypeOK, NEW segs, NEW files, Serves(segs, files)
  PROVE  /\ Len(segs) \in Nat /\ Len(segs) >= 1
         /\ HeadAt(files, indexData, segs[Len(segs)].nextOffset)
         /\ segs[1].baseOffset \in files /\ \A b \in files : segs[1].baseOffset <= b
         /\ segs[1].baseOffset \in Nat /\ segs[Len(segs)].nextOffset \in Nat
         /\ segs[1].baseOffset <= segs[Len(segs)].nextOffset
<1> DEFINE n == Len(segs)
           lo == segs[1].baseOffset
           m == segs[n].baseOffset
           hi == segs[n].nextOffset
<1>1. /\ segs \in Seq(SegmentType) /\ n \in Nat /\ n >= 1 /\ files \in SUBSET Bases
      /\ MemoryHolds(segs, files, logData, indexData)
  BY DEF Serves, Tiled
<1>2. \A i, j \in 1..n : i < j => segs[i].baseOffset < segs[j].baseOffset
  BY Zenon DEF Serves, Tiled
<1>3. \A i \in 1..n : segs[i].baseOffset \in Nat /\ segs[i].nextOffset \in Nat
  <2>1. \A i \in 1..n : segs[i] \in SegmentType
    BY <1>1
  <2> QED BY <2>1, FieldTypes
<1>4. 1 \in 1..n /\ n \in 1..n
  BY <1>1
<1>5. lo \in files /\ m \in files /\ hi = m + Len(indexData[m])
  BY <1>1, <1>4, Zenon DEF MemoryHolds, Cached
<1>6. ASSUME NEW b \in files PROVE lo <= b /\ b <= m
  <2>1. PICK i \in 1..n : segs[i].baseOffset = b
    BY <1>1, Zenon DEF MemoryHolds
  <2>2. (1 < i => lo < b) /\ (i = 1 => lo = b) /\ (i < n => b < m) /\ (i = n => b = m)
    BY <1>2, <1>4, <2>1, Zenon
  <2>3. (1 < i \/ i = 1) /\ (i < n \/ i = n)
    BY <1>1
  <2>4. lo \in Nat /\ b \in Nat /\ m \in Nat
    BY <1>3, <1>4, <2>1
  <2> HIDE DEF lo, m
  <2> QED BY <2>2, <2>3, <2>4
<1>7. lo <= hi
  <2>1. m <= hi /\ m \in Nat /\ hi \in Nat /\ lo \in Nat /\ lo <= m
    BY <1>3, <1>4, <1>5, <1>6, Zenon DEF Serves, Tiled
  <2> HIDE DEF lo, m, hi
  <2> QED BY <2>1
<1>8. HeadAt(files, indexData, hi)
  BY <1>5, <1>6, Zenon DEF HeadAt
<1> QED BY <1>1, <1>3, <1>4, <1>5, <1>6, <1>7, <1>8

\* What the log would serve from.
LoadedFiles == IF logFiles = {} THEN {0} ELSE logFiles

\* The loaded segments, or those a restart would load, serve the directory.
LEMMA LoadedServes ==
  ASSUME Inv, InService
  PROVE  Serves(LoadedSegments, LoadedFiles)
<1>1. TypeOK /\ logFiles \in SUBSET Bases /\ DiskHolds(logFiles, logData, indexData, acked, TRUE, {FALSE})
      /\ status \in {"open", "closed"}
  BY DEF Inv, TypeOK, InService, LogHolds
<1>2. CASE status = "open"
  <2>1. LoadedSegments = segments /\ logFiles # {}
    BY <1>2 DEF LoadedSegments, Inv, HeadIntact
  <2>2. LoadedFiles = logFiles
    BY <2>1 DEF LoadedFiles
  <2>3. Tiled(segments) /\ MemoryHolds(segments, logFiles, logData, indexData)
    BY <1>2, TiledSegments DEF InService, LogHolds
  <2>4. Serves(segments, logFiles)
    BY <1>1, <2>3, Zenon DEF Serves, InService, EntriesAcked
  <2> QED BY <2>1, <2>2, <2>4, Zenon
<1>3. CASE status = "closed" /\ logFiles # {}
  <2> DEFINE c == Cardinality(logFiles)
             bases == SortedBases
  <2>1. LoadedSegments = LoadSegments(bases) /\ LoadedFiles = logFiles
    BY <1>3 DEF LoadedSegments, LoadedFiles
  <2>2. c \in Nat /\ c >= 1 /\ bases \in [1..c -> logFiles] /\ IsSorted(bases)
    BY <1>1, <1>3, SortedBasesAre
  <2>3. PICK m \in logFiles : \A b \in logFiles : b <= m
    BY <1>1, <1>3, GreatestOf
  <2> HIDE DEF c, bases
  <2>4. Tiled(LoadSegments(bases)) /\ Len(LoadSegments(bases)) = c
    BY <2>2, <2>3, LoadedFacts
  <2>5. /\ MemoryHolds(LoadSegments(bases), logFiles, logData, indexData)
        /\ \A i \in 1..c : LoadSegments(bases)[i].open
    BY <1>1, <2>2, LoadedMemory
  <2>6. Serves(LoadSegments(bases), logFiles)
    BY <1>1, <2>4, <2>5, Zenon DEF Serves, InService, EntriesAcked
  <2> QED BY <2>1, <2>6, Zenon
<1>4. CASE status = "closed" /\ logFiles = {}
  <2> DEFINE seg == Opened(0, << >>, << >>)
             segs == <<seg>>
  <2>1. LoadedSegments = segs /\ LoadedFiles = {0}
    BY <1>4 DEF LoadedSegments, LoadedFiles
  <2>2. indexData[0] = << >> /\ {0} \in SUBSET Bases
    BY <1>4, BasesNat DEF Inv, RestartContinues, IndexesInRange
  <2>3. /\ DiskHolds({0}, logData, indexData, acked, TRUE, {FALSE})
        /\ MemoryHolds(segs, {0}, logData, indexData)
    <3>1. DiskHolds({}, logData, indexData, acked, TRUE, {FALSE})
      BY <1>1, <1>4
    <3> QED BY <1>1, <2>2, <3>1, FirstSegment
  <2>4. seg \in SegmentType /\ seg.open /\ seg.baseOffset = 0 /\ seg.nextOffset = 0
    <3>1. << >> \in Seq(Cell) /\ << >> \in Seq(IndexEntry)
      OBVIOUS
    <3>2. seg \in SegmentType
      BY <3>1, OpenedType
    <3> QED BY <3>2 DEF Opened
  <2> HIDE DEF seg
  <2>5. Tiled(segs)
    BY <2>4, CommitLogAssumption DEF Tiled
  <2>6. \A i \in 1..Len(segs) : segs[i].open
    BY <2>4
  <2>7. \A b \in {0} : \A e \in 1..Len(indexData[b]) : \E a \in acked : a.offset = b + e - 1
    BY <2>2
  <2> HIDE DEF segs
  <2>8. Serves(segs, {0})
    BY <2>2, <2>3, <2>5, <2>6, <2>7, Zenon DEF Serves
  <2> QED BY <2>1, <2>8, Zenon
<1> QED BY <1>1, <1>2, <1>3, <1>4

\* The offset after the last record of the log.
LoadedHead == LoadedSegments[Len(LoadedSegments)].nextOffset

\* What a client sees is the history from trimmed on.
ShowsHistory ==
  /\ LoadedSegments[1].baseOffset = trimmed
  /\ trimmed \in Nat /\ LoadedHead \in Nat /\ trimmed <= LoadedHead
  /\ HeadAt(LoadedFiles, indexData, LoadedHead)
  /\ View(ShownLog, acked, trimmed, LoadedHead)

\* In service, open or closed, the log shows the history.
LEMMA HistoryShown ==
  ASSUME Inv, InService
  PROVE  ShowsHistory
<1> DEFINE segs == LoadedSegments
           files == LoadedFiles
<1>1. TypeOK /\ trimmed \in Nat /\ logFiles \in SUBSET Nat
  BY BasesNat DEF Inv, TypeOK
<1>2. Serves(segs, files)
  BY LoadedServes
<1>3. /\ Len(segs) \in Nat /\ HeadAt(files, indexData, LoadedHead)
      /\ segs[1].baseOffset \in files /\ \A b \in files : segs[1].baseOffset <= b
      /\ segs[1].baseOffset \in Nat /\ LoadedHead \in Nat
      /\ segs[1].baseOffset <= LoadedHead
  <2> HIDE DEF segs, files
  <2>1. /\ Len(segs) \in Nat /\ HeadAt(files, indexData, segs[Len(segs)].nextOffset)
        /\ segs[1].baseOffset \in files /\ \A b \in files : segs[1].baseOffset <= b
        /\ segs[1].baseOffset \in Nat /\ segs[Len(segs)].nextOffset \in Nat
        /\ segs[1].baseOffset <= segs[Len(segs)].nextOffset
    BY <1>1, <1>2, ServedEnds
  <2> QED BY <2>1, Zenon DEF LoadedHead, segs
<1>4. segs[1].baseOffset = trimmed
  <2>1. trimmed \in files /\ \A b \in files : trimmed <= b
    BY <1>1 DEF InService, TrimmedIsFirst, LoadedFiles
  <2>2. trimmed <= segs[1].baseOffset /\ segs[1].baseOffset <= trimmed
    BY <1>3, <2>1, Zenon
  <2> HIDE DEF segs
  <2> QED BY <1>1, <1>3, <2>2
<1>5. View(ShownLog, acked, trimmed, LoadedHead)
  <2>1. PICK f : IsConcat(f, Len(segs), Pages(segs)) /\ ShownLog = f[Len(segs)]
    BY <1>3, ShownLogIs
  <2> HIDE DEF segs, files
  <2>2. View(f[Len(segs)], acked, segs[1].baseOffset, segs[Len(segs)].nextOffset)
    BY <1>1, <1>2, <2>1, PagesView, Zenon
  <2> QED BY <1>4, <2>1, <2>2, Zenon DEF LoadedHead, segs
<1> QED BY <1>1, <1>3, <1>4, <1>5, Zenon DEF ShowsHistory

\* A step that changes neither the history nor the head is invisible.
LEMMA Invisible ==
  ASSUME ShowsHistory, ShowsHistory', OffsetsUnique, UNCHANGED <<acked, trimmed>>,
         LoadedHead' = LoadedHead
  PROVE  UNCHANGED Abstract!vars
<1>1. UniqueOffsetsIn(acked)
  BY DEF OffsetsUnique, UniqueOffsetsIn
<1>2. /\ LoadedSegments[1].baseOffset = trimmed /\ LoadedSegments'[1].baseOffset = trimmed
      /\ trimmed \in Nat /\ LoadedHead \in Nat /\ trimmed <= LoadedHead
      /\ View(ShownLog, acked, trimmed, LoadedHead)
      /\ View(ShownLog', acked, trimmed, LoadedHead)
  BY DEF ShowsHistory
<1>3. trimmed + 0 = trimmed /\ 0 \in Nat
  BY <1>2
<1>4. View(ShownLog', acked, trimmed + 0, LoadedHead) /\ trimmed + 0 <= LoadedHead
  BY <1>2, <1>3
<1>5. CutBy(ShownLog, ShownLog', acked, trimmed, LoadedHead, 0)
  BY <1>1, <1>2, <1>3, <1>4 DEF CutBy
<1>6. ShownLog' = ShownLog
  BY <1>5, CutView, Zenon
<1> QED BY <1>2, <1>6 DEF Abstract!vars

\* Opening and closing a log are invisible.
LEMMA ReopenInvisible ==
  ASSUME Inv, ShowsHistory, ShowsHistory', NewLog \/ Close
  PROVE  UNCHANGED Abstract!vars
<1>1. UNCHANGED <<acked, trimmed, indexData>> /\ OffsetsUnique
  BY DEF NewLog, Close, disk, history, Inv
<1>2. LoadedFiles' = LoadedFiles
  <2>1. CASE Close
    BY <2>1 DEF Close, disk, LoadedFiles
  <2>2. CASE NewLog
    BY <2>2 DEF NewLog, disk, LoadedFiles
  <2> QED BY <2>1, <2>2
<1>3. LoadedFiles \in SUBSET Nat
  BY BasesNat DEF LoadedFiles, Inv, TypeOK
<1>4. HeadAt(LoadedFiles, indexData, LoadedHead) /\ HeadAt(LoadedFiles, indexData, LoadedHead')
  BY <1>1, <1>2 DEF ShowsHistory
<1>5. LoadedHead' = LoadedHead
  BY <1>3, <1>4, HeadUnique
<1> QED BY <1>1, <1>5, Invisible

\* Append and AppendBatch add the records of the call at the end.
LEMMA AppendExtends ==
  ASSUME Inv, OffsetsUnique', ShowsHistory, ShowsHistory', NEW recs, Batch(recs), NEW ts \in Nat,
         AppendRecords(recs, ts)
  PROVE  Abstract!Extend(Len(recs))
<1> DEFINE n == Len(segments)
           seg == AfterWrite(recs)
           base == seg.nextOffset
           kept == [segments EXCEPT ![n] = seg]
           new == Opened(base, logData[base], indexData[base])
<1>1. /\ CanAppend(recs) /\ status = "open" /\ status' = "open"
      /\ acked' = acked \cup Acks(recs) /\ trimmed' = trimmed
  BY DEF AppendRecords, CanAppend
<1>2. LoadedSegments = segments /\ LoadedSegments' = segments'
  BY <1>1 DEF LoadedSegments
<1>3. /\ segments \in Seq(SegmentType) /\ n \in Nat /\ n \in 1..n /\ Len(recs) \in Nat
      /\ Active.nextOffset \in Nat
  BY <1>1, OpenFacts DEF Inv, TypeOK, Batch
<1>4. /\ seg \in SegmentType /\ base = Active.nextOffset + Len(recs) /\ base \in Bases
      /\ base \in Nat /\ indexData[base] = << >>
  BY <1>1, AfterWriteFacts, BasesNat
<1>5. segments' = kept \/ segments' = Append(kept, new)
  BY DEF AppendRecords
<1> HIDE DEF seg
<1>6. kept \in Seq(SegmentType) /\ Len(kept) = n /\ kept[n] = seg
  BY <1>3, <1>4, ExceptSeq
<1>7. new \in SegmentType /\ new.nextOffset = base
  <2>1. logData[base] \in Seq(Cell) /\ indexData[base] \in Seq(IndexEntry)
    BY <1>4 DEF Inv, TypeOK
  <2>2. new \in SegmentType
    BY <1>4, <2>1, OpenedType
  <2>3. new.nextOffset = base
    BY <1>4 DEF Opened
  <2> QED BY <2>2, <2>3
<1> HIDE DEF kept, new
<1>8. LoadedHead' = base
  <2>1. CASE segments' = kept
    BY <1>2, <1>6, <2>1 DEF LoadedHead
  <2>2. CASE segments' = Append(kept, new)
    <3>1. Len(segments') = n + 1 /\ segments'[n + 1] = new
      BY <1>6, <1>7, <2>2, AppendProperties
    <3> QED BY <1>2, <1>7, <3>1, Zenon DEF LoadedHead
  <2> QED BY <1>5, <2>1, <2>2
<1>9. LoadedHead = Active.nextOffset
  BY <1>2 DEF LoadedHead, Active
<1>10. LoadedHead' = LoadedHead + Len(recs)
  BY <1>4, <1>8, <1>9
<1>11. /\ LoadedSegments[1].baseOffset = trimmed /\ LoadedSegments'[1].baseOffset = trimmed
       /\ trimmed \in Nat /\ LoadedHead \in Nat /\ trimmed <= LoadedHead
       /\ View(ShownLog, acked, trimmed, LoadedHead)
       /\ View(ShownLog', acked', trimmed, LoadedHead + Len(recs))
  BY <1>1, <1>10 DEF ShowsHistory
<1>12. UniqueOffsetsIn(acked') /\ acked \subseteq acked'
  BY <1>1 DEF OffsetsUnique, UniqueOffsetsIn
<1>13. /\ ShownLog' \in [1..(Len(ShownLog) + Len(recs)) -> Visible]
       /\ SubSeq(ShownLog', 1, Len(ShownLog)) = ShownLog
  <2>1. GrownBy(ShownLog, acked, trimmed, LoadedHead, ShownLog', acked', Len(recs))
    BY <1>3, <1>11, <1>12 DEF GrownBy
  <2> QED BY <2>1, GrownView, Zenon
<1> QED BY <1>11, <1>13, Zenon DEF Abstract!Extend, Visible

\* EnforceRetention drops the records of the segments it deletes, or nothing.
LEMMA RetentionTrims ==
  ASSUME Inv, ShowsHistory, ShowsHistory', NEW k, NEW bytes, NEW cutoff, NEW junk,
         EnforceRetention(k, bytes, cutoff, junk)
  PROVE  (\E n \in 1..Len(ShownLog) : Abstract!Trim(n)) \/ UNCHANGED Abstract!vars
<1> DEFINE n == Len(segments)
           gone == trimmed' - trimmed
<1>1. /\ status = "open" /\ status' = "open" /\ k \in 0..(n - 1) /\ acked' = acked
      /\ segments' = SubSeq(segments, k + 1, n) /\ trimmed' = segments[k+1].baseOffset
  BY DEF EnforceRetention, Removes
<1>2. LoadedSegments = segments /\ LoadedSegments' = segments'
  BY <1>1 DEF LoadedSegments
<1>3. n \in Nat /\ n >= 1 /\ k \in Nat /\ k <= n - 1 /\ Tiled(segments)
  BY <1>1, OpenFacts, TiledSegments
<1>4. Len(segments') = n - k /\ \A i \in 1..(n - k) : segments'[i] = segments[k + i]
  BY <1>1, <1>3, TiledSuffix
<1>5. LoadedHead' = LoadedHead
  <2>1. n - k \in 1..(n - k) /\ k + (n - k) = n
    BY <1>3
  <2>2. segments'[n - k] = segments[n]
    BY <1>4, <2>1, Zenon
  <2> QED BY <1>2, <1>4, <2>2, Zenon DEF LoadedHead
<1>6. /\ LoadedSegments[1].baseOffset = trimmed /\ LoadedSegments'[1].baseOffset = trimmed'
      /\ trimmed \in Nat /\ trimmed' \in Nat /\ LoadedHead \in Nat /\ trimmed' <= LoadedHead
      /\ View(ShownLog, acked, trimmed, LoadedHead)
      /\ View(ShownLog', acked, trimmed', LoadedHead)
  BY <1>1, <1>5 DEF ShowsHistory
<1>7. UniqueOffsetsIn(acked)
  BY DEF Inv, OffsetsUnique, UniqueOffsetsIn
<1>8. gone \in Nat /\ trimmed + gone = trimmed'
  <2>1. segments[1].baseOffset = trimmed
    BY <1>2, <1>6, Zenon
  <2>2. 1 \in 1..n /\ k + 1 \in 1..n /\ (k + 1 = 1 \/ 1 < k + 1)
    BY <1>3
  <2>3. 1 < k + 1 => segments[1].baseOffset < segments[k+1].baseOffset
    BY <1>3, <2>2, Zenon DEF Tiled
  <2>4. k + 1 = 1 => segments[1].baseOffset = segments[k+1].baseOffset
    BY Zenon
  <2>5. trimmed <= trimmed'
    <3>1. segments[k+1].baseOffset = trimmed' /\ trimmed \in Nat /\ trimmed' \in Nat
      BY <1>1, <1>6
    <3>2. trimmed < trimmed' \/ trimmed = trimmed'
      BY <2>1, <2>2, <2>3, <2>4, <3>1, Zenon
    <3> QED BY <3>1, <3>2
  <2>6. trimmed \in Nat /\ trimmed' \in Nat
    BY <1>6
  <2>7. \A x, y \in Nat : x <= y => y - x \in Nat /\ x + (y - x) = y
    OBVIOUS
  <2> QED BY <2>5, <2>6, <2>7, Zenon
<1> HIDE DEF gone
<1>9. /\ gone <= Len(ShownLog) /\ Len(ShownLog) \in Nat
      /\ ShownLog' = SubSeq(ShownLog, gone + 1, Len(ShownLog))
      /\ gone = 0 => ShownLog' = ShownLog
  <2>1. trimmed + gone <= LoadedHead /\ View(ShownLog', acked, trimmed + gone, LoadedHead)
    BY <1>6, <1>8
  <2>2. CutBy(ShownLog, ShownLog', acked, trimmed, LoadedHead, gone)
    BY <1>6, <1>7, <1>8, <2>1 DEF CutBy
  <2> QED BY <2>2, CutView, Zenon
<1>10. LoadedSegments'[1].baseOffset = LoadedSegments[1].baseOffset + gone
  BY <1>6, <1>8
<1>11. CASE gone = 0
  <2>1. LoadedSegments'[1].baseOffset = LoadedSegments[1].baseOffset
    BY <1>6, <1>10, <1>11
  <2> QED BY <1>9, <1>11, <2>1 DEF Abstract!vars
<1>12. CASE gone # 0
  <2>1. gone \in 1..Len(ShownLog)
    BY <1>8, <1>9, <1>12
  <2>2. Abstract!Trim(gone)
    BY <1>9, <1>10 DEF Abstract!Trim
  <2> QED BY <2>1, <2>2, Zenon
<1> QED BY <1>11, <1>12

\* A log in service implements PartitionLog: for its clients, appends add
\* records at the end, retention drops records at the front, and nothing else
\* is visible, restarts included.
THEOREM PartitionLogImplemented == ServeSpec => ImplementsPartitionLog
<1>1. Inv /\ InService => ShowsHistory
  BY HistoryShown
<1>2. Init /\ ShowsHistory => Abstract!Init
  <2> SUFFICES ASSUME Init, ShowsHistory PROVE Abstract!Init
    OBVIOUS
  <2>1. logFiles = {} /\ trimmed = 0 /\ indexData[0] = << >> /\ LoadedFiles = {0}
    BY BasesNat DEF Init, LoadedFiles
  <2>2. LoadedHead = 0
    BY <2>1 DEF ShowsHistory, HeadAt
  <2>3. ShownLog \in Seq(Visible) /\ Len(ShownLog) = 0 - 0
    BY <2>1, <2>2 DEF ShowsHistory, View
  <2>4. ShownLog = << >>
    <3> HIDE DEF Visible
    <3> QED BY <2>3
  <2> QED BY <2>1, <2>4 DEF ShowsHistory, Abstract!Init
<1>3. Inv /\ Inv' /\ ShowsHistory /\ ShowsHistory' /\ [Serve]_vars => [Abstract!Next]_(Abstract!vars)
  <2> SUFFICES ASSUME Inv, Inv', ShowsHistory, ShowsHistory', [Serve]_vars
               PROVE  Abstract!Next \/ UNCHANGED Abstract!vars
    OBVIOUS
  <2>1. CASE NewLog \/ Close
    BY <2>1, ReopenInvisible
  <2>2. OffsetsUnique'
    BY DEF Inv
  <2>3. CASE \E r \in Records, ts \in Times : AppendOne(r, ts)
    <3>1. PICK r \in Records, ts \in Times : AppendRecords(<<r>>, ts)
      BY <2>3 DEF AppendOne
    <3>2. Batch(<<r>>) /\ ts \in Nat /\ Len(<<r>>) = 1
      BY BatchesAre
    <3>3. Abstract!Extend(1)
      BY <2>2, <3>1, <3>2, AppendExtends
    <3> QED BY <3>3 DEF Abstract!Next
  <2>4. CASE \E recs \in Batches, ts \in Times : AppendBatch(recs, ts)
    <3>1. PICK recs \in Batches, ts \in Times : AppendRecords(recs, ts)
      BY <2>4 DEF AppendBatch
    <3>2. Batch(recs) /\ ts \in Nat
      BY BatchesAre
    <3>3. Len(recs) \in BatchSizes
      <4>1. PICK n \in BatchSizes : recs \in [1..n -> Records]
        BY DEF Batches
      <4>2. n \in Nat
        BY CommitLogAssumption
      <4> QED BY <4>1, <4>2
    <3>4. Abstract!Extend(Len(recs))
      BY <2>2, <3>1, <3>2, AppendExtends
    <3> QED BY <3>3, <3>4 DEF Abstract!Next
  <2>5. CASE \E bytes \in RetentionSizes, cutoff \in Cutoffs, junk \in Times :
               \E k \in 0..Len(segments) : EnforceRetention(k, bytes, cutoff, junk)
    <3>1. (\E n \in 1..Len(ShownLog) : Abstract!Trim(n)) \/ UNCHANGED Abstract!vars
      BY <2>5, RetentionTrims
    <3> QED BY <3>1 DEF Abstract!Next
  <2>6. CASE UNCHANGED vars
    <3>1. UNCHANGED <<segments, status, logFiles, logData, indexData, acked, trimmed>>
      BY <2>6 DEF vars
    <3>2. LoadedSegments' = LoadedSegments
      BY <3>1 DEF LoadedSegments, LoadSegments, SortedBases, IsSorted
    <3>3. LoadedHead' = LoadedHead
      BY <3>2, Zenon DEF LoadedHead
    <3> QED BY <3>1, <3>3, Invisible DEF Inv
  <2> QED BY <2>1, <2>3, <2>4, <2>5, <2>6 DEF Serve
<1> QED BY <1>1, <1>2, <1>3, ServeInvariance, PTL DEF ServeSpec, ImplementsPartitionLog, Abstract!Spec

=============================================================================
