----------------------------- MODULE CommitLog -----------------------------
(***************************************************************************)
(* The commit log of one topic partition (internal/log/log.go) over its    *)
(* segment files.  Every operation of Log holds l.mu for its whole body,   *)
(* so one call is one action.  What can be seen half done is the directory *)
(* on disk, when a write fails or the process dies: the actions ending in  *)
(* "Fails" return an error to the caller with part of the work on disk,    *)
(* the ones ending in "Crash" leave the same disk and no process.          *)
(*                                                                         *)
(* A crash is the death of the process (docker stop, kill): what write()   *)
(* returned stays in the page cache.  Power loss is not modelled.          *)
(***************************************************************************)
EXTENDS Segment, FiniteSets

CONSTANTS
  MaxSegmentSize,   \* Log.maxSegmentSize, in cells
  BatchSizes,       \* lengths of the batches given to AppendBatch
  Times,            \* timestamps a record may carry
  RetentionSizes,   \* retentionBytes arguments; 0 disables the policy
  Cutoffs,          \* now - retentionMs; 0 disables the policy
  MaxOffset,        \* bound: offsets assigned are below MaxOffset
  MaxFaults         \* bound: failed writes and crashes in one behaviour

ASSUME CommitLogAssumption ==
  /\ MaxSegmentSize \in Nat \ {0}
  /\ BatchSizes \subseteq Nat \ {0}
  /\ Times \subseteq Nat
  /\ RetentionSizes \subseteq Nat
  /\ Cutoffs \subseteq Nat
  /\ MaxOffset \in Nat
  /\ MaxFaults \in Nat

VARIABLES
  \* the Log object
  segments,     \* Log.segments
  compressed,   \* Log.compressed, which SetCompressed also stores in each segment
  status,       \* "open" while a Log exists for the directory, else "closed"
  \* the partition directory
  logFiles,     \* base offsets for which <base>.log exists
  indexFiles,   \* base offsets for which <base>.index exists
  logData,      \* contents of the .log files
  indexData,    \* contents of the .index files
  \* history
  acked,        \* offsets returned to callers, each with the record appended
  trimmed,      \* every offset below this was given up to retention
  crashes,      \* number of times the process died inside an operation
  writeErrors   \* number of operations that returned an I/O error

memory  == <<segments, compressed, status>>
disk    == <<logFiles, indexFiles, logData, indexData>>
history == <<acked, trimmed>>
faults  == <<crashes, writeErrors>>
vars    == <<segments, compressed, status, logFiles, indexFiles, logData,
             indexData, acked, trimmed, crashes, writeErrors>>

Bases == 0..MaxOffset

TypeOK ==
  /\ segments \in Seq(SegmentType)
  /\ compressed \in BOOLEAN
  /\ status \in {"open", "closed"}
  /\ logFiles \subseteq Bases
  /\ indexFiles \subseteq Bases
  /\ logData \in [Bases -> Seq(Cell)]
  /\ indexData \in [Bases -> Seq(IndexEntry)]
  /\ acked \subseteq [offset : Nat, rec : Records]
  /\ trimmed \in Nat
  /\ crashes \in Nat
  /\ writeErrors \in Nat

Init ==
  /\ segments = << >>
  /\ compressed = FALSE
  /\ status = "closed"
  /\ logFiles = {}
  /\ indexFiles = {}
  /\ logData = [b \in Bases |-> << >>]
  /\ indexData = [b \in Bases |-> << >>]
  /\ acked = {}
  /\ trimmed = 0
  /\ crashes = 0
  /\ writeErrors = 0

Active == segments[Len(segments)]
NextOffset == Active.nextOffset

(***************************************************************************)
(* NewLog.  A directory with a .log file that has no .index file, or a     *)
(* pair of which exactly one file is empty, is refused; the caller may try *)
(* again and finds the same directory.                                     *)
(***************************************************************************)
Loadable ==
  /\ logFiles \subseteq indexFiles
  /\ \A b \in logFiles : Openable(logData[b], indexData[b])
  /\ logFiles = {} => indexData[0] = << >>   \* NewSegment(dir, 0) on a new 0.log

\* Mutant: the directory order is kept.
IsListed(bases) == {bases[i] : i \in DOMAIN bases} = logFiles

IsSorted(bases) ==
  /\ {bases[i] : i \in DOMAIN bases} = logFiles
  /\ \A i, j \in DOMAIN bases : i < j => bases[i] < bases[j]

\* The segments in base-offset order; nextOffset of all but the last is then
\* overwritten with the base offset of the segment that follows.
LoadSegments(bases) ==
  [i \in 1..Len(bases) |->
     LET opened == Opened(bases[i], logData[bases[i]], indexData[bases[i]])
     IN  IF i < Len(bases) THEN [opened EXCEPT !.nextOffset = bases[i+1]]
                           ELSE opened]

NewLog ==
  /\ status = "closed"
  /\ Loadable
  /\ status' = "open"
  /\ compressed' = FALSE
  /\ \/ /\ logFiles # {}
        /\ \E bases \in [1..Cardinality(logFiles) -> logFiles] :
             IsSorted(bases) /\ segments' = LoadSegments(bases)
        /\ UNCHANGED disk
     \/ /\ logFiles = {}
        /\ segments' = <<Opened(0, << >>, << >>)>>
        /\ logFiles' = {0}
        /\ indexFiles' = indexFiles \cup {0}
        /\ UNCHANGED <<logData, indexData>>
  /\ UNCHANGED <<history, faults>>

\* NewLog returns an error and leaves the directory as it is.
NewLogRefused ==
  /\ status = "closed"
  /\ ~Loadable
  /\ UNCHANGED vars

\* In an empty directory NewSegment created 0.log and then failed or died
\* before 0.index.
NewLogCrash ==
  /\ status = "closed"
  /\ logFiles = {}
  /\ logFiles' = {0}
  /\ UNCHANGED <<memory, indexFiles, logData, indexData, history>>

(***************************************************************************)
(* Append and AppendBatch: the block goes to the active segment's .log and *)
(* .index files, then a full segment is followed by a new one.             *)
(***************************************************************************)
CanAppend(recs) ==
  /\ status = "open"
  /\ NextOffset + Len(recs) <= MaxOffset

\* The files after k cells of the block and j of its index entries.
WriteBlock(recs, ts, k, j) ==
  LET b     == Active.baseOffset
      block == LogBlock(Active, recs, ts, compressed)
      index == IndexBlock(Active, recs, compressed)
  IN  /\ logData' = [logData EXCEPT ![b] = @ \o SubSeq(block, 1, k)]
      /\ indexData' = [indexData EXCEPT ![b] = @ \o SubSeq(index, 1, j)]

WriteAll(recs, ts) ==
  WriteBlock(recs, ts, Len(LogBlock(Active, recs, ts, compressed)), Len(recs))

AfterWrite(recs) == Written(Active, recs, compressed)
SegmentFull(seg) == seg.size >= MaxSegmentSize

\* Mutant: the caller is told the offset before its record.
AcksOffByOne(recs) ==
  {[offset |-> NextOffset + i - 2, rec |-> recs[i]] : i \in DOMAIN recs}

\* The offsets returned to the caller.
Acks(recs) == {[offset |-> NextOffset + i - 1, rec |-> recs[i]] : i \in DOMAIN recs}

AppendRecords(recs, ts) ==
  /\ CanAppend(recs)
  /\ WriteAll(recs, ts)
  /\ LET seg  == AfterWrite(recs)
         base == seg.nextOffset
         kept == [segments EXCEPT ![Len(segments)] = seg]
     IN  \/ /\ ~SegmentFull(seg)
            /\ segments' = kept
            /\ UNCHANGED <<logFiles, indexFiles>>
         \/ /\ SegmentFull(seg)
            /\ Openable(logData[base], indexData[base])
            /\ segments' = Append(kept, Opened(base, logData[base], indexData[base]))
            /\ logFiles' = logFiles \cup {base}
            /\ indexFiles' = indexFiles \cup {base}
  /\ acked' = acked \cup Acks(recs)
  /\ UNCHANGED <<compressed, status, trimmed, faults>>

AppendOne(r, ts) == AppendRecords(<<r>>, ts)
AppendBatch(recs, ts) == AppendRecords(recs, ts)

\* The writes stop part of the way: a prefix of the log block and no index
\* entry, or the whole log block and some of the index entries.
StoppedWrite(recs, ts) ==
  LET all == Len(LogBlock(Active, recs, ts, compressed))
  IN  \/ \E k \in 0..(all - 1) : WriteBlock(recs, ts, k, 0)
      \/ \E j \in 0..(Len(recs) - 1) : WriteBlock(recs, ts, all, j)

AppendFails(recs, ts) ==
  /\ CanAppend(recs)
  /\ StoppedWrite(recs, ts)
  /\ UNCHANGED <<memory, logFiles, indexFiles, history>>

AppendCrash(recs, ts) ==
  /\ CanAppend(recs)
  /\ StoppedWrite(recs, ts) \/ WriteAll(recs, ts)
  /\ status' = "closed"
  /\ segments' = << >>
  /\ UNCHANGED <<compressed, logFiles, indexFiles, history>>

\* The records are written but NewSegment stops before creating the new .log
\* file, between the .log and the .index or behind them: the caller gets an error
\* and the full segment stays the active one.
StoppedRoll(recs, ts) ==
  /\ CanAppend(recs)
  /\ SegmentFull(AfterWrite(recs))
  /\ WriteAll(recs, ts)
  /\ logFiles' \in {logFiles, logFiles \cup {AfterWrite(recs).nextOffset}}
  /\ indexFiles' \in {indexFiles} \cup {indexFiles \cup {b} : b \in logFiles' \ logFiles}
  /\ UNCHANGED <<compressed, history>>

RollFails(recs, ts) ==
  /\ StoppedRoll(recs, ts)
  /\ segments' = [segments EXCEPT ![Len(segments)] = AfterWrite(recs)]
  /\ UNCHANGED status

RollCrash(recs, ts) ==
  /\ StoppedRoll(recs, ts)
  /\ segments' = << >>
  /\ status' = "closed"

(***************************************************************************)
(* EnforceRetention removes segments from the front while the policy says  *)
(* so, never the last one.  StopsAt(k) is the loop's exit with k segments  *)
(* removed: an unreadable newest timestamp, or neither policy applies.     *)
(***************************************************************************)
SizeOfLast(k) ==
  LET total[i \in 0..k] ==
        IF i = 0 THEN 0 ELSE total[i-1] + segments[Len(segments) - i + 1].size
  IN  total[k]

StopsAt(k, bytes, cutoff, junk) ==
  LET seg   == segments[k+1]
      b     == seg.baseOffset
      timed == cutoff > 0 /\ seg.size > 0
  IN  \/ timed /\ NewestTimestampFails(seg)
      \/ /\ ~(bytes > 0 /\ SizeOfLast(Len(segments) - k) > bytes)
         /\ ~(/\ timed /\ ~NewestTimestampFails(seg)
              /\ NewestTimestamp(seg, logData[b], indexData[b], junk) < cutoff)

Removes(k, bytes, cutoff, junk) ==
  /\ status = "open"
  /\ Len(segments) > 1
  /\ bytes > 0 \/ cutoff > 0
  /\ k \in 0..(Len(segments) - 1)
  /\ k = Len(segments) - 1 \/ StopsAt(k, bytes, cutoff, junk)
  /\ \A j \in 0..(k - 1) : ~StopsAt(j, bytes, cutoff, junk)

\* Mutants: nothing is unlinked; only the .index files are.
UnlinkNothing(k, k2) == UNCHANGED disk

UnlinkIndexOnly(k, k2) ==
  /\ indexFiles' = indexFiles \ {segments[i].baseOffset : i \in 1..k}
  /\ UNCHANGED <<logFiles, logData, indexData>>

\* Files after the first k segments and, with k2 = k + 1, the .log of one more.
Unlink(k, k2) ==
  LET logsGone  == {segments[i].baseOffset : i \in 1..k2}
      indexGone == {segments[i].baseOffset : i \in 1..k}
  IN  /\ logFiles' = logFiles \ logsGone
      /\ indexFiles' = indexFiles \ indexGone
      /\ logData' = [b \in Bases |-> IF b \in logsGone THEN << >> ELSE logData[b]]
      /\ indexData' = [b \in Bases |-> IF b \in indexGone THEN << >> ELSE indexData[b]]

EnforceRetention(k, bytes, cutoff, junk) ==
  /\ Removes(k, bytes, cutoff, junk)
  /\ Unlink(k, k)
  /\ segments' = SubSeq(segments, k + 1, Len(segments))
  /\ trimmed' = segments[k+1].baseOffset
  /\ UNCHANGED <<compressed, status, acked, faults>>

\* Delete stops in the segment after the first j: its handles are closed, and
\* its .log may be gone while its .index is not.
StoppedRetention(k, j, j2, bytes, cutoff, junk) ==
  /\ Removes(k, bytes, cutoff, junk)
  /\ j < k
  /\ j2 \in {j, j + 1}
  /\ Unlink(j, j2)
  /\ trimmed' = segments[j+2].baseOffset
  /\ UNCHANGED <<compressed, acked>>

RetentionFails(k, j, j2, bytes, cutoff, junk) ==
  /\ StoppedRetention(k, j, j2, bytes, cutoff, junk)
  /\ segments' = [SubSeq(segments, j + 1, Len(segments)) EXCEPT ![1].open = FALSE]
  /\ UNCHANGED status

RetentionCrash(k, j, j2, bytes, cutoff, junk) ==
  /\ StoppedRetention(k, j, j2, bytes, cutoff, junk)
  /\ segments' = << >>
  /\ status' = "closed"

(***************************************************************************)
(* Reads.  sort.Search finds the last segment whose base offset is at most *)
(* the offset asked for.                                                   *)
(***************************************************************************)
BeforeLog(offset) == offset < segments[1].baseOffset

\* Mutant: the search predicate is >= instead of >.
SegmentBeforeOffset(offset) ==
  CHOOSE i \in DOMAIN segments :
    /\ segments[i].baseOffset < offset \/ i = 1
    /\ i = Len(segments) \/ segments[i+1].baseOffset >= offset

SegmentForOffset(offset) ==
  CHOOSE i \in DOMAIN segments :
    /\ segments[i].baseOffset <= offset
    /\ i = Len(segments) \/ segments[i+1].baseOffset > offset

ReadAt(i, offset) ==
  LET b == segments[i].baseOffset
  IN  ReadSegment(segments[i], logData[b], indexData[b], compressed, offset)

Read(offset) ==
  IF BeforeLog(offset) THEN ReadError
  ELSE ReadAt(SegmentForOffset(offset), offset)

\* ReadBatch collects messages until max, a read that fails, or the end of
\* the last segment.  A position at or past the end of a segment that is not
\* the last would make the loop spin under the read lock.
ReadBatchEnd(offset, max) ==
  LET end[left \in 0..max] ==
        LET cur == offset + max - left
            i   == SegmentForOffset(cur)
        IN  IF left = 0 THEN [at |-> cur, spins |-> FALSE]
            ELSE IF cur < segments[i].nextOffset
                 THEN IF ReadAt(i, cur).outcome = "ok" THEN end[left - 1]
                      ELSE [at |-> cur, spins |-> FALSE]
            ELSE [at |-> cur, spins |-> i < Len(segments)]
  IN  end[max]

\* Mutant: only the active segment is looked at.
LatestOfActive == IF NextOffset > Active.baseOffset THEN NextOffset - 1 ELSE 0

\* LatestOffset: the last offset of the last segment that is not empty, or 0.
LatestOffset ==
  LET nonEmpty == {i \in DOMAIN segments :
                     segments[i].nextOffset > segments[i].baseOffset}
      last     == CHOOSE i \in nonEmpty : \A j \in nonEmpty : j <= i
  IN  IF nonEmpty = {} THEN 0 ELSE segments[last].nextOffset - 1

(***************************************************************************)
(* Compact.  Every record of the segments before the active one must be    *)
(* readable, or nothing happens.  compactSegment then closes the segment,  *)
(* which sets its file handles to nil, and copies the records it finds     *)
(* through segment.readIndexEntry: on the nil handle the first such read   *)
(* fails, the temporary files are removed and Compact returns the error.   *)
(* A segment without index entries is replaced by an equal, empty pair.    *)
(***************************************************************************)
\* The scan of collectLatestOffsets, from the last entry of the last segment
\* before the active one down to the first: where reads do not succeed.
ScanStops ==
  {p \in (1..(Len(segments) - 1)) \X (1..(2 * MaxOffset)) :
     LET i == p[1]  e == p[2]  b == segments[i].baseOffset
     IN  \/ ~segments[i].open
         \/ /\ e \in DOMAIN indexData[b]
            /\ ReadAt(i, indexData[b][e].offset).outcome # "ok"}

\* A read that panics is the first thing that goes wrong: the process dies.
ScanPanics ==
  \E p \in ScanStops :
    /\ \A q \in ScanStops : q[1] < p[1] \/ (q[1] = p[1] /\ q[2] <= p[2])
    /\ segments[p[1]].open
    /\ ReadAt(p[1], indexData[segments[p[1]].baseOffset][p[2]].offset) = ReadPanic

CompactTarget(i) ==
  /\ segments[i].nextOffset > segments[i].baseOffset
  /\ indexData[segments[i].baseOffset] # << >>

\* Mutant: the active segment is compacted too.
CompactAll ==
  /\ status = "open"
  /\ ScanStops = {}
  /\ \E i \in DOMAIN segments :
       CompactTarget(i) /\ segments' = [segments EXCEPT ![i].open = FALSE]
  /\ UNCHANGED <<compressed, status, disk, history, faults>>

Compact ==
  /\ status = "open"
  /\ Len(segments) > 1
  /\ ScanStops = {}
  /\ \E i \in 1..(Len(segments) - 1) :
       /\ CompactTarget(i)
       /\ \A j \in 1..(i - 1) : ~CompactTarget(j)
       /\ segments' = [segments EXCEPT ![i].open = FALSE]
  /\ UNCHANGED <<compressed, status, disk, history, faults>>

CompactPanics ==
  /\ status = "open"
  /\ Len(segments) > 1
  /\ ScanPanics
  /\ status' = "closed"
  /\ segments' = << >>
  /\ UNCHANGED <<compressed, disk, history, faults>>

(***************************************************************************)
(* SetCompressed switches the encoding of what is written and of what is   *)
(* read back, for old records too.  Close ends the Log object.             *)
(***************************************************************************)
SetCompressed(flag) ==
  /\ status = "open"
  /\ compressed' = flag
  /\ UNCHANGED <<segments, status, disk, history, faults>>

Close ==
  /\ status = "open"
  /\ status' = "closed"
  /\ segments' = << >>
  /\ UNCHANGED <<compressed, disk, history, faults>>

(***************************************************************************)
(* The next-state relations: the log in service, the maintenance that      *)
(* changes how it is read, and failures.                                   *)
(***************************************************************************)
Batches == UNION {[1..n -> Records] : n \in BatchSizes}

Serve ==
  \/ NewLog
  \/ Close
  \/ \E r \in Records, ts \in Times : AppendOne(r, ts)
  \/ \E recs \in Batches, ts \in Times : AppendBatch(recs, ts)
  \/ \E bytes \in RetentionSizes, cutoff \in Cutoffs, junk \in Times :
       \E k \in 0..Len(segments) : EnforceRetention(k, bytes, cutoff, junk)

Toggle == \E flag \in BOOLEAN : SetCompressed(flag)

MayFail == crashes + writeErrors < MaxFaults

Crash ==
  /\ MayFail
  /\ crashes' = crashes + 1
  /\ UNCHANGED writeErrors
  /\ \/ NewLogCrash
     \/ \E r \in Records, ts \in Times : AppendCrash(<<r>>, ts)
     \/ \E recs \in Batches, ts \in Times : AppendCrash(recs, ts)
     \/ \E recs \in Batches \cup {<<r>> : r \in Records}, ts \in Times :
          RollCrash(recs, ts)
     \/ \E bytes \in RetentionSizes, cutoff \in Cutoffs, junk \in Times :
          \E k, j, j2 \in 0..Len(segments) :
            RetentionCrash(k, j, j2, bytes, cutoff, junk)

WriteError ==
  /\ MayFail
  /\ writeErrors' = writeErrors + 1
  /\ UNCHANGED crashes
  /\ \/ \E r \in Records, ts \in Times : AppendFails(<<r>>, ts)
     \/ \E recs \in Batches, ts \in Times : AppendFails(recs, ts)
     \/ \E recs \in Batches \cup {<<r>> : r \in Records}, ts \in Times :
          RollFails(recs, ts)
     \/ \E bytes \in RetentionSizes, cutoff \in Cutoffs, junk \in Times :
          \E k, j, j2 \in 0..Len(segments) :
            RetentionFails(k, j, j2, bytes, cutoff, junk)

Next == Serve \/ NewLogRefused \/ Toggle \/ Compact \/ CompactPanics \/ Crash \/ WriteError

\* Everything that can happen to a log.
Spec == Init /\ [][Next]_vars

\* No failure, no compaction, compression off: the ordinary life of a log.
ServeSpec == Init /\ [][Serve]_vars

\* The same with compaction, with failed writes, with crashes and restarts.
CompactSpec == Init /\ [][Serve \/ Compact]_vars
ErrorSpec == Init /\ [][Serve \/ WriteError]_vars
CrashSpec == Init /\ [][Serve \/ NewLogRefused \/ Crash]_vars

(***************************************************************************)
(* Properties.                                                             *)
(***************************************************************************)

\* While the log is open its segments tile the offsets: each one ends where
\* the next begins, so segmentForOffset and the loop of ReadBatch never meet
\* an offset that no segment or two segments claim.
SegmentsContiguous ==
  status = "open" =>
    /\ segments # << >>
    /\ \A i \in DOMAIN segments : segments[i].baseOffset <= segments[i].nextOffset
    /\ \A i \in 1..(Len(segments) - 1) :
         /\ segments[i].baseOffset < segments[i+1].baseOffset
         /\ segments[i].nextOffset = segments[i+1].baseOffset

\* An offset is handed to at most one caller: after any sequence of appends,
\* failed writes, rollovers, retention, crashes and restarts.
OffsetsUnique ==
  \A a, b \in acked : a.offset = b.offset => a = b

\* The next offset to hand out is above every offset handed out before, so an
\* acknowledged offset can never be assigned again.
AckedBelowHead ==
  status = "open" => \A a \in acked : a.offset < NextOffset

\* Retention and compaction leave the write head alone: the active segment
\* has open handles and both of its files are in the directory.
HeadIntact ==
  status = "open" =>
    /\ Active.open
    /\ Active.baseOffset \in logFiles \cap indexFiles

\* Every record whose append returned, and that retention has not removed, is
\* read back at the offset returned.
Holds(a) ==
  LET got == Read(a.offset)
  IN  got.outcome = "ok" /\ got.offset = a.offset /\ got.payload = Payload(a.rec, FALSE)

AckedReadable ==
  status = "open" => \A a \in acked : a.offset >= trimmed => Holds(a)

\* As long as no write has failed and everything was written with the present
\* compression setting, a read of an acknowledged offset may fail, after a crash
\* or a compaction, but never returns another record and never panics.
UniformlyEncoded ==
  \A b \in logFiles : \A i \in DOMAIN logData[b] :
    logData[b][i].kind = "payload" => logData[b][i].zip = compressed

ReadsNeverWrong ==
  status = "open" /\ writeErrors = 0 /\ UniformlyEncoded =>
    \A a \in acked : Read(a.offset).outcome = "error" \/ Holds(a)

\* What clients are told after a failed write is still true: an offset returned
\* by an append reads back as the record appended, or not at all.
ReadsNeverWrongAfterError ==
  status = "open" =>
    \A a \in acked : Read(a.offset).outcome = "error" \/ Holds(a)

\* Compaction keeps the newest record of every key (here a key per record).
LatestPerKeyReadable ==
  status = "open" =>
    \A a \in acked :
      \/ a.offset < trimmed
      \/ \E b \in acked : b.rec = a.rec /\ b.offset > a.offset
      \/ Holds(a)

\* ReadBatch returns every record from a retained offset up to its limit or
\* the head, crossing segment boundaries, and its outer loop always advances.
ReadBatchComplete ==
  status = "open" =>
    \A offset \in trimmed..NextOffset, max \in 1..MaxOffset :
      LET got  == ReadBatchEnd(offset, max)
          want == IF offset + max < NextOffset THEN offset + max ELSE NextOffset
      IN  got.at = want /\ ~got.spins

\* As long as retention has left a record, LatestOffset is the offset of the last
\* one, also when the active segment has just been opened and is empty.
LatestOffsetIsLast ==
  status = "open" /\ trimmed < NextOffset => LatestOffset = NextOffset - 1

\* A directory that the log left behind can be opened again.
ReopenSucceeds == status = "closed" => Loadable

(***************************************************************************)
(* Why offsets stay unique across crashes: the inductive invariant.  The   *)
(* index file of the active segment is never behind the head in memory,    *)
(* and a restart will append to the active segment, or to an empty one     *)
(* that a failed rollover left above every acknowledged offset.            *)
(***************************************************************************)
\* The offset at which NewSegment would continue the segment with base b.
DiskHead(b) == Opened(b, logData[b], indexData[b]).nextOffset

\* A base offset without .index file has no index; entries lie at or above the
\* base offset of their segment.
IndexesInRange ==
  \A b \in Bases :
    /\ b \notin indexFiles => indexData[b] = << >>
    /\ \A e \in 1..Len(indexData[b]) :
         b <= indexData[b][e].offset /\ indexData[b][e].offset < MaxOffset

\* Base offsets increase along the list, not only between neighbours.
BasesIncrease ==
  /\ \A i, j \in DOMAIN segments : i < j => segments[i].baseOffset < segments[j].baseOffset
  /\ \A i \in DOMAIN segments : segments[i].nextOffset <= MaxOffset

\* An empty pair that a failed rollover left above the active segment: that one
\* is full, so no append has returned an offset since.
LeftOver(b) ==
  /\ SegmentFull(Active)
  /\ b \in logFiles /\ indexData[b] = << >>
  /\ b <= NextOffset /\ \A a \in acked : a.offset < b

HeadIsNewest ==
  status = "open" =>
    /\ \A b \in indexFiles : b <= Active.baseOffset \/ LeftOver(b)
    /\ NextOffset <= DiskHead(Active.baseOffset)

\* A directory left behind by Close or by a crash, if it can be loaded at all,
\* is continued above every offset ever acknowledged.
RestartContinues ==
  status = "closed" =>
    /\ segments = << >>
    /\ logFiles = {} => indexFiles = {} /\ acked = {}
    /\ logFiles # {} /\ logFiles \subseteq indexFiles =>
         \E m \in logFiles :
           /\ \A b \in logFiles \cup indexFiles : b <= m
           /\ \A a \in acked : a.offset < DiskHead(m)

Inv ==
  /\ TypeOK
  /\ IndexesInRange
  /\ SegmentsContiguous
  /\ BasesIncrease
  /\ OffsetsUnique
  /\ AckedBelowHead
  /\ HeadIntact
  /\ HeadIsNewest
  /\ RestartContinues

(***************************************************************************)
(* In service, a log implements PartitionLog.  A closed log is what NewLog *)
(* will make of its directory.                                             *)
(***************************************************************************)
SortedBases ==
  CHOOSE bases \in [1..Cardinality(logFiles) -> logFiles] : IsSorted(bases)

LoadedSegments ==
  IF status = "open" THEN segments
  ELSE IF logFiles = {} THEN <<Opened(0, << >>, << >>)>>
  ELSE LoadSegments(SortedBases)

\* What a client sees of one offset, and of all the offsets of the log.
Shown(got) ==
  [outcome |-> got.outcome, payload |-> IF got.outcome = "ok" THEN got.payload ELSE << >>]

ShownSegment(seg) ==
  LET b == seg.baseOffset
  IN  [i \in 1..(seg.nextOffset - b) |->
         Shown(ReadSegment(seg, logData[b], indexData[b], FALSE, b + i - 1))]

ShownLog ==
  LET segs == LoadedSegments
      upto[k \in 0..Len(segs)] ==
        IF k = 0 THEN << >> ELSE upto[k-1] \o ShownSegment(segs[k])
  IN  upto[Len(segs)]

Abstract ==
  INSTANCE PartitionLog WITH
    Records <- {[outcome |-> "ok", payload |-> Payload(r, FALSE)] : r \in Records},
    first   <- LoadedSegments[1].baseOffset,
    content <- ShownLog

\* Every step of a log in service appends one call's records at the end, drops
\* a prefix, or changes nothing a client can see; Close and NewLog are such
\* invisible steps.
ImplementsPartitionLog == Abstract!Spec

=============================================================================
