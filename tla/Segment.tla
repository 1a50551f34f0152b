------------------------------ MODULE Segment ------------------------------
(***************************************************************************)
(* One segment of a partition: the pair of files <base>.log/<base>.index   *)
(* of internal/log/segment.go, as operators on file contents.              *)
(*                                                                         *)
(* A .log file is a sequence of cells of messageHeaderSize bytes: one      *)
(* header cell per record followed by the cells of its payload (payload    *)
(* lengths are multiples of the header's).  A .index file is a sequence of *)
(* (offset, position) entries.  Positions count cells from 0, so the       *)
(* arithmetic on positions and sizes is the arithmetic of the code.        *)
(* Records are opaque; only the length of their payload, raw and Snappy    *)
(* compressed, matters.                                                    *)
(***************************************************************************)
EXTENDS Integers, Sequences

CONSTANTS
  Records,   \* what a client can produce (a key and a value)
  RawLen,    \* RawLen[r]: cells of r's payload as written uncompressed
  ZipLen     \* ZipLen[r]: cells of r's payload after snappy.Encode

ASSUME LengthAssumption ==
  /\ RawLen \in [Records -> Nat]
  /\ ZipLen \in [Records -> Nat \ {0}]

messageHeaderSize == 1

(***************************************************************************)
(* The in-memory Segment.  "open" is FALSE once Close has set the file     *)
(* handles to nil: every read through a nil *os.File fails.                *)
(***************************************************************************)
SegmentType == [ baseOffset   : Nat,
                 nextOffset   : Nat,
                 size         : Nat,
                 indexEntries : Nat,
                 open         : BOOLEAN ]

(***************************************************************************)
(* File contents.                                                          *)
(***************************************************************************)
Cell ==
  [kind : {"header"}, offset : Nat, timestamp : Nat, size : Nat]
    \cup [kind : {"payload"}, rec : Records, zip : BOOLEAN, cell : Nat]

IndexEntry == [offset : Nat, position : Nat]

Header(off, ts, r) ==
  [kind |-> "header", offset |-> off, timestamp |-> ts, size |-> RawLen[r]]

\* The payload cells of r.  Two payloads are equal only if they are the
\* same encoding of the same record.
Payload(r, zip) ==
  [i \in 1..(IF zip THEN ZipLen[r] ELSE RawLen[r]) |->
     [kind |-> "payload", rec |-> r, zip |-> zip, cell |-> i]]

\* snappy.Decode: succeeds only on what snappy.Encode produced.
Decodes(payload) == \E r \in Records : payload = Payload(r, TRUE)
Decode(payload)  == Payload(CHOOSE r \in Records : payload = Payload(r, TRUE), FALSE)

\* A record as it is laid out in the .log file, and its length.
RecordCells(off, ts, r, zip) == <<Header(off, ts, r)>> \o Payload(r, zip)
RecordSize(r, zip) == messageHeaderSize + Len(Payload(r, zip))

\* What AppendBatch (and, for one record, Append) writes to the .log file.
LogBlock(seg, recs, ts, zip) ==
  LET image[i \in 0..Len(recs)] ==
        IF i = 0 THEN << >>
        ELSE image[i-1] \o RecordCells(seg.nextOffset + i - 1, ts, recs[i], zip)
  IN  image[Len(recs)]

\* The length of the first k records of a batch.
SizeOfFirst(k, recs, zip) ==
  LET size[i \in 0..k] == IF i = 0 THEN 0 ELSE size[i-1] + RecordSize(recs[i], zip)
  IN  size[k]

\* Mutant: every record of a batch is indexed at the batch's first position.
IndexBlockSamePosition(seg, recs, zip) ==
  [i \in 1..Len(recs) |-> [offset |-> seg.nextOffset + i - 1, position |-> seg.size]]

\* ... and to the .index file: positions are counted from the cached size.
IndexBlock(seg, recs, zip) ==
  [i \in 1..Len(recs) |-> [ offset   |-> seg.nextOffset + i - 1,
                            position |-> seg.size + SizeOfFirst(i - 1, recs, zip) ]]

\* The segment after a write that succeeded: size, nextOffset and
\* indexEntries are only updated then.
Written(seg, recs, zip) ==
  [ baseOffset   |-> seg.baseOffset,
    nextOffset   |-> seg.nextOffset + Len(recs),
    size         |-> seg.size + SizeOfFirst(Len(recs), recs, zip),
    indexEntries |-> seg.indexEntries + Len(recs),
    open         |-> seg.open ]

(***************************************************************************)
(* NewSegment on files whose contents are log and index: it refuses a pair *)
(* of which exactly one file is empty, and takes nextOffset from the last  *)
(* index entry.  (Index writes are entry-aligned in this model, so the     *)
(* "invalid index file size" check has nothing to refuse.)                 *)
(***************************************************************************)
Openable(log, index) == (log = << >>) <=> (index = << >>)

\* Mutants: the last indexed offset is handed out again; the index is not read.
OpenedAtLast(base, log, index) ==
  [ baseOffset   |-> base,
    nextOffset   |-> IF index = << >> THEN base ELSE index[Len(index)].offset,
    size         |-> Len(log),
    indexEntries |-> Len(index),
    open         |-> TRUE ]

OpenedAtBase(base, log, index) ==
  [OpenedAtLast(base, log, index) EXCEPT !.nextOffset = base]

Opened(base, log, index) ==
  [ baseOffset   |-> base,
    nextOffset   |-> IF index = << >> THEN base ELSE index[Len(index)].offset + 1,
    size         |-> Len(log),
    indexEntries |-> Len(index),
    open         |-> TRUE ]

(***************************************************************************)
(* findMessageBounds: the direct slot offset - baseOffset if it holds the  *)
(* offset, else a binary search over the first indexEntries entries.  The  *)
(* result is a slot counted from 0, or NotFound.                           *)
(***************************************************************************)
NotFound == -1

FindSlot(seg, index, offset) ==
  LET n      == seg.indexEntries
      direct == offset - seg.baseOffset
      search[r \in (0..n) \X (-1..n)] ==
        LET low == r[1]  high == r[2]  mid == low + (high - low) \div 2
        IN  IF low > high THEN NotFound
            ELSE IF index[mid+1].offset = offset THEN mid
            ELSE IF index[mid+1].offset < offset THEN search[<<mid + 1, high>>]
            ELSE search[<<low, mid - 1>>]
  IN  IF direct < n /\ index[direct+1].offset = offset
      THEN direct ELSE search[<<0, n - 1>>]

\* The position just after the record in a slot: the next entry's position,
\* or the cached size for the last entry.
EndPosition(seg, index, slot) ==
  IF slot + 1 < seg.indexEntries THEN index[slot+2].position ELSE seg.size

(***************************************************************************)
(* Read.  The outcome is a message, an error, or "panic": the payload size *)
(* nextPosition - position - 24 is computed in uint64, and when it wraps   *)
(* make([]byte, payloadSize) panics.                                       *)
(***************************************************************************)
ReadError == [outcome |-> "error"]
ReadPanic == [outcome |-> "panic"]
Message(hdr, payload) ==
  [outcome |-> "ok", offset |-> hdr.offset, timestamp |-> hdr.timestamp,
   payload |-> payload]

\* Mutant: the payload length is not compared with the header.
SizeMatchesAlways(hdr, payload) == TRUE

SizeMatches(hdr, payload) == Len(payload) = hdr.size

ReadSegment(seg, log, index, zip, offset) ==
  IF \/ offset < seg.baseOffset \/ offset >= seg.nextOffset
     \/ ~seg.open
     \/ FindSlot(seg, index, offset) = NotFound
  THEN ReadError
  ELSE LET slot == FindSlot(seg, index, offset)
           pos  == index[slot+1].position
           end  == EndPosition(seg, index, slot)
           hdr  == log[pos+1]
           raw  == SubSeq(log, pos + messageHeaderSize + 1, end)
       IN  IF \/ pos >= Len(log)
              \/ hdr.kind # "header"     \* payload bytes never spell this offset
              \/ hdr.offset # offset
           THEN ReadError
           ELSE IF end - pos < messageHeaderSize THEN ReadPanic
           ELSE IF zip /\ ~Decodes(raw) THEN ReadError
           ELSE LET payload == IF zip THEN Decode(raw) ELSE raw
                IN  IF SizeMatches(hdr, payload)
                    THEN Message(hdr, payload) ELSE ReadError

\* NewestTimestamp: the timestamp in the header of the last index entry.  The
\* position it finds may be inside a payload after a failed write; the bytes
\* read there are then some timestamp "junk".
NewestTimestampFails(seg) ==
  seg.nextOffset <= seg.baseOffset \/ seg.indexEntries = 0 \/ ~seg.open

NewestTimestamp(seg, log, index, junk) ==
  LET hdr == log[index[seg.indexEntries].position + 1]
  IN  IF hdr.kind = "header" THEN hdr.timestamp ELSE junk

=============================================================================
