---------------------------- MODULE CommandFrame ----------------------------
(***************************************************************************)
(* The binary frame of a Raft command (internal/raft/fsm.go): what         *)
(* EncodeCommand and EncodeBatchCommand write and the decoder at the head  *)
(* of FSM.Apply reads back.                                                *)
(*                                                                         *)
(* A frame is a sequence of numbers: one element for each byte of a topic, *)
(* key or value and one for each integer field, which keeps its value      *)
(* modulo its width.  The decoder takes whatever stands where it looks.    *)
(***************************************************************************)
EXTENDS Integers, SequencesExt

CONSTANTS
  Bytes,      \* values of a byte
  Limit16,    \* what fits a 16-bit field: 2^16 in the code
  Limit32,    \* what fits a 32-bit field: 2^32
  NameMax,    \* longest topic for which GetPartition can make directories
  DataMax,    \* longest key or value of a request
  CountMax    \* most records of a batch

ASSUME CommandFrameAssumption ==
  /\ Bytes \subseteq Nat
  /\ Limit16 \in Nat /\ Limit32 \in Nat
  /\ NameMax \in Nat /\ NameMax < Limit16
  /\ DataMax \in Nat /\ DataMax < Limit32
  /\ CountMax \in Nat /\ CountMax < Limit32

CmdTypeSingle == 1
CmdTypeBatch == 2

\* BatchRecord
FrameRecord(key, value) == [key |-> key, value |-> value]

EncodeRecord(r) ==
  <<Len(r.key) % Limit32>> \o r.key \o <<Len(r.value) % Limit32>> \o r.value

\* Mutant: the partition is written before the topic.
FrameHeadSwapped(type, topic, partition) ==
  <<type, Len(topic) % Limit16, partition % Limit32>> \o topic

FrameHead(type, topic, partition) ==
  <<type, Len(topic) % Limit16>> \o topic \o <<partition % Limit32>>

EncodeCommand(topic, partition, key, value) ==
  FrameHead(CmdTypeSingle, topic, partition) \o EncodeRecord(FrameRecord(key, value))

\* Mutant: the count is left out.
EncodeBatchUncounted(topic, partition, records) ==
  FrameHead(CmdTypeBatch, topic, partition)
    \o FlattenSeq([i \in DOMAIN records |-> EncodeRecord(records[i])])

EncodeBatchCommand(topic, partition, records) ==
  FrameHead(CmdTypeBatch, topic, partition)
    \o <<Len(records) % Limit32>>
    \o FlattenSeq([i \in DOMAIN records |-> EncodeRecord(records[i])])

(***************************************************************************)
(* The decoder.  A read outside the frame panics, which stops the broker;  *)
(* Panic stands for what it would return.                                  *)
(***************************************************************************)
Panic == -1

Field(data, at) == IF at <= Len(data) THEN data[at] ELSE Panic

Slice(data, at, n) ==
  IF n # Panic /\ at + n - 1 <= Len(data) THEN SubSeq(data, at, at + n - 1) ELSE <<Panic>>

Malformed == [error |-> TRUE]

\* The record whose key length stands at "at", and where the next one starts.
\* Mutant: the value length is taken to be there.
RecordAtUnchecked(data, at) ==
  LET keyLen == Field(data, at)
      valLen == Field(data, at + 1 + keyLen)
  IN  IF \/ Len(data) < at
         \/ Len(data) < at + keyLen
         \/ Len(data) < at + 1 + keyLen + valLen
        THEN Malformed
        ELSE [error |-> FALSE, next |-> at + 2 + keyLen + valLen,
              record |-> FrameRecord(Slice(data, at + 1, keyLen),
                                     Slice(data, at + 2 + keyLen, valLen))]

RecordAt(data, at) ==
  LET keyLen == Field(data, at)
      valLen == Field(data, at + 1 + keyLen)
  IN  IF \/ Len(data) < at
         \/ Len(data) < at + keyLen + 1
         \/ Len(data) < at + 1 + keyLen + valLen
        THEN Malformed
        ELSE [error |-> FALSE, next |-> at + 2 + keyLen + valLen,
              record |-> FrameRecord(Slice(data, at + 1, keyLen),
                                     Slice(data, at + 2 + keyLen, valLen))]

\* Records number 1 to count from "at" on; the first malformed one ends it.
RecordsAt(data, at, count) ==
  LET parsed[i \in 0..count] ==
        IF i = 0 THEN [error |-> FALSE, next |-> at, records |-> << >>]
        ELSE LET before == parsed[i-1]
                 here == RecordAt(data, before.next)
             IN  IF before.error \/ here.error THEN Malformed
                 ELSE [error |-> FALSE, next |-> here.next,
                       records |-> Append(before.records, here.record)]
  IN  parsed[count]

\* The topic, partition and records that Apply goes on with (an empty topic,
\* which Publish never encodes, would stand for "default").
Decoded(data, topicLen, records) ==
  [error |-> FALSE, topic |-> Slice(data, 3, topicLen),
   partition |-> Field(data, 3 + topicLen), records |-> records]

Decode(data) ==
  LET topicLen == Field(data, 2)
      body == 4 + topicLen
      single == RecordAt(data, body)
      batch == RecordsAt(data, body + 1, Field(data, body))
  IN  CASE Len(data) < 3 \/ Len(data) < 3 + topicLen -> Malformed
        [] OTHER ->
             CASE data[1] = CmdTypeSingle ->
                    IF single.error THEN Malformed
                    ELSE Decoded(data, topicLen, <<single.record>>)
               [] data[1] = CmdTypeBatch ->
                    IF Len(data) < body \/ batch.error THEN Malformed
                    ELSE Decoded(data, topicLen, batch.records)
               [] OTHER -> Malformed

(***************************************************************************)
(* What the codec promises, over all inputs within the bounds.             *)
(***************************************************************************)
Strings(lo, hi) == UNION {[1..n -> Bytes] : n \in lo..hi}
TopicNames == Strings(1, NameMax)   \* Publish replaces the empty name
FramePartitions == 0..(Limit32 - 1)
FrameRecords == {FrameRecord(k, v) : k \in Strings(0, DataMax), v \in Strings(0, DataMax)}

ReadsBack(frame, topic, p, records) ==
  Decode(frame) = [error |-> FALSE, topic |-> topic, partition |-> p, records |-> records]

ContentOf(result) ==
  ToSet(result.topic) \cup {result.partition}
    \cup UNION {ToSet(result.records[i].key) \cup ToSet(result.records[i].value) :
                  i \in DOMAIN result.records}

\* FSM.Apply reads from the frame of a single command what Publish put in,
\* for every topic that GetPartition let through.
SingleReadsBack ==
  \A topic \in TopicNames, p \in FramePartitions, k, v \in Strings(0, DataMax) :
    ReadsBack(EncodeCommand(topic, p, k, v), topic, p, <<FrameRecord(k, v)>>)

\* The same of a batch: none of its records is lost, split or joined.
BatchReadsBack ==
  \A topic \in TopicNames, p \in FramePartitions :
    \A n \in 1..CountMax : \A records \in [1..n -> FrameRecords] :
      ReadsBack(EncodeBatchCommand(topic, p, records), topic, p, records)

\* Whatever the bytes are, Apply answers with records or with an error: the
\* length checks keep every read inside the frame.
DecodesInside ==
  \A n \in 0..(6 + NameMax) : \A data \in [1..n -> 0..2] :
    LET result == Decode(data) IN result.error \/ Panic \notin ContentOf(result)

=============================================================================
