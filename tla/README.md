# Verification of distributed-event-log

TLA+ models of the storage engine, the consumer-group store, the broker's
lifecycle, the replicated publish path with its command frame, and the delivery of
records to the clients of a group; TLC configurations that check them on small
instances, and TLAPS proofs of the safety properties of the passing runs, the
refinement included.
`PROJECT.json` lists components, runs, mutants, the source lines behind every
definition, hazards, findings and theorems.

## The system

A cluster of brokers keeps topics of three partitions. A record is published to
the Raft leader, replicated as a Raft command, and appended by every broker's
FSM to that broker's own commit log of the partition. Consumers read any broker
and commit offsets to it.

| Component | State | Operations | What makes it correct |
|---|---|---|---|
| segment (`internal/log/segment.go`) | `.log` and `.index` file; cached size, next offset, entry count, handles | NewSegment, Append, AppendBatch, Read, NewestTimestamp, Delete, Close | a record is found at the position its index entry names, after restarts too |
| commit log (`internal/log/log.go`) | ordered list of segments, the last one active; compression flag; one RWMutex | NewLog, Append(Batch) with rollover, Read(Batch), LatestOffset, EnforceRetention, Compact, SetCompressed, Close | offsets unique and consecutive; acknowledged records readable until retention; head never touched by maintenance; directory loadable |
| consumer groups (`internal/broker/consumer_group.go`) | BoltDB bucket; cache map under its own lock; lag gauge | CommitOffset, FetchOffset, Snapshot, load | no step back behind an acknowledged commit; cache, database and gauge agree in the end |
| topics and workers (`internal/broker/broker.go`) | map of logs, `retentionStarted`, stop channels and wait groups | GetPartition, SetTopicConfig; retention, compaction and lag workers | one log in use per directory; workers stop |
| lifecycle (`broker.go`, `cmd/broker`) | servers, Raft node, stores | NewBroker with joinPeer, Close | Close returns, and takes resources away after their users |
| publishing (`broker.go`, `internal/raft/fsm.go`) | round-robin counters; Raft log, snapshots; partition logs per broker | Publish, PublishBatch, selectPartition, EncodeCommand, EncodeBatchCommand, FSM.Apply, Snapshot, Restore | replicas hold the same records at the same offsets; per-key order among requests that name no partition; a frame decodes to what was encoded |
| consume-group client (`cmd/cli/main.go`) and its handlers | where each client's loop is; calls in handlers | FetchOffset, Consume, print, CommitOffset, again with `--follow` | every record printed, in order, once unless something is disturbed; a follower gets on |
| membership, admin, TLS, stubs | - | Join, read-only views | see "Not modelled" |

Components interact by calls only: handlers, the FSM and the lag worker call
GetPartition and then the log; the handlers of CommitOffset call the store and
then the log's LatestOffset; Close meets all of them through stop channels,
wait groups and the servers' own shutdown. A client of a group calls three
handlers in turn, and they run on when the client is gone.

What is hard here: several goroutines share the broker, the store and the logs;
an append is two or three file writes and can stop between them, by an error or
by the death of the process; memory caches what the files say; Raft replays
commands after a restart into logs that are not part of its snapshots; Close
signals workers that re-read the field it clears; a topic's compression setting is
applied to the log by every call that looks the log up, with a setting that may be
out of date by then; retention removes records that a group has not read.

## Modules

- **Segment**: file contents and the functions of segment.go on them. A `.log`
  file is a sequence of cells the size of a header (a header cell, then payload
  cells); `.index` is a sequence of entries. Positions are cell numbers from 0.
  Payload lengths, raw and compressed, are constants per record, so compression
  changes sizes and decoding succeeds only on what was encoded.
- **CommitLog** (extends Segment): one partition. Every Log method holds the
  mutex throughout, so a call is one action. `...Fails` actions return an error
  with part of the work on disk (a roll that fails may leave its new files behind,
  empty, while the log goes on with the full segment: `StoppedRoll`); `...Crash` actions leave the same disk and no
  process. `acked` and `trimmed` are history: offsets returned to callers, and
  the prefix given up to retention. Reads are state functions (`Read`,
  `ReadBatchEnd`, `LatestOffset`), evaluated by the properties in every state.
- **PartitionLog**: what a partition promises: a sequence that grows at the end
  and shrinks at the front. `CommitLog!Abstract` maps a log to it by reading
  every offset; a closed log maps to what NewLog will load.
- **ConsumerGroups**: a commit request is five steps (receive, transaction, cache,
  read latest offset, set gauge and respond); the 15-second sweep is a snapshot
  and then two steps per group. The log is opened by the first GetPartition that
  succeeds; while it cannot be opened, a commit is answered and the gauge left as it
  is, and the sweep skips the group. A crash may fall anywhere.
- **BrokerLifecycle**: NewBroker from the start of the HTTP server on (gRPC server,
  joining a peer, workers, and the Close it calls when one of them fails), callers
  of GetPartition (lookup; create, or fail and close what was opened after the lock
  is released; start the retention worker; use), worker loops (`load` the stop field, `select`, tick,
  leader check, work), and Close step by step. `deaf` is a worker whose select
  has a nil stop channel. `logs` is the map of the broker; `opened` counts the sets of
  Log objects on a topic's directories, the ones about to be discarded included.
- **Replication**: publish handlers, the FSM on every node, durable partition logs
  per node, over an abstract Raft: one committed sequence, an uncommitted tail of
  which a new leader keeps a prefix, an applied index that falls back to the last
  snapshot on restart. Membership is fixed. A request may name its partition whatever
  its key. A write can be cut short by an error or by the death of the process; what
  is then no longer certain is kept in `torn` (where the tear is) and as `Unknown`
  records behind it, and `Reloaded` is what a restart makes of such a log; a roll
  that failed half way (`HalfRolled`) is a tear too. CommitLog shows in detail what
  happens there. Retention and compaction are left to CommitLog, and so is a
  directory that NewLog refuses, which here is a log on which every apply fails.
- **CommandFrame**: the bytes of a command: both encoders and the decoder of
  FSM.Apply with its length checks, lengths of 16 and 32 bits reduced modulo
  `Limit16` and `Limit32`. It has no state. Replication hands FSM.Apply the command
  that was encoded; the round trips justify that for names and data whose lengths
  fit.
- **Delivery**: one partition and one group. Each client, with `--follow` or
  without, goes through FetchOffset, Consume, print, CommitOffset; a call is a
  record in `requests` that moves through its handler's steps. So are the other calls
  that pass through GetPartition: FSM.Apply, and, as "other", publishes, reads of
  other groups, the lag sweep. Every one of them, the lag update at the end of
  CommitOffset included, reads the topic's configuration in one step and sets the
  log's flag in another. A client can be killed or cut off, and its handler then goes
  on without it; where only GetPartition is left of the call's effect it becomes an
  "other" call. The partition is an
  instance of PartitionLog whose records are only "written compressed or not"; the
  FSM appends to it, retention trims it, SetTopicConfig changes its compression, a
  crash clears what is in memory. Commands that Raft replays after a restart are
  further appends here.
- **MCCommitLog, MCReplication**: constants for TLC; MCReplication also joins
  CommandFrame to Replication.
- **SegmentProofs, CommitLogProofs, CommitLogReadProofs, ConsumerGroupsProofs,
  BrokerLifecycleProofs, ReplicationProofs, CommandFrameProofs, DeliveryProofs**:
  TLAPS proofs. SegmentProofs is about the files of one segment, CommitLogProofs
  about offsets, CommitLogReadProofs about what reads return.

Operators introduced by a comment "Mutant:" are wrong variants of the definition
below them. Each checked property has one that TLC refutes it with.

## Runs

| Run | Result | Shows |
|---|---|---|
| commitlog_serve | holds | refinement of PartitionLog, AckedReadable, ReadBatchComplete, LatestOffsetIsLast, ReopenSucceeds without faults |
| commitlog_faults | holds | offset uniqueness, contiguity, head, RestartContinues; reads never wrong without write errors |
| commitlog_crash | violated | AckedReadable: the record acknowledged before a torn append cannot be read after restart |
| commitlog_compact | violated | LatestPerKeyReadable: compaction leaves a segment closed |
| commitlog_write_error | violated | ReadsNeverWrongAfterError: stale size after a failed write |
| consumer_groups | holds | StandingCommit, LagSettles |
| consumer_groups_race | violated | CacheMatchesStore: two overlapping commits |
| broker_lifecycle | holds | OneLogInUse, LogsOutliveTheirUsers, WaitEndsUnlessDeaf, ClosePastWorkersReturns |
| broker_close | violated | CloseReturns: a busy worker misses its stop signal |
| replication | holds | UndisturbedReplicasAgree, AckedStays, KeyOrder, NothingLost; SingleRoundTrip, BatchRoundTrip, DecodeStaysInside of the frame |
| delivery | holds | CommittedWasPrinted, FirstPrintsInOrder, OnceUnlessDisturbed, Progress, CompressionSettles |
| replication_restart | violated | ReplicasAgree: committed commands are applied again after a restart |

`Progress` and `OnceUnlessDisturbed` say under which conditions the client's loop
works, and so where it does not: a group whose next record retention has removed,
or whose next record is stored in another encoding than the topic is now
configured for, asks for it for ever; and two clients of a group, a crash or a lost
answer repeat records. Topic configurations are only in memory, so records written
compressed cannot be read after a restart until the topic is configured again; no
code of the repository calls SetTopicConfig, which is for programs that embed the
broker.

The violated properties are what comments, tests or the project's README say;
`findings` in PROJECT.json quotes them.

### Bounds, and why they are enough

- *Commit log.* Records of one and two payload cells, whose compressed forms
  have the other length, and segments of four cells: a segment holds one to three
  records, a batch of two can stop below, reach or pass the limit. Four offsets
  give up to three segments, so retention removes none, one or two, and a roll
  happens before and after it. One fault per behaviour, at any cell of a block, any
  index entry, between the two files of a new or a deleted segment, followed by
  restarts and further appends. The violations need one fault. The run without
  faults uses two timestamps, in any order, for time-based retention.
- *Consumer groups.* Keys only share the sweep, so one key, two overlapping
  handlers, three commits and one crash give every order of two commits around
  each other's steps and a third after them. Offset 2 is past the head, as the
  command-line client commits it.
- *Lifecycle.* One topic and one handler of each kind, besides the FSM and the
  lag worker: up to four concurrent GetPartition calls on the topic. Five attempts
  to join, as in the code.
- *Replication.* Three nodes, two partitions, two handlers, two commands (single by
  partition, key or round robin, or a batch of two), one failover and one fault
  (a crash with restart, also inside an apply, or an apply that fails or is cut
  short). The key hashes to the partition that requests do not name, so one key gets
  into both. Snapshots are taken after every command with nothing kept before them,
  by one node (`MaxSnapshots`), so that installing one on another is possible at once. Nodes and
  handlers are symmetric; the run checks invariants only.
- *Command frame.* Two byte values, lengths modulo 3, topics of up to two bytes,
  keys and values of up to one, batches of up to two: every combination of empty
  and longest fields, and for DecodeStaysInside frames whose lengths promise more
  bytes than there are. The three properties are evaluated in the initial state.
- *Delivery.* A follower and a one-shot client that may be started again, two records, one
  configuration change, one fault, and one call at a time besides theirs, the FSM's
  and those left by clients that are gone. Overlap of the two clients, a handler without
  a client beside the client's next call, retention before, at and behind the
  group's offset, a record in each encoding, and a crash between database and
  cache all happen. Handlers without a client whose calls agree in everything are
  one element of the set.

Where a cfg says `CHECK_DEADLOCK FALSE`, the broker may stop (lifecycle), or the
bounded inputs are used up (replication). The commit log and the consumer groups
are checked for deadlock.

### Fairness

- *ConsumerGroups*: weak fairness of each handler's and the sweep's next step (the
  Go scheduler runs goroutines; the ticker of the sweep keeps firing). Nothing
  obliges a client to commit, anyone to restart a broker, or a log to open. LagSettles
  is about the end of a behaviour, commits being bounded, and about a topic that is
  open: while its directory cannot be opened the gauge is never set.
- *BrokerLifecycle*: weak fairness of every goroutine's next step, of the calls of
  the lag worker and of Close's steps. Ticks, client calls, elections and the
  signal are not fair. CloseReturns fails under this fairness because a worker
  blocked on a nil channel has no step. JoinPeer is not fair: `http.Post` has no
  timeout.
- *Delivery*: weak fairness of the next request of each running client (it sleeps a
  second and goes on) and of the handler that serves it. Calls that no client waits
  for, the FSM's and the others, may stop anywhere. Nobody has to start a client, publish, apply, configure, enforce retention
  or restart a broker. `Progress` assumes that from some point on a broker and a
  follower run and that the group's next record stays readable.

## What is proved

Every theorem holds for all values of the constants that satisfy the named
assumption of the module (`LengthAssumption`, `CommitLogAssumption`,
`ConsumerGroupsAssumption`, `BrokerLifecycleAssumption`, `ReplicationAssumption`,
`CommandFrameAssumption`, `DeliveryAssumption`); TLC evaluates them in the runs. They
are about `Spec`, or for a log in service `ServeSpec`, without fairness. Each module
with state proves an inductive invariant with one lemma per action and part that the
action can disturb.

Loops are recursive functions here. What one computes is proved by induction in the
form of `LeastNat`: of the turns at which a claim fails there is a least one, and
the turn before it contradicts that. For each loop there is first a lemma that the
function satisfies its own definition (`TotalExists`, `ConcatExists`, `ParseExists`,
`FlattenExists`).

### Commit log: offsets

`CommitLogProofs` proves, for all constants that satisfy `LengthAssumption` and
`CommitLogAssumption` (lengths and sizes are naturals, segments are not of size 0,
batches are not empty), about `Spec`, which has every action, unbounded faults
included (`MaxFaults` is any natural number):

- `Invariance`: `Spec => []Inv`;
- `TypeCorrect`, `Contiguity`, `UniqueOffsets`, `HeadAboveAcked`,
  `WriteHeadIntact`, `RestartIsSafe`: each conjunct of interest on its own.

`OffsetsUnique` and `AckedBelowHead` are not inductive: after a crash the next
offset comes from the index file of the segment with the highest base offset. The
strengthening says that an index entry is never below its segment's base
(`IndexesInRange`), that base offsets increase along the whole list
(`BasesIncrease`), that in an open log no index file is above the active segment,
except an empty pair that a failed roll left at the head (`LeftOver`), and the active segment's index is never behind memory (`HeadIsNewest`), and that a
closed directory, if all its `.log` files have an `.index`, has a newest segment
whose index is above every acknowledged offset (`RestartContinues`). A failed write
can put the index ahead of memory, never behind it: that is why a restart skips
offsets rather than reuses them. TLC checks all of `Inv`'s parts that are
properties in `commitlog_faults`.

The proof has one lemma per action. `SegmentProofs` holds what the actions need
of the segment operators: the types of the blocks written, that index entries of
a block are consecutive from the next offset, and that appending any prefix of
them to an index keeps it in range and at or above the head.

### Commit log: reads

`CommitLogReadProofs` proves about `Spec`:

- `NeverWrong` (ReadsNeverWrong): as long as no write has failed and the files are in
  the encoding that is configured now, a read of an acknowledged offset returns its
  record or an error, after any crashes, restarts, compactions and compression
  switches;

and about `ServeSpec`, a log whose operations succeed and whose compression is off:

- `EveryAckReadable` (AckedReadable), `LatestIsLast` (LatestOffsetIsLast),
  `BatchesComplete` (ReadBatchComplete), `ReopenAlways` (ReopenSucceeds);
- `PartitionLogImplemented` (ImplementsPartitionLog): the log implements PartitionLog.

None of them is inductive: they say what a read returns and not why. The reason is
the layout of files. `SegmentFile` (SegmentProofs) says of a pair of files that index
entry k is about offset base + k - 1 and names a cell at which a whole record stands,
header and payload, in one of the allowed encodings, and the acknowledged one if that
offset was acknowledged; with `exact`, that the file holds nothing else. `GrownFile` proves that appending a block,
whole or torn, keeps this, from what the cells of a block are (`ConcatLayout`,
`BlockCells`); `ReadSlot`, `ReadStored` and `ReadExact` derive what a read of such
files returns. A read's first guess in the index is right, so the scan behind it is
not reached (`DirectHit`). `LogHolds` lifts the layout to the directory: each segment
but the newest is followed by the one that begins where its index ends (`Chained`),
and the Log object has a segment for every file and caches its sizes
(`MemoryHolds`).

- `Faithful` is `LogHolds` with any encodings and files that are not exact, for a
  behaviour without failed writes. Torn appends leave cells or entries
  that no acknowledged offset is about, and compaction may leave a segment closed;
  `Faithful` allows both, which is why it gives ReadsNeverWrong and not
  AckedReadable (the runs `commitlog_crash` and `commitlog_compact` show it cannot).
  A failed write is excluded because memory then no longer agrees with the files
  (`commitlog_write_error`).
- `InService` is `LogHolds` with exact, uncompressed files, and adds that all
  segments are open, that every index entry is about an acknowledged offset
  (`EntriesAcked`) and that the first segment starts where retention stopped
  (`TrimmedIsFirst`).

For the refinement, `HistoryShown` proves that what `Abstract` reads off the log,
open or closed, is the history from `trimmed` up to the head (`ShowsHistory`,
`View`). An append extends that history and so the view at its end; retention moves
`trimmed` and cuts the view at its front; closing and loading change neither, so
they are stuttering steps.

### Consumer groups

`TypeCorrect` and `NeverGoesBack` (StandingCommit), for any number of groups,
handlers, commits and crashes. StandingCommit speaks of acknowledged commits; the
invariant has to follow a commit on its way there. A handler carries the commits
that had ended before it arrived (`before`): past its transaction the database holds
none of these (`NewerInDb`), past its cache update the cache holds none
(`NewerInCache`), so that its answer may strike them out; a commit that is still to
be written is in nobody's past (`Pending`, `Unwritten`, `Fresh`). Overlapping
commits may leave database and cache different, which is the finding of
`consumer_groups_race`, but neither is older than an acknowledged commit.

### Lifecycle

`TypeCorrect`, `OneLog` (OneLogInUse) and `SafeClose` (LogsOutliveTheirUsers),
for any topics, any finite sets of handlers and any number of join attempts.
`LogsHeld` counts: a topic's directories are opened once for each caller that is
still to close what it failed to complete (`Discarding`), and once more if the topic
is in `logs` and Close has not closed it. Two sets of logs can so be open on one
directory, but nobody was given the one that is discarded. The rest of the invariant says, stage by
stage of Close, which worker groups have been waited for (`GroupsWaited`) and which
servers and the Raft node have no call left (`ServersWaited`), and that no later
step brings them back: the compaction and the lag worker
only start at the end of NewBroker (`NotYetStarted`), and the lag worker looks up
partitions only while it works (`LagAtWork`). A request that opens a topic after Close
has waited for retention starts one more retention worker; these are in `late`, and
SafeClose leaves them out.

### Replication

`TypeCorrect`, `AckedForEver` (AckedStays), `ReplayLosesNothing` (NothingLost),
`ReplicasAgreeUnlessDisturbed` (UndisturbedReplicasAgree) and `KeysInOrder`
(KeyOrder), for any nodes, partitions, commands, elections, faults and snapshot
settings. AckedStays leaves out of a log with a tear the record just in front of it
and all behind it, which `commitlog_crash` and `commitlog_write_error` show to be
lost; `TornBehind` says that a tear is within the log of a
broker that counts as disturbed, so what is appended after it comes to lie behind it. Agreement of two logs is not inductive: one broker may apply what the
other has yet to. `FromHistory` states that there is one history, the logs after
each committed command, and that an undisturbed broker that has applied k commands
holds the k-th of them, and that the offsets it has answered are positions in them.
`Causal` places a command behind those acknowledged before it was proposed, which
KeyOrder across leaders needs; `ByKeyUnlessNamed` says that a command with a key whose
request named no partition is in the key's; and `Numbered` and `Positions` keep command numbers
and indexes in range.

### Command frame

`CommandFrameProofs`, for any field widths and any lengths within them:
`DecodeNeverPanics` (DecodeStaysInside, and the same of every sequence of numbers,
whatever its length), `SingleFrames` (SingleRoundTrip) and `BatchFrames`
(BatchRoundTrip). `Placed` says that a sequence stands in a frame from a position on;
what is placed as a concatenation is placed part by part (`PlacedSplit`), so each
field the decoder looks up is the one that was written there. For a batch,
`PartPlaced` gives the place of each record, and `ReadsParts` is the invariant of the
decoder's loop: after turn i it has the first i records and stands at the next.
`CleanParse` is the corresponding invariant for frames that nobody encoded.

### Delivery

`TypeCorrect`, `AtLeastOnce` (CommittedWasPrinted), `InOrder` (FirstPrintsInOrder)
and `ExactlyOnce` (OnceUnlessDisturbed), for any number of clients, records,
configuration changes and faults. `OffsetsPrinted` extends CommittedWasPrinted to
the offsets that are still in calls: every record below one is printed, and a
commit of a client that is gone can move the group back but never past an unprinted
record. For exactly once, `Calm` says that an undisturbed group has one running
client and one call at most of the consume-group command (`Mine`; the broker's own
calls have no client), and that nothing at or above the offset it is about to
ask for, or to commit, is printed.

### Only model-checked

Liveness: LagSettles, WaitEndsUnlessDeaf, ClosePastWorkersReturns, Progress and
CompressionSettles. Fairness and ENABLED are outside what the prover supports.

## Not modelled

- Power loss: a crash is the death of the process, and written bytes stay. The
  code never calls fsync.
- A torn index entry (a prefix of 16 bytes): index writes are entry-aligned here,
  log writes may tear at any cell.
- Compact's rewriting of a segment after its first index read, which the code does
  not get past for a segment with entries.
- NewBroker before the HTTP server starts: it opens files one after the other with
  no other goroutine around, and a failure ends the process.
- The produce and consume commands of the client: one request, one answer.
- The allocation of a slice of the promised length before a batch's lengths are
  checked (fsm.go:166): memory is not modelled.
- A process that dies inside an append, in Delivery; CommitLog has it.
- HTTP and JSON, TLS, metrics other than the lag gauge, generated stubs.
- Membership changes (Join hands them to raft.AddVoter) and Raft itself; admin
  endpoints, which only read. Offsets of 64 bits are naturals: no counter
  in the code gets near their limit; the one subtraction that can wrap
  (`payloadSize`) is modelled by its outcome, a panic.

## Plan

Done: Segment, CommitLog with PartitionLog, ConsumerGroups, BrokerLifecycle with the
start and the join, Replication with CommandFrame, Delivery. Every invariant and
action property of the passing runs and the refinement of PartitionLog are proved.

Left:

1. reads of a log after a crash: which acknowledged offsets stay readable when the
   torn append is the only fault;
2. membership: voters added while the leader changes.
