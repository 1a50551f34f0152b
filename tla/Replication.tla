---------------------------- MODULE Replication ----------------------------
(***************************************************************************)
(* Publishing through Raft: Publish and PublishBatch of the leading broker *)
(* (internal/broker/broker.go), the FSM that every broker runs on the      *)
(* committed commands (internal/raft/fsm.go), and the partition logs of    *)
(* one topic on every broker, which outlive the process.                   *)
(*                                                                         *)
(* hashicorp/raft is external and reduced to what the code relies on: one  *)
(* sequence of committed commands, a leader's uncommitted tail of which a  *)
(* new leader keeps some prefix, and on every node an index up to which    *)
(* commands were given to FSM.Apply.  That index starts again at the last  *)
(* snapshot when the process restarts.  FSM.Snapshot saves nothing and     *)
(* FSM.Restore loads nothing, while the partition logs stay on disk.       *)
(***************************************************************************)
EXTENDS Integers, SequencesExt

CONSTANTS
  Nodes,               \* the brokers, all voters
  NumPartitions,       \* defaultNumPartitions
  Keys,                \* record keys
  Explicit,            \* partitions that requests name
  ExplicitKeys,        \* keys, or NoKey, of the requests that name one
  KeyPartition,        \* FNV-1a hash of a key modulo NumPartitions
  BatchSizes,          \* lengths of the batches given to PublishBatch
  Handlers,            \* goroutines serving produce requests
  SnapshotThreshold,   \* commands after which Raft takes a snapshot
  TrailingLogs,        \* commands Raft keeps in front of a snapshot
  NoNode, NoKey,
  MaxCommands, MaxElections,
  MaxFaults,           \* bound: crashes and failed applies
  MaxSnapshots         \* bound: nodes that take snapshots

Partitions == 0..(NumPartitions - 1)

ASSUME ReplicationAssumption ==
  /\ NumPartitions \in Nat \ {0}
  /\ Explicit \subseteq Partitions /\ ExplicitKeys \subseteq Keys \cup {NoKey}
  /\ KeyPartition \in [Keys -> Partitions]
  /\ BatchSizes \subseteq Nat \ {0}
  /\ SnapshotThreshold \in Nat \ {0} /\ TrailingLogs \in Nat
  /\ NoNode \notin Nodes /\ NoKey \notin Keys
  /\ MaxCommands \in Nat /\ MaxElections \in Nat /\ MaxFaults \in Nat

VARIABLES
  \* Raft
  leader,       \* the node whose State() is Leader, or NoNode
  committed,    \* the committed commands
  tail,         \* commands in the leader's log that are not committed
  up,           \* nodes whose process runs
  applied,      \* commands each node's FSM has been given since it started
  stored,       \* commands known to be in each node's own Raft log
  snapshot,     \* commands covered by each node's last snapshot
  \* brokers
  roundRobin,   \* Broker.roundRobin of the topic on each node
  plog,         \* the partition logs on each node's disk
  torn,         \* where a write to a partition log or a roll stopped part of the way
  handler,      \* what each handler is doing
  \* history
  count,        \* publish requests so far; numbers the commands
  acked,        \* commands whose offset was returned, with where and what
  replayed,     \* nodes that were restarted
  disturbed,    \* nodes on which an apply failed or was cut short, or that were
                \* given a snapshot
  elections, faults

raft    == <<leader, committed, tail, up, applied, stored, snapshot>>
history == <<replayed, disturbed>>
bounds  == <<elections, faults>>
vars    == <<leader, committed, tail, up, applied, stored, snapshot, roundRobin, plog, torn,
             handler, count, acked, replayed, disturbed, elections, faults>>

\* A command: the partition was selected before it was encoded.  "named" (the
\* request named the partition) and "after" (the commands acknowledged when the
\* request arrived) are history.
Command == [ id : 1..MaxCommands, key : Keys \cup {NoKey}, named : BOOLEAN,
             partition : Partitions, size : BatchSizes \cup {1},
             after : SUBSET (1..MaxCommands) ]

\* Record i of a command, as appended to a partition log, or Unknown: a read of
\* the offset may give the record, an error or the bytes of another one.
Record == [id : 0..MaxCommands, i : Nat]
Unknown == [id |-> 0, i |-> 0]

\* A write that would have put its first record at "offset" and of whose index
\* entries "entries" reached the file; the log in memory counts none of them.
Tear == [node : Nodes, partition : Partitions, offset : Nat, entries : Nat]

Idle == [pc |-> "idle"]

TypeOK ==
  /\ leader \in Nodes \cup {NoNode}
  /\ committed \in Seq(Command) /\ tail \in Seq(Command)
  /\ up \subseteq Nodes
  /\ applied \in [Nodes -> Nat] /\ stored \in [Nodes -> Nat] /\ snapshot \in [Nodes -> Nat]
  /\ roundRobin \in [Nodes -> Partitions]
  /\ plog \in [Nodes -> [Partitions -> Seq(Record)]]
  /\ torn \subseteq Tear
  /\ handler \in [Handlers -> {Idle} \cup [pc : {"selected", "waiting"}, node : Nodes,
                                            cmd : Command]]
  /\ count \in 0..MaxCommands
  /\ acked \subseteq [cmd : Command, node : Nodes, offset : Nat]
  /\ replayed \subseteq Nodes /\ disturbed \subseteq Nodes
  /\ elections \in Nat /\ faults \in Nat

Init ==
  /\ leader = NoNode
  /\ committed = << >> /\ tail = << >>
  /\ up = Nodes
  /\ applied = [n \in Nodes |-> 0]
  /\ stored = [n \in Nodes |-> 0]
  /\ snapshot = [n \in Nodes |-> 0]
  /\ roundRobin = [n \in Nodes |-> 0]
  /\ plog = [n \in Nodes |-> [p \in Partitions |-> << >>]]
  /\ torn = {}
  /\ handler = [h \in Handlers |-> Idle]
  /\ count = 0
  /\ acked = {}
  /\ replayed = {} /\ disturbed = {}
  /\ elections = 0 /\ faults = 0

Quorum == 2 * Cardinality(up) > Cardinality(Nodes)

(***************************************************************************)
(* Publish and PublishBatch.  A broker that is not the leader, a partition *)
(* out of range and an empty batch are refused with no effect.             *)
(***************************************************************************)
\* Mutant: the counter is not wrapped.
AdvanceUnwrapped(n) == [roundRobin EXCEPT ![n] = @ + 1]

\* selectPartition without an explicit partition: by key, else the next one.
SelectPartition(n, key) ==
  IF key # NoKey THEN KeyPartition[key] ELSE roundRobin[n]

Advance(n) == [roundRobin EXCEPT ![n] = (@ + 1) % NumPartitions]

\* The request is checked and encoded by handler h of the leader.
Accept(h, key, named, p, size) ==
  /\ leader # NoNode
  /\ handler[h] = Idle
  /\ count < MaxCommands
  /\ count' = count + 1
  /\ handler' = [handler EXCEPT ![h] =
       [pc |-> "selected", node |-> leader,
        cmd |-> [id |-> count + 1, key |-> key, named |-> named, partition |-> p,
                 size |-> size, after |-> {a.cmd.id : a \in acked}]]]
  /\ UNCHANGED <<raft, plog, torn, acked, history, bounds>>

\* A partition that the request names is taken, whatever the key.
PublishTo(h, key, p) == Accept(h, key, TRUE, p, 1) /\ UNCHANGED roundRobin

\* Mutant: the key is not looked at.
PublishKeyedAnywhere(h, key) ==
  Accept(h, key, FALSE, SelectPartition(leader, NoKey), 1) /\ roundRobin' = Advance(leader)

PublishKeyed(h, key) ==
  Accept(h, key, FALSE, SelectPartition(leader, key), 1) /\ UNCHANGED roundRobin

PublishNext(h) ==
  /\ Accept(h, NoKey, FALSE, SelectPartition(leader, NoKey), 1)
  /\ roundRobin' = Advance(leader)

\* A batch request always names the partition, whatever the keys of its records.
PublishBatch(h, key, p, size) == Accept(h, key, TRUE, p, size) /\ UNCHANGED roundRobin

\* raft.Apply puts the command into the log of a node that still leads ...
Enqueue(h) ==
  /\ handler[h].pc = "selected"
  /\ handler[h].node = leader
  /\ tail' = Append(tail, handler[h].cmd)
  /\ handler' = [handler EXCEPT ![h].pc = "waiting"]
  /\ UNCHANGED <<leader, committed, up, applied, stored, snapshot, roundRobin, plog, torn, count,
                 acked, history, bounds>>

\* ... or fails: the node lost leadership, or five seconds passed in the queue.
EnqueueFails(h) ==
  /\ handler[h].pc = "selected"
  /\ handler' = [handler EXCEPT ![h] = Idle]
  /\ UNCHANGED <<raft, roundRobin, plog, torn, count, acked, history, bounds>>

(***************************************************************************)
(* FSM.Apply on node n, for the next committed command: GetPartition and   *)
(* Append or AppendBatch.  The handler that waits for the command on this  *)
(* node gets the response and returns it to its client.                    *)
(***************************************************************************)
NextCommand(n) == committed[applied[n] + 1]

\* Handlers of node n that wait for one of the commands.
Waiting(n, cmds) ==
  {h \in Handlers : handler[h].pc = "waiting" /\ handler[h].node = n /\ handler[h].cmd \in cmds}

\* Their requests end.
Answer(hs) == handler' = [h \in Handlers |-> IF h \in hs THEN Idle ELSE handler[h]]

RecordsOf(cmd) == [i \in 1..cmd.size |-> [id |-> cmd.id, i |-> i]]

\* Behind a torn write the index points at other bytes than the ones appended,
\* and behind a torn roll a restart looks in the wrong segment.
Tears(n, p) == {t \in torn : t.node = n /\ t.partition = p}
Written(n, cmd) ==
  IF Tears(n, cmd.partition) = {} THEN RecordsOf(cmd) ELSE [i \in 1..cmd.size |-> Unknown]

\* Mutants: a node appends to the partition its own round robin is at; the
\* offset returned is the one after the last record.
AppendAtOwnPartition(n, cmd) ==
  [plog EXCEPT ![n][roundRobin[n]] = @ \o RecordsOf(cmd)]
OffsetAfter(n, cmd) == Len(plog[n][cmd.partition]) + cmd.size

AppendTo(n, cmd) == [plog EXCEPT ![n][cmd.partition] = @ \o Written(n, cmd)]

\* The offset returned, of the first record of a batch.
OffsetOf(n, cmd) == Len(plog[n][cmd.partition])

Advanced(n) ==
  /\ n \in up
  /\ applied[n] < Len(committed)
  /\ applied' = [applied EXCEPT ![n] = @ + 1]
  /\ stored' = [stored EXCEPT ![n] = IF @ > applied[n] THEN @ ELSE applied[n] + 1]

Apply(n) ==
  /\ Advanced(n)
  /\ LET cmd == NextCommand(n)
     IN  /\ plog' = AppendTo(n, cmd)
         /\ acked' = acked \cup {[cmd |-> cmd, node |-> n, offset |-> OffsetOf(n, cmd)] :
                                   h \in Waiting(n, {cmd})}
         /\ Answer(Waiting(n, {cmd}))
  /\ UNCHANGED <<leader, committed, tail, up, snapshot, roundRobin, torn, count, history,
                 bounds>>

\* The write of a command stops before its last index entry is in the file.
CutShort(n, cmd) ==
  /\ UNCHANGED plog
  /\ \E e \in 0..(cmd.size - 1) :
       torn' = torn \cup {[node |-> n, partition |-> cmd.partition,
                           offset |-> OffsetOf(n, cmd), entries |-> e]}

\* All of it is in the files and the roll to a new segment fails, when the files
\* of that segment are there: a restart will look in them for the next record,
\* which is appended to the segment before.
HalfRolled(n, cmd) ==
  /\ plog' = AppendTo(n, cmd)
  /\ torn' = torn \cup {[node |-> n, partition |-> cmd.partition,
                         offset |-> OffsetOf(n, cmd) + cmd.size, entries |-> 0]}

\* The partition cannot be opened or the append returns an error: nothing was
\* written, or part of it, or all of it if it was the roll that failed.  The
\* response is the error; Raft counts the command as applied.
ApplyFails(n) ==
  /\ Advanced(n)
  /\ faults < MaxFaults
  /\ faults' = faults + 1
  /\ \/ plog' \in {plog, AppendTo(n, NextCommand(n))} /\ UNCHANGED torn
     \/ CutShort(n, NextCommand(n))
     \/ HalfRolled(n, NextCommand(n))
  /\ Answer(Waiting(n, {NextCommand(n)}))
  /\ disturbed' = disturbed \cup {n}
  /\ UNCHANGED <<leader, committed, tail, up, snapshot, roundRobin, count, acked, replayed,
                 elections>>

(***************************************************************************)
(* Raft, as the code meets it.                                             *)
(***************************************************************************)
Commit ==
  /\ leader # NoNode /\ Quorum
  /\ tail # << >>
  /\ committed' = Append(committed, Head(tail))
  /\ tail' = Tail(tail)
  /\ stored' = [stored EXCEPT ![leader] = Len(committed')]
  /\ UNCHANGED <<leader, up, applied, snapshot, roundRobin, plog, torn, handler, count,
                 acked, history, bounds>>

\* A leader that hears of a newer term, or from no majority for its lease, steps
\* down and answers the requests whose commands are not committed with an error;
\* the commands may stay in logs.  (A leader that has not noticed yet accepts
\* requests that end the same way.)
StepDown ==
  /\ leader # NoNode
  /\ leader' = NoNode
  /\ Answer(Waiting(leader, ToSet(tail)))
  /\ UNCHANGED <<committed, tail, up, applied, stored, snapshot, roundRobin, plog, torn, count,
                 acked, history, bounds>>

\* The new leader has every committed command and some of the others.
Elect(n) ==
  /\ leader = NoNode
  /\ n \in up /\ Quorum
  /\ elections < MaxElections
  /\ elections' = elections + 1
  /\ leader' = n
  /\ stored' = [stored EXCEPT ![n] = Len(committed)]
  /\ \E k \in 0..Len(tail) : tail' = SubSeq(tail, 1, k)
  /\ UNCHANGED <<committed, up, applied, snapshot, roundRobin, plog, torn, handler, count, acked,
                 history, faults>>

\* FSM.Snapshot and noopSnapshot.Persist: an empty snapshot at the applied index.
TakeSnapshot(n) ==
  /\ n \in up
  /\ applied[n] - snapshot[n] >= SnapshotThreshold
  /\ Cardinality({m \in Nodes \ {n} : snapshot[m] > 0}) < MaxSnapshots
  /\ snapshot' = [snapshot EXCEPT ![n] = applied[n]]
  /\ UNCHANGED <<leader, committed, tail, up, applied, stored, roundRobin, plog, torn, handler,
                 count, acked, history, bounds>>

\* A node that lacks commands the leader has dropped gets its snapshot;
\* FSM.Restore does nothing.
InstallSnapshot(n) ==
  /\ leader # NoNode /\ n \in up \ {leader}
  /\ stored[n] < snapshot[leader] - TrailingLogs
  /\ applied' = [applied EXCEPT ![n] = snapshot[leader]]
  /\ stored' = [stored EXCEPT ![n] = snapshot[leader]]
  /\ snapshot' = [snapshot EXCEPT ![n] = snapshot[leader]]
  /\ disturbed' = disturbed \cup {n}
  /\ UNCHANGED <<leader, committed, tail, up, roundRobin, plog, torn, handler, count, acked,
                 replayed, bounds>>

\* The process of node n dies; its files stay.
Dies(n) ==
  /\ n \in up
  /\ faults < MaxFaults
  /\ faults' = faults + 1
  /\ up' = up \ {n}
  /\ leader' = IF leader = n THEN NoNode ELSE leader
  /\ roundRobin' = [roundRobin EXCEPT ![n] = 0]
  /\ Answer({h \in Handlers : handler[h] # Idle /\ handler[h].node = n})
  /\ UNCHANGED <<committed, tail, snapshot, count, acked, replayed, elections>>

Crash(n) == Dies(n) /\ UNCHANGED <<applied, stored, plog, torn, disturbed>>

\* It dies in FSM.Apply, with the command written or cut short.
CrashInApply(n) ==
  /\ Dies(n)
  /\ Advanced(n)
  /\ \/ plog' = AppendTo(n, NextCommand(n)) /\ UNCHANGED <<torn, disturbed>>
     \/ CutShort(n, NextCommand(n)) /\ disturbed' = disturbed \cup {n}

\* What NewLog makes of partition p of node n: the last record in front of a
\* torn write ends at the end of the file, and index entries of a torn write
\* that nothing followed count as records.
Reloaded(n, p) ==
  LET log  == plog[n][p]
      ends == {t.offset : t \in Tears(n, p)}
      more == {t.entries : t \in {u \in Tears(n, p) : u.offset = Len(log)}}
  IN  {[j \in 1..(Len(log) + e) |-> IF j \in ends \/ j > Len(log) THEN Unknown ELSE log[j]] :
         e \in more \cup {0}}

\* Mutant: the FSM goes on at the latest command.
RestartAtLatest(n) ==
  /\ n \notin up
  /\ up' = up \cup {n}
  /\ applied' = [applied EXCEPT ![n] = Len(committed)]
  /\ replayed' = replayed \cup {n}
  /\ UNCHANGED <<leader, committed, tail, stored, snapshot, roundRobin, plog, torn, handler, count,
                 acked, disturbed, bounds>>

\* NewBroker: NewRaft restores the last snapshot and applies what follows it.
Restart(n) ==
  /\ n \notin up
  /\ up' = up \cup {n}
  /\ applied' = [applied EXCEPT ![n] = snapshot[n]]
  /\ \E logs \in [Partitions -> UNION {Reloaded(n, p) : p \in Partitions}] :
       /\ \A p \in Partitions : logs[p] \in Reloaded(n, p)
       /\ plog' = [plog EXCEPT ![n] = logs]
  /\ replayed' = replayed \cup {n}
  /\ UNCHANGED <<leader, committed, tail, stored, snapshot, roundRobin, torn, handler, count,
                 acked, disturbed, bounds>>

Next ==
  \/ \E h \in Handlers :
       \/ \E key \in ExplicitKeys, p \in Explicit : PublishTo(h, key, p)
       \/ \E key \in Keys : PublishKeyed(h, key)
       \/ PublishNext(h)
       \/ \E key \in ExplicitKeys, p \in Explicit, size \in BatchSizes :
            PublishBatch(h, key, p, size)
       \/ Enqueue(h)
       \/ EnqueueFails(h)
  \/ Commit \/ StepDown
  \/ \E n \in Nodes :
       \/ Apply(n) \/ ApplyFails(n) \/ Elect(n)
       \/ TakeSnapshot(n) \/ InstallSnapshot(n)
       \/ Crash(n) \/ CrashInApply(n) \/ Restart(n)

Spec == Init /\ [][Next]_vars

(***************************************************************************)
(* Properties.                                                             *)
(***************************************************************************)
Agree(a, b) ==
  \A p \in Partitions :
    IsPrefix(plog[a][p], plog[b][p]) \/ IsPrefix(plog[b][p], plog[a][p])

\* Two brokers hold the same record at the same offset of a partition, whatever
\* the elections, as long as neither was restarted, failed to apply a command,
\* was cut short in one or was given a snapshot.
UndisturbedReplicasAgree ==
  \A a, b \in Nodes \ (replayed \cup disturbed) : Agree(a, b)

\* The same of brokers that were stopped and started again: what Raft committed
\* is in the partition logs once.
ReplicasAgree == \A a, b \in Nodes \ disturbed : Agree(a, b)

\* An offset returned to a client names the client's records, in their order,
\* on the broker that returned it, for ever: elections, applies that fail or are
\* cut short, crashes, replays and installed snapshots only add records behind
\* them.  A write cut short takes from this the record in front of it, once the
\* broker is restarted, and what is written to that log after it; a roll that
\* failed takes what is written after it.  (Retention and compaction, which
\* remove records, are in CommitLog, and so is a directory that NewLog refuses
\* after a crash: it is a log here on which every apply fails.)
AckedStays ==
  \A a \in acked : \A i \in 1..a.cmd.size :
    LET log == plog[a.node][a.cmd.partition]
    IN  (\A t \in Tears(a.node, a.cmd.partition) : a.offset + i < t.offset) =>
          a.offset + i <= Len(log) /\ log[a.offset + i] = [id |-> a.cmd.id, i |-> i]

\* If a publish began after another one was acknowledged, possibly by an earlier
\* leader, and is in the same partition, it is behind all records of that one;
\* and it is in the same partition if they have the same key and neither request
\* named a partition: the records of a key keep their order.
KeyOrder ==
  \A a, b \in acked :
    /\ a.cmd.id \in b.cmd.after
    /\ {a.node, b.node} \cap (replayed \cup disturbed) = {}
    => /\ a.cmd.partition = b.cmd.partition => a.offset + a.cmd.size <= b.offset
       /\ a.cmd.key = b.cmd.key /\ a.cmd.key # NoKey /\ ~a.cmd.named /\ ~b.cmd.named
            => a.cmd.partition = b.cmd.partition

\* What an acknowledged publish put into the log of one broker is in the log of
\* every broker that has got as far in the committed commands, unless an apply
\* failed or was cut short there, or a snapshot stands in for it: replays repeat
\* records, they do not lose any.
NothingLost ==
  \A n \in Nodes \ disturbed : \A k \in 1..applied[n] :
    ToSet(RecordsOf(committed[k])) \subseteq ToSet(plog[n][committed[k].partition])

=============================================================================
