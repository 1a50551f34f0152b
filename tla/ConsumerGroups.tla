--------------------------- MODULE ConsumerGroups ---------------------------
(***************************************************************************)
(* Committed consumer-group offsets: ConsumerGroupStore                    *)
(* (internal/broker/consumer_group.go), the CommitOffset handlers of the   *)
(* broker that call it and the lag gauge they and the 15-second sweep set. *)
(*                                                                         *)
(* CommitOffset writes BoltDB in one transaction and the in-memory cache   *)
(* under another lock, so handlers interleave between the two; the gauge   *)
(* is set later still, from values read before.  A key stands for one      *)
(* (group, topic, partition); offsetKey is injective because commits with  *)
(* a NUL byte in either name are refused.  All keys read one partition,    *)
(* whose log GetPartition opens at the first call that succeeds: a topic   *)
(* whose directory cannot be loaded, or whose name is not allowed, takes   *)
(* commits all the same.                                                   *)
(***************************************************************************)
EXTENDS Integers, FiniteSets

CONSTANTS
  Keys,         \* consumer groups of the partition
  Handlers,     \* goroutines serving CommitOffset requests
  Offsets,      \* offsets that clients commit
  MaxHead,      \* bound: records in the partition
  MaxCommits,   \* bound: commit requests in one behaviour
  MaxCrashes    \* bound: crashes of the broker

ASSUME ConsumerGroupsAssumption ==
  /\ Offsets \subseteq Nat
  /\ MaxHead \in Nat /\ MaxCommits \in Nat /\ MaxCrashes \in Nat

VARIABLES
  up,        \* the broker process is running
  db,        \* the consumer-groups bucket: the commit that wrote each key
  cache,     \* ConsumerGroupStore.offsets, likewise
  gauge,     \* consumerGroupLag per key
  open,      \* Broker.logs has the topic
  head,      \* records in the partition's log
  handler,   \* what each handler is doing
  sweep,     \* what updateConsumerGroupLag is doing
  count,     \* commit requests so far; numbers the commits
  crashes,
  standing,  \* history: per key, the commits that no acknowledged later one replaced
  settled    \* history: commits whose handler has returned

vars == <<up, db, cache, gauge, open, head, handler, sweep, count, crashes, standing, settled>>

\* A stored offset, tagged with the number of its commit for the properties.
Commit == [id : Nat, offset : Nat]
None == [id |-> 0, offset |-> 0]   \* no entry: FetchOffset returns zero

Absent == -1   \* a gauge that was never set
Idle == [pc |-> "idle"]

Busy == [pc : {"persist", "cache", "latest"}, key : Keys, commit : Commit, before : SUBSET Commit]
          \cup [pc : {"gauge"}, key : Keys, commit : Commit, before : SUBSET Commit, latest : Nat]

Entry == [key : Keys, offset : Nat]

TypeOK ==
  /\ up \in BOOLEAN
  /\ db \in [Keys -> Commit]
  /\ cache \in [Keys -> Commit]
  /\ gauge \in [Keys -> Nat \cup {Absent}]
  /\ open \in BOOLEAN
  /\ head \in Nat
  /\ handler \in [Handlers -> Busy \cup {Idle}]
  /\ sweep \in [todo : SUBSET Entry, latest : Nat \cup {Absent}]
  /\ count \in Nat
  /\ crashes \in Nat
  /\ standing \in [Keys -> SUBSET Commit]
  /\ settled \subseteq Commit

NoSweep == [todo |-> {}, latest |-> Absent]

Init ==
  /\ up = TRUE
  /\ db = [k \in Keys |-> None]
  /\ cache = [k \in Keys |-> None]
  /\ gauge = [k \in Keys |-> Absent]
  /\ open = FALSE
  /\ head = 0
  /\ handler = [h \in Handlers |-> Idle]
  /\ sweep = NoSweep
  /\ count = 0
  /\ crashes = 0
  /\ standing = [k \in Keys |-> {None}]
  /\ settled = {None}

\* Log.LatestOffset of the partition: 0 for an empty log too.
LatestOffset == IF head = 0 THEN 0 ELSE head - 1

\* Mutant: a commit past the latest offset is not clamped.
LagUnclamped(latest, offset) == latest - offset

Lag(latest, offset) == IF latest >= offset THEN latest - offset ELSE 0

FetchOffset(k) == cache[k].offset

\* GetPartition finds the topic, or opens it; some call other than the ones
\* below may be the first to do so.
GetPartition == open' = TRUE

OpenTopic ==
  /\ up /\ ~open
  /\ GetPartition
  /\ UNCHANGED <<up, db, cache, gauge, head, handler, sweep, count, crashes, standing, settled>>

\* A record is appended to the partition.
Produce ==
  /\ up
  /\ head < MaxHead
  /\ GetPartition
  /\ head' = head + 1
  /\ UNCHANGED <<up, db, cache, gauge, handler, sweep, count, crashes, standing, settled>>

(***************************************************************************)
(* One CommitOffset request, step by step.                                 *)
(***************************************************************************)
Receive(h, k, offset) ==
  /\ up
  /\ handler[h] = Idle
  /\ count < MaxCommits
  /\ LET commit == [id |-> count + 1, offset |-> offset]
     IN  /\ handler' = [handler EXCEPT ![h] =
                          [pc |-> "persist", key |-> k, commit |-> commit,
                           before |-> settled]]
         /\ standing' = [standing EXCEPT ![k] = @ \cup {commit}]
  /\ count' = count + 1
  /\ UNCHANGED <<up, db, cache, gauge, open, head, sweep, crashes, settled>>

At(h, pc) == up /\ handler[h].pc = pc

\* db.Update commits ...
Persist(h) ==
  /\ At(h, "persist")
  /\ db' = [db EXCEPT ![handler[h].key] = handler[h].commit]
  /\ handler' = [handler EXCEPT ![h].pc = "cache"]
  /\ UNCHANGED <<up, cache, gauge, open, head, sweep, count, crashes, standing, settled>>

\* ... or fails: the client gets the error and nothing else happens.
PersistFails(h) ==
  /\ At(h, "persist")
  /\ handler' = [handler EXCEPT ![h] = Idle]
  /\ settled' = settled \cup {handler[h].commit}
  /\ standing' = [standing EXCEPT ![handler[h].key] = @ \ {handler[h].commit}]
  /\ UNCHANGED <<up, db, cache, gauge, open, head, sweep, count, crashes>>

UpdateCache(h) ==
  /\ At(h, "cache")
  /\ cache' = [cache EXCEPT ![handler[h].key] = handler[h].commit]
  /\ handler' = [handler EXCEPT ![h].pc = "latest"]
  /\ UNCHANGED <<up, db, gauge, open, head, sweep, count, crashes, standing, settled>>

\* updateConsumerGroupLagFor: the latest offset is read, then the gauge set.
ReadLatest(h) ==
  /\ At(h, "latest")
  /\ GetPartition
  /\ handler' = [handler EXCEPT ![h] =
                   [pc |-> "gauge", key |-> @.key, commit |-> @.commit,
                    before |-> @.before, latest |-> LatestOffset]]
  /\ UNCHANGED <<up, db, cache, gauge, head, sweep, count, crashes, standing, settled>>

\* The response is sent: every commit that had returned before this one was
\* received is replaced for good.
Answer(h) ==
  /\ standing' = [standing EXCEPT ![handler[h].key] = @ \ handler[h].before]
  /\ settled' = settled \cup {handler[h].commit}
  /\ handler' = [handler EXCEPT ![h] = Idle]

Respond(h) ==
  /\ At(h, "gauge")
  /\ gauge' = [gauge EXCEPT ![handler[h].key] = Lag(handler[h].latest, handler[h].commit.offset)]
  /\ Answer(h)
  /\ UNCHANGED <<up, db, cache, open, head, sweep, count, crashes>>

\* The log cannot be opened: the client is told all is well, the gauge stays.
RespondWithoutLag(h) ==
  /\ At(h, "latest") /\ ~open
  /\ Answer(h)
  /\ UNCHANGED <<up, db, cache, gauge, open, head, sweep, count, crashes>>

(***************************************************************************)
(* updateConsumerGroupLag: a Snapshot of the cache, then one gauge after   *)
(* another in the map's order, which is any order.                         *)
(***************************************************************************)
\* Mutant: the sweep leaves out the groups whose gauge is already set.
SnapshotOfUnset ==
  {[key |-> k, offset |-> cache[k].offset] :
     k \in {k \in Keys : cache[k] # None /\ gauge[k] = Absent}}

Snapshot == {[key |-> k, offset |-> cache[k].offset] : k \in {k \in Keys : cache[k] # None}}

SweepStarts ==
  /\ up
  /\ sweep = NoSweep
  /\ sweep' = [sweep EXCEPT !.todo = Snapshot]
  /\ UNCHANGED <<up, db, cache, gauge, open, head, handler, count, crashes, standing, settled>>

SweepReads ==
  /\ up
  /\ sweep.todo # {} /\ sweep.latest = Absent
  /\ GetPartition
  /\ sweep' = [sweep EXCEPT !.latest = LatestOffset]
  /\ UNCHANGED <<up, db, cache, gauge, head, handler, count, crashes, standing, settled>>

\* The log cannot be opened: the group's gauge is left as it is.
SweepSkips(e) ==
  /\ up
  /\ e \in sweep.todo /\ sweep.latest = Absent
  /\ ~open
  /\ sweep' = [sweep EXCEPT !.todo = @ \ {e}]
  /\ UNCHANGED <<up, db, cache, gauge, open, head, handler, count, crashes, standing, settled>>

SweepSets(e) ==
  /\ up
  /\ e \in sweep.todo /\ sweep.latest # Absent
  /\ gauge' = [gauge EXCEPT ![e.key] = Lag(sweep.latest, e.offset)]
  /\ sweep' = [todo |-> sweep.todo \ {e}, latest |-> Absent]
  /\ UNCHANGED <<up, db, cache, open, head, handler, count, crashes, standing, settled>>

(***************************************************************************)
(* The broker stops at any point; only the database outlives it.  On       *)
(* restart NewConsumerGroupStore loads the database into the cache.        *)
(***************************************************************************)
InFlight == {handler[h].commit : h \in {h \in Handlers : handler[h] # Idle}}

Crash ==
  /\ up
  /\ crashes < MaxCrashes
  /\ crashes' = crashes + 1
  /\ up' = FALSE
  /\ cache' = [k \in Keys |-> None]
  /\ gauge' = [k \in Keys |-> Absent]
  /\ open' = FALSE
  /\ handler' = [h \in Handlers |-> Idle]
  /\ sweep' = NoSweep
  /\ settled' = settled \cup InFlight
  /\ UNCHANGED <<db, head, count, standing>>

\* Mutant: the bucket is not loaded.
RestartEmpty ==
  /\ ~up
  /\ up' = TRUE
  /\ UNCHANGED <<db, cache, gauge, open, head, handler, sweep, count, crashes, standing, settled>>

Restart ==
  /\ ~up
  /\ up' = TRUE
  /\ cache' = db
  /\ UNCHANGED <<db, gauge, open, head, handler, sweep, count, crashes, standing, settled>>

Serve(h) ==
  \/ Persist(h) \/ PersistFails(h) \/ UpdateCache(h)
  \/ ReadLatest(h) \/ Respond(h) \/ RespondWithoutLag(h)

Sweep == SweepReads \/ \E e \in sweep.todo : SweepSkips(e) \/ SweepSets(e)

Next ==
  \/ OpenTopic \/ Produce
  \/ \E h \in Handlers, k \in Keys, offset \in Offsets : Receive(h, k, offset)
  \/ \E h \in Handlers : Serve(h)
  \/ SweepStarts \/ Sweep
  \/ Crash \/ Restart

Spec == Init /\ [][Next]_vars

\* The runtime schedules every goroutine and the sweep's ticker keeps firing.
\* Nobody has to restart a broker that crashed, nor does a log that could not
\* be opened ever have to open.
Fairness ==
  /\ \A h \in Handlers : WF_vars(Serve(h))
  /\ WF_vars(SweepStarts) /\ WF_vars(Sweep)

FairSpec == Spec /\ Fairness

(***************************************************************************)
(* Properties.                                                             *)
(***************************************************************************)

\* With any number of overlapping commits, failures and crashes, the database
\* and the cache hold a commit that no later acknowledged one replaced: a group
\* that resumes after its commit was acknowledged never goes back to an offset
\* it had committed before, nor to one whose commit was refused.
StandingCommit ==
  \A k \in Keys : db[k] \in standing[k] /\ (up => cache[k] \in standing[k])

\* When no commit is in flight, FetchOffset answers what the database holds
\* and what it would answer after a restart.
CacheMatchesStore ==
  up /\ (\A h \in Handlers : handler[h] = Idle) =>
    \A k \in Keys : FetchOffset(k) = db[k].offset

\* The lag gauge can be set from values read before a concurrent commit or
\* append, and it is not set at all while the log cannot be opened; but once
\* the topic is open and those stop, the sweep makes it right for every group.
LagSettles ==
  <>[](open => \A k \in Keys : cache[k] # None =>
                 gauge[k] = Lag(LatestOffset, FetchOffset(k)))

=============================================================================
