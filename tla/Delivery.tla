------------------------------ MODULE Delivery ------------------------------
(***************************************************************************)
(* Delivery of one partition to one consumer group: the consume-group      *)
(* command of the client (cmd/cli/main.go) in its loop of FetchOffset,     *)
(* Consume, print and CommitOffset; the broker's handlers of these calls;  *)
(* and retention and compression, which SetTopicConfig changes under them  *)
(* (internal/broker/broker.go).                                            *)
(*                                                                         *)
(* The partition is what PartitionLog promises and CommitLog implements;   *)
(* all that matters of a record is whether it was written compressed,      *)
(* because a log reads all its records as its flag says at the time.       *)
(* The committed offset is a database entry and a cache entry written one  *)
(* after the other, as in ConsumerGroups.  A handler does not look at its  *)
(* context: when the client goes away or the connection breaks, it goes on *)
(* and only its answer is lost.                                            *)
(***************************************************************************)
EXTENDS Integers, Sequences, FiniteSets

CONSTANTS
  Followers,    \* clients started with --follow
  OneShots,     \* clients started without it, possibly again and again
  NoClient,     \* whom a handler answers whose client has gone
  MaxRecords,   \* bound: records in the partition
  MaxChanges,   \* bound: calls of SetTopicConfig
  MaxOthers,    \* bound: calls at a time that only matter for GetPartition
  MaxFaults     \* bound: crashes, kills, broken connections, failed transactions

Clients == Followers \cup OneShots

ASSUME DeliveryAssumption ==
  /\ Followers \cap OneShots = {} /\ NoClient \notin Clients
  /\ MaxRecords \in Nat /\ MaxChanges \in Nat
  /\ MaxOthers \in Nat /\ MaxFaults \in Nat

VARIABLES
  \* broker
  first, content,   \* the partition log
  compressed,       \* Log.compressed
  up,               \* the process runs
  topicOpen,        \* the topic is in Broker.logs and has its retention worker
  config,           \* Broker.topicConfigs of the topic
  sweeping,         \* enforceTopicRetention is past its checks
  db, cache,        \* the group's committed offset
  requests,         \* calls in the broker that use the partition
  \* clients
  client,           \* where the loop of each client is
  \* printed
  printed,          \* offsets whose record was printed
  shared,           \* two clients of the group were running at a time
  changes, faults

log     == <<first, content>>
broker  == <<up, topicOpen, config, sweeping>>
offsets == <<db, cache>>
vars    == <<first, content, compressed, up, topicOpen, config, sweeping, db, cache, requests,
             client, printed, shared, changes, faults>>

Log == INSTANCE PartitionLog WITH Records <- BOOLEAN, BatchSizes <- {1}

Config == [retention : BOOLEAN, compressed : BOOLEAN]
NoConfig == [retention |-> FALSE, compressed |-> FALSE]

(***************************************************************************)
(* The calls that use the partition, and so pass through GetPartition: the *)
(* Consume and the CommitOffset of a client, FSM.Apply with a command, and *)
(* every other call, of which only what GetPartition does to the log       *)
(* matters here (publishes, the reads of other groups, the lag sweep).     *)
(* "zip" is the compression setting a call has read.  Calls without a      *)
(* client that agree in everything are one: the broker may have more.      *)
(***************************************************************************)
Request == [for : {"consume", "commit", "apply", "other"}, from : Clients \cup {NoClient},
            at : {"lookup", "configure", "use", "persist", "cache"}, offset : Nat, zip : BOOLEAN]

Internal(purpose) ==
  [for |-> purpose, from |-> NoClient, at |-> "lookup", offset |-> 0, zip |-> FALSE]

TypeOK ==
  /\ first \in Nat /\ content \in Seq(BOOLEAN)
  /\ compressed \in BOOLEAN
  /\ up \in BOOLEAN /\ topicOpen \in BOOLEAN /\ sweeping \in BOOLEAN
  /\ config \in Config
  /\ db \in Nat /\ cache \in Nat
  /\ requests \subseteq Request
  /\ client \in [Clients -> {"exit", "fetch", "wait"}]
  /\ printed \subseteq Nat
  /\ shared \in BOOLEAN
  /\ changes \in Nat /\ faults \in Nat

Init ==
  /\ Log!Init
  /\ compressed = FALSE
  /\ up = TRUE /\ topicOpen = FALSE /\ sweeping = FALSE
  /\ config = NoConfig
  /\ db = 0 /\ cache = 0
  /\ requests = {}
  /\ client = [c \in Clients |-> "exit"]
  /\ printed = {}
  /\ shared = FALSE
  /\ changes = 0 /\ faults = 0

NextOffset == first + Len(content)

Fault == faults < MaxFaults /\ faults' = faults + 1

(***************************************************************************)
(* The loop of a client.                                                   *)
(***************************************************************************)
\* After an error, and after a round that went well, a client with --follow
\* sleeps a second and starts over; the others return.
NextRound(c) == IF c \in Followers THEN "fetch" ELSE "exit"

EndRound(c) == client' = IF c = NoClient THEN client ELSE [client EXCEPT ![c] = NextRound(c)]

Start(c) ==
  /\ client[c] = "exit"
  /\ client' = [client EXCEPT ![c] = "fetch"]
  /\ shared' = (shared \/ \E d \in Clients \ {c} : client[d] # "exit")
  /\ UNCHANGED <<log, compressed, broker, offsets, requests, printed, changes, faults>>

\* Mutant: the last offset printed instead of the next one.
FetchOffsetBack == cache - 1

FetchOffset == cache

\* The offset fetched is asked for at once.
Fetch(c) ==
  /\ up
  /\ client[c] = "fetch"
  /\ client' = [client EXCEPT ![c] = "wait"]
  /\ requests' = requests \cup
       {[for |-> "consume", from |-> c, at |-> "lookup", offset |-> FetchOffset, zip |-> FALSE]}
  /\ UNCHANGED <<log, compressed, broker, offsets, printed, shared, changes, faults>>

\* No broker answers.
FetchRefused(c) ==
  /\ ~up
  /\ client[c] = "fetch"
  /\ EndRound(c)
  /\ UNCHANGED <<log, compressed, broker, offsets, requests, printed, shared, changes, faults>>

(***************************************************************************)
(* GetPartition finds or opens the log, and configurePartitionCompression  *)
(* reads the topic's configuration under one lock and sets the log's flag  *)
(* under another.  CommitOffset ends with it, for the group's lag, and so  *)
(* does, as far as it matters here, every other call.                      *)
(***************************************************************************)
Becomes(r, s) == requests' = (requests \ {r}) \cup {s}

Finish(r) == requests' = requests \ {r} /\ EndRound(r.from)

\* Mutant: only the call that opens the topic looks at its configuration, the
\* others keep the log's flag as it is.
TopicConfigOnce(r) ==
  /\ r.at = "lookup"
  /\ Becomes(r, [r EXCEPT !.at = "configure",
                          !.zip = IF topicOpen THEN compressed ELSE config.compressed])
  /\ topicOpen' = TRUE
  /\ UNCHANGED <<log, compressed, up, config, sweeping, offsets, client, printed, shared, changes,
                 faults>>

TopicConfig(r) ==
  /\ r.at = "lookup"
  /\ Becomes(r, [r EXCEPT !.at = "configure", !.zip = config.compressed])
  /\ topicOpen' = TRUE
  /\ UNCHANGED <<log, compressed, up, config, sweeping, offsets, client, printed, shared, changes,
                 faults>>

\* A topic that is not open is opened, which can fail.
GetPartitionFails(r) ==
  /\ r.at = "lookup"
  /\ ~topicOpen /\ Fault
  /\ Finish(r)
  /\ UNCHANGED <<log, compressed, broker, offsets, printed, shared, changes>>

SetCompressed(r) ==
  /\ r.at = "configure"
  /\ compressed' = r.zip
  /\ IF r.for \in {"consume", "apply"}
       THEN Becomes(r, [r EXCEPT !.at = "use", !.zip = FALSE]) /\ UNCHANGED client
       ELSE Finish(r)
  /\ UNCHANGED <<log, broker, offsets, printed, shared, changes, faults>>

(***************************************************************************)
(* Consume in its handler.                                                 *)
(***************************************************************************)
EncodingAt(offset) == content[offset - first + 1]

\* Mutant: the last record of the log is not found.
ReadableShort(offset) ==
  first <= offset /\ offset < NextOffset - 1 /\ EncodingAt(offset) = compressed

\* A record in the other encoding does not decode or has the wrong size.
Readable(offset) == first <= offset /\ offset < NextOffset /\ EncodingAt(offset) = compressed

\* The client commits the offset behind the record it printed.
\* Mutant: it commits two offsets on.
CommitTwoOn(r) == [r EXCEPT !.for = "commit", !.at = "persist", !.offset = @ + 2]

CommitOf(r) == [r EXCEPT !.for = "commit", !.at = "persist", !.offset = @ + 1]

Consume(r) ==
  /\ r.for = "consume" /\ r.at = "use"
  /\ Readable(r.offset)
  /\ printed' = printed \cup {r.offset}
  /\ Becomes(r, CommitOf(r))
  /\ UNCHANGED <<log, compressed, broker, offsets, client, shared, changes, faults>>

\* The offset is not in the log, or no longer, or its record cannot be decoded.
ConsumeFails(r) ==
  /\ r.for = "consume" /\ r.at = "use"
  /\ ~Readable(r.offset)
  /\ Finish(r)
  /\ UNCHANGED <<log, compressed, broker, offsets, printed, shared, changes, faults>>

(***************************************************************************)
(* CommitOffset in its handler.                                            *)
(***************************************************************************)
Persist(r) ==
  /\ r.for = "commit" /\ r.at = "persist"
  /\ db' = r.offset
  /\ Becomes(r, [r EXCEPT !.at = "cache"])
  /\ UNCHANGED <<log, compressed, broker, cache, client, printed, shared, changes, faults>>

PersistFails(r) ==
  /\ r.for = "commit" /\ r.at = "persist"
  /\ Fault
  /\ Finish(r)
  /\ UNCHANGED <<log, compressed, broker, offsets, printed, shared, changes>>

\* Mutant: the client has its answer before the cache is written.
UpdateCacheLate(r) ==
  /\ r.for = "commit" /\ r.at = "cache"
  /\ \/ r.from # NoClient /\ Becomes(r, [r EXCEPT !.from = NoClient]) /\ UNCHANGED cache
     \/ r.from = NoClient /\ Becomes(r, [r EXCEPT !.at = "lookup"]) /\ cache' = r.offset
  /\ EndRound(r.from)
  /\ UNCHANGED <<log, compressed, broker, db, printed, shared, changes, faults>>

\* The group's lag comes next, and with it GetPartition.
UpdateCache(r) ==
  /\ r.for = "commit" /\ r.at = "cache"
  /\ cache' = r.offset
  /\ Becomes(r, IF r.from = NoClient THEN Internal("other") ELSE [r EXCEPT !.at = "lookup"])
  /\ UNCHANGED <<log, compressed, broker, db, client, printed, shared, changes, faults>>

(***************************************************************************)
(* What becomes of a call whose client is killed or loses the connection:  *)
(* it never reached the broker, or its handler goes on.  What a handler    *)
(* only reads for an answer that is lost is left out: of Consume, and of   *)
(* CommitOffset behind the cache, GetPartition is all that is left.        *)
(***************************************************************************)
WithoutClient(r) ==
  IF r.at \in {"lookup", "configure"}
    THEN [r EXCEPT !.for = "other", !.from = NoClient, !.offset = 0]
    ELSE [r EXCEPT !.from = NoClient]

NotSent(r) == r.at = IF r.for = "consume" THEN "lookup" ELSE "persist"

Abandoned(mine) ==
  \/ requests' = requests \ mine /\ \A r \in mine : NotSent(r)
  \/ requests' = (requests \ mine) \cup {WithoutClient(r) : r \in {s \in mine : s.at # "use"}}

Of(c) == {r \in requests : r.from = c}

Disconnect(c) ==
  /\ client[c] = "wait"
  /\ Fault
  /\ Abandoned(Of(c))
  /\ EndRound(c)
  /\ UNCHANGED <<log, compressed, broker, offsets, printed, shared, changes>>

Kill(c) ==
  /\ client[c] # "exit"
  /\ Fault
  /\ Abandoned(Of(c))
  /\ client' = [client EXCEPT ![c] = "exit"]
  /\ UNCHANGED <<log, compressed, broker, offsets, printed, shared, changes>>

(***************************************************************************)
(* The rest of the broker.                                                 *)
(***************************************************************************)
\* The FSM applies one command at a time: it calls GetPartition ...
Apply ==
  /\ up /\ NextOffset < MaxRecords
  /\ \A r \in requests : r.for # "apply"
  /\ requests' = requests \cup {Internal("apply")}
  /\ UNCHANGED <<log, compressed, broker, offsets, client, printed, shared, changes, faults>>

\* ... and appends a record as the log's flag says by then.
AppendRecord(r) ==
  /\ r.for = "apply" /\ r.at = "use"
  /\ requests' = requests \ {r}
  /\ Log!Extend(1) /\ content'[Len(content) + 1] = compressed
  /\ UNCHANGED <<compressed, broker, offsets, client, printed, shared, changes, faults>>

\* Any of the other calls begins.
OtherCall ==
  /\ up /\ Cardinality({r \in requests : r.for = "other"}) < MaxOthers
  /\ requests' = requests \cup {Internal("other")}
  /\ UNCHANGED <<log, compressed, broker, offsets, client, printed, shared, changes, faults>>

\* SetTopicConfig calls GetPartition when the topic has no retention worker yet.
SetTopicConfig(new) ==
  /\ up /\ changes < MaxChanges
  /\ config' = new
  /\ changes' = changes + 1
  /\ requests' = IF topicOpen THEN requests ELSE requests \cup {Internal("other")}
  /\ UNCHANGED <<log, compressed, up, topicOpen, sweeping, offsets, client, printed, shared,
                 faults>>

\* The topic's retention worker ticks while the broker leads, which it may or
\* may not: leadership and configuration are looked at once.
RetentionStarts ==
  /\ up /\ topicOpen /\ ~sweeping
  /\ config.retention
  /\ sweeping' = TRUE
  /\ UNCHANGED <<log, compressed, up, topicOpen, config, offsets, requests, client, printed, shared,
                 changes, faults>>

\* EnforceRetention removes the oldest segments, as many as its limits say.
EnforceRetention ==
  /\ up /\ sweeping
  /\ sweeping' = FALSE
  /\ \/ UNCHANGED log
     \/ \E n \in 1..Len(content) : Log!Trim(n)
  /\ UNCHANGED <<compressed, up, topicOpen, config, offsets, requests, client, printed, shared,
                 changes, faults>>

\* The process dies between two appends; files stay, the configuration of
\* topics, which is only in memory, does not.
Crash ==
  /\ up /\ Fault
  /\ up' = FALSE /\ topicOpen' = FALSE /\ sweeping' = FALSE
  /\ config' = NoConfig /\ compressed' = FALSE
  /\ cache' = 0
  /\ requests' = {}
  /\ client' = [c \in Clients |-> IF client[c] = "wait" THEN NextRound(c) ELSE client[c]]
  /\ UNCHANGED <<log, db, printed, shared, changes>>

\* Mutant: a group starts at the end of the log.
RestartAtLatest ==
  /\ ~up
  /\ up' = TRUE
  /\ cache' = NextOffset
  /\ UNCHANGED <<log, compressed, topicOpen, config, sweeping, db, requests, client, printed,
                 shared, changes, faults>>

\* NewConsumerGroupStore loads the database.
Restart ==
  /\ ~up
  /\ up' = TRUE
  /\ cache' = db
  /\ UNCHANGED <<log, compressed, topicOpen, config, sweeping, db, requests, client, printed,
                 shared, changes, faults>>

Serve(r) ==
  \/ TopicConfig(r) \/ SetCompressed(r)
  \/ Consume(r) \/ ConsumeFails(r)
  \/ Persist(r) \/ UpdateCache(r)
  \/ AppendRecord(r)

Next ==
  \/ \E c \in Clients : Start(c) \/ Fetch(c) \/ FetchRefused(c) \/ Disconnect(c) \/ Kill(c)
  \/ \E r \in requests : Serve(r) \/ GetPartitionFails(r) \/ PersistFails(r)
  \/ Apply \/ OtherCall
  \/ \E new \in Config : SetTopicConfig(new)
  \/ RetentionStarts \/ EnforceRetention
  \/ Crash \/ Restart

Spec == Init /\ [][Next]_vars

\* Clients that run and the handlers of their calls go on.  Nobody has to start
\* a client, produce, configure a topic or restart a broker, and the calls that
\* no client waits for may take for ever.
Fairness ==
  \A c \in Clients :
    /\ WF_vars(Fetch(c) \/ FetchRefused(c))
    /\ WF_vars(\E r \in requests : r.from = c /\ Serve(r))

FairSpec == Spec /\ Fairness

(***************************************************************************)
(* Properties.                                                             *)
(***************************************************************************)
CanGoOn ==
  /\ up
  /\ \E c \in Followers : client[c] # "exit"
  /\ first <= FetchOffset
  /\ FetchOffset < NextOffset => EncodingAt(FetchOffset) = config.compressed

\* At least once: whatever clients of the group overlap, die and are started
\* again, and whatever answers get lost, the committed offset, in the database
\* and in the cache, passes no record that was not printed.
CommittedWasPrinted ==
  \A o \in 0..(db - 1) \cup 0..(cache - 1) : o \in printed

\* Records are printed for the first time in the order of the log, none left
\* out.
FirstPrintsInOrder ==
  [][\A o \in printed' \ printed : \A p \in 0..(o - 1) : p \in printed]_vars

\* Exactly once: Consume answers a client with a record that was printed before
\* only if two clients shared the group or something failed.
OnceUnlessDisturbed ==
  \A r \in requests :
    r.for = "consume" /\ r.at = "use" /\ Readable(r.offset) /\ r.offset \in printed =>
      shared \/ faults > 0

\* A follower gets every record of the log as long as the broker and a follower
\* run, unless the group's next record is gone or unreadable for good: a
\* committed offset that retention has passed, or whose record is in another
\* encoding than the topic is configured for, is asked for over and over.
Progress ==
  <>[]CanGoOn => []<>(\A o \in 0..(NextOffset - 1) : o \in printed)

\* A handler can set the log's compression from a configuration that was
\* changed after it had been read; while a follower polls, the flag is put
\* right in the end.
CompressionSettles ==
  <>[](\/ compressed = config.compressed
       \/ \A c \in Followers : client[c] = "exit"
       \/ ~up)

=============================================================================
