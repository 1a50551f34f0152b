-------------------------- MODULE BrokerLifecycle --------------------------
(***************************************************************************)
(* The goroutines of one broker (internal/broker/broker.go) from the start *)
(* of its servers to the return of Close: NewBroker, which joins a cluster *)
(* and starts the workers while requests already come in; request handlers *)
(* and the Raft FSM that find or create partition logs through             *)
(* GetPartition; the background workers for compaction, retention (one per *)
(* topic) and consumer lag; and Close, which stops all of them in turn,    *)
(* after a signal or after a start that failed.                            *)
(*                                                                         *)
(* A worker's loop evaluates its stop channel, a field of Broker, each     *)
(* time it enters its select.  Close closes the channel, sets the field to *)
(* nil and waits for the worker group; nothing orders the two, so a worker *)
(* may enter the select before or after each of Close's steps.             *)
(***************************************************************************)
EXTENDS Integers, Sequences, FiniteSets

CONSTANTS
  Topics,        \* topics that requests may name
  GrpcHandlers,  \* goroutines serving gRPC calls
  HttpHandlers,  \* goroutines serving HTTP requests
  JoinAttempts   \* how often joinPeer asks the peer

(***************************************************************************)
(* Everything that calls GetPartition: handlers, FSM.Apply, and the lag    *)
(* worker, which looks up the partition of every committed offset.         *)
(***************************************************************************)
Callers == GrpcHandlers \cup HttpHandlers \cup {"fsm", "lag"}

ASSUME BrokerLifecycleAssumption ==
  /\ Topics \cap {"compaction", "lag"} = {}
  /\ GrpcHandlers \cap HttpHandlers = {}
  /\ (GrpcHandlers \cup HttpHandlers) \cap {"fsm", "lag"} = {}
  /\ IsFiniteSet(GrpcHandlers) /\ IsFiniteSet(HttpHandlers)
  /\ JoinAttempts \in Nat \ {0}

Workers == Topics \cup {"compaction", "lag"}
Groups == <<"compaction", "retention", "lag">>   \* in the order Close stops them
GroupOf(w) == IF w \in Topics THEN "retention" ELSE w
Members(g) == {w \in Workers : GroupOf(w) = g}

VARIABLES
  logs,         \* Broker.logs: the topics whose Log objects it holds
  opened,       \* how often each topic's directories are opened by Log objects
  caller,       \* progress of each caller through GetPartition and its use
  worker,       \* state of each worker goroutine
  lagTodo,      \* topics of the committed offsets the lag worker has still to visit
  late,         \* retention workers started after Close waited for retention
  stopField,    \* the stop channel fields: "chan" or "nil"
  stopClosed,   \* whether the channel made at start has been closed
  grpcOpen, httpOpen, raftUp, leader,
  logsOpen, storeOpen,
  pc            \* progress of NewBroker and of Close

vars == <<logs, opened, caller, worker, lagTodo, late, stopField, stopClosed,
          grpcOpen, httpOpen, raftUp, leader, logsOpen, storeOpen, pc>>

servers == <<grpcOpen, httpOpen, raftUp, leader, logsOpen, storeOpen>>
topics  == <<logs, opened>>
signals == <<stopField, stopClosed>>

GroupNames == {Groups[i] : i \in DOMAIN Groups}
Stages ==
  {[at |-> s, group |-> i] : s \in {"close", "nil", "wait"}, i \in DOMAIN Groups}
    \cup {[at |-> "join", group |-> i] : i \in 1..JoinAttempts}   \* the attempt
    \cup {[at |-> s, group |-> 0] :
            s \in {"listen", "workers", "serving", "grpc", "grpcWait", "http", "httpWait", "raft",
                   "raftWait", "logs", "store", "done"}}

TypeOK ==
  /\ logs \subseteq Topics
  /\ opened \in [Topics -> Nat]
  /\ caller \in [Callers -> [at : {"idle", "lookup", "create", "discard", "start", "use"},
                             topic : Topics]]
  /\ worker \in [Workers -> {"off", "load", "select", "deaf", "check", "work", "gone"}]
  /\ lagTodo \subseteq Topics
  /\ late \subseteq Topics
  /\ stopField \in [GroupNames -> {"chan", "nil"}]
  /\ stopClosed \in [GroupNames -> BOOLEAN]
  /\ <<grpcOpen, httpOpen, raftUp>> \in BOOLEAN \X BOOLEAN \X BOOLEAN
  /\ <<leader, logsOpen, storeOpen>> \in BOOLEAN \X BOOLEAN \X BOOLEAN
  /\ pc \in Stages

Stage(s) == [at |-> s, group |-> 0]

\* NewBroker has opened the store, started Raft and the HTTP server.
Init ==
  /\ logs = {}
  /\ opened = [t \in Topics |-> 0]
  /\ caller \in {[c \in Callers |-> [at |-> "idle", topic |-> t]] : t \in Topics}
  /\ worker = [w \in Workers |-> "off"]
  /\ lagTodo = {}
  /\ late = {}
  /\ stopField = [g \in GroupNames |-> "chan"]
  /\ stopClosed = [g \in GroupNames |-> FALSE]
  /\ grpcOpen = FALSE /\ httpOpen = TRUE /\ raftUp = TRUE
  /\ leader \in BOOLEAN
  /\ logsOpen = TRUE /\ storeOpen = TRUE
  /\ pc = Stage("listen")

\* main returns after Close, and the process with all its goroutines is gone.
Alive == pc # Stage("done")

(***************************************************************************)
(* GetPartition: a lookup under the read lock; if the topic is missing, a  *)
(* second lookup under the write lock and NewLog for every partition; then *)
(* the retention worker is started with no lock held.  When NewLog fails,  *)
(* the partitions already opened are closed after the lock is released.    *)
(***************************************************************************)
MayStart(c, t) ==
  \/ c \in GrpcHandlers /\ grpcOpen
  \/ c \in HttpHandlers /\ httpOpen
  \/ c = "fsm" /\ raftUp
  \/ c = "lag" /\ t \in lagTodo

Move(c, at) == caller' = [caller EXCEPT ![c].at = at]

Call(c, t) ==
  /\ Alive
  /\ caller[c].at = "idle"
  /\ MayStart(c, t)
  /\ caller' = [caller EXCEPT ![c] = [at |-> "lookup", topic |-> t]]
  /\ lagTodo' = IF c = "lag" THEN lagTodo \ {t} ELSE lagTodo
  /\ UNCHANGED <<topics, worker, late, signals, servers, pc>>

Lookup(c) ==
  /\ Alive
  /\ caller[c].at = "lookup"
  /\ Move(c, IF caller[c].topic \in logs THEN "use" ELSE "create")
  /\ UNCHANGED <<topics, worker, lagTodo, late, signals, servers, pc>>

\* Mutant: the write lock is taken without looking again.
CreateUnchecked(c) ==
  /\ Alive
  /\ caller[c].at = "create"
  /\ logs' = logs \cup {caller[c].topic}
  /\ opened' = [opened EXCEPT ![caller[c].topic] = @ + 1]
  /\ Move(c, "start")
  /\ UNCHANGED <<worker, lagTodo, late, signals, servers, pc>>

Create(c) ==
  /\ Alive
  /\ caller[c].at = "create"
  /\ \/ /\ caller[c].topic \in logs
        /\ Move(c, "use")
        /\ UNCHANGED topics
     \/ /\ caller[c].topic \notin logs
        /\ logs' = logs \cup {caller[c].topic}
        /\ opened' = [opened EXCEPT ![caller[c].topic] = @ + 1]
        /\ Move(c, "start")
  /\ UNCHANGED <<worker, lagTodo, late, signals, servers, pc>>

\* NewLog fails for the first partition, or for a later one and leaves those
\* before it open.
CreateFails(c) ==
  /\ Alive
  /\ caller[c].at = "create"
  /\ caller[c].topic \notin logs
  /\ \/ Move(c, "idle") /\ UNCHANGED opened
     \/ Move(c, "discard") /\ opened' = [opened EXCEPT ![caller[c].topic] = @ + 1]
  /\ UNCHANGED <<logs, worker, lagTodo, late, signals, servers, pc>>

\* With no lock held, the caller closes the logs it opened and returns the error.
Discard(c) ==
  /\ Alive
  /\ caller[c].at = "discard"
  /\ opened' = [opened EXCEPT ![caller[c].topic] = @ - 1]
  /\ Move(c, "idle")
  /\ UNCHANGED <<logs, worker, lagTodo, late, signals, servers, pc>>

Starting == pc.at \in {"listen", "join", "workers"}

RetentionAwaited ==
  /\ ~Starting
  /\ pc.at \notin {"serving", "close", "nil", "wait"} \/ pc.group > 2

\* startTopicRetentionUpdater
StartRetention(c) ==
  /\ Alive
  /\ caller[c].at = "start"
  /\ LET t == caller[c].topic
     IN  /\ worker' = [worker EXCEPT ![t] = "load"]
         /\ late' = IF RetentionAwaited THEN late \cup {t} ELSE late
  /\ Move(c, "use")
  /\ UNCHANGED <<topics, lagTodo, signals, servers, pc>>

\* The caller appends to, or reads from, the log and returns.
Return(c) ==
  /\ Alive
  /\ caller[c].at = "use"
  /\ Move(c, "idle")
  /\ UNCHANGED <<topics, worker, lagTodo, late, signals, servers, pc>>

(***************************************************************************)
(* The loop of a worker.  After a tick compaction and retention go on only *)
(* on the Raft leader; the lag worker goes on in any case.                 *)
(***************************************************************************)
Goto(w, state) == worker' = [worker EXCEPT ![w] = state]

Load(w) ==
  /\ Alive
  /\ worker[w] = "load"
  /\ Goto(w, IF stopField[GroupOf(w)] = "nil" THEN "deaf" ELSE "select")
  /\ UNCHANGED <<topics, caller, lagTodo, late, signals, servers, pc>>

Tick(w) ==
  /\ Alive
  /\ worker[w] \in {"select", "deaf"}
  /\ Goto(w, "check")
  /\ UNCHANGED <<topics, caller, lagTodo, late, signals, servers, pc>>

Check(w) ==
  /\ Alive
  /\ worker[w] = "check"
  /\ Goto(w, IF w = "lag" \/ (raftUp /\ leader) THEN "work" ELSE "load")
  /\ lagTodo' \in (IF w = "lag" THEN SUBSET Topics ELSE {lagTodo})
  /\ UNCHANGED <<topics, caller, late, signals, servers, pc>>

Finish(w) ==
  /\ Alive
  /\ worker[w] = "work"
  /\ w = "lag" => caller["lag"].at = "idle" /\ lagTodo = {}
  /\ Goto(w, "load")
  /\ UNCHANGED <<topics, caller, lagTodo, late, signals, servers, pc>>

Stopped(w) ==
  /\ Alive
  /\ worker[w] = "select"
  /\ stopClosed[GroupOf(w)]
  /\ Goto(w, "gone")
  /\ UNCHANGED <<topics, caller, lagTodo, late, signals, servers, pc>>

\* Leadership comes and goes with elections.
Elect ==
  /\ Alive
  /\ raftUp
  /\ leader' = ~leader
  /\ UNCHANGED <<topics, caller, worker, lagTodo, late, signals, grpcOpen, httpOpen, raftUp,
                 logsOpen, storeOpen, pc>>

(***************************************************************************)
(* The rest of NewBroker.                                                  *)
(***************************************************************************)
FirstOfClose == [at |-> "close", group |-> 1]

\* The gRPC server listens and serves.  A broker without peers bootstraps its
\* own cluster instead of joining one.
StartGrpc ==
  /\ pc = Stage("listen")
  /\ grpcOpen' = TRUE
  /\ pc' \in {[at |-> "join", group |-> 1], Stage("workers")}
  /\ UNCHANGED <<topics, caller, worker, lagTodo, late, signals, httpOpen, raftUp, leader,
                 logsOpen, storeOpen>>

\* The address cannot be used, or the certificates cannot be loaded.
StartGrpcFails ==
  /\ pc = Stage("listen")
  /\ pc' = FirstOfClose
  /\ UNCHANGED <<topics, caller, worker, lagTodo, late, signals, servers>>

\* Mutant: one attempt too many.
JoinPeerOnceMore ==
  /\ pc.at = "join"
  /\ \/ pc' = Stage("workers")
     \/ pc' = IF pc.group <= JoinAttempts THEN [pc EXCEPT !.group = @ + 1] ELSE FirstOfClose
  /\ UNCHANGED <<topics, caller, worker, lagTodo, late, signals, servers>>

\* joinPeer: the peer accepts the broker as a voter, or the attempt fails.
JoinPeer ==
  /\ pc.at = "join"
  /\ \/ pc' = Stage("workers")
     \/ pc' = IF pc.group < JoinAttempts THEN [pc EXCEPT !.group = @ + 1] ELSE FirstOfClose
  /\ UNCHANGED <<topics, caller, worker, lagTodo, late, signals, servers>>

StartWorkers ==
  /\ pc = Stage("workers")
  /\ worker' = [worker EXCEPT !["lag"] = "load", !["compaction"] = "load"]
  /\ pc' = Stage("serving")
  /\ UNCHANGED <<topics, caller, lagTodo, late, signals, servers>>

(***************************************************************************)
(* Close.                                                                  *)
(***************************************************************************)
unclosed == <<topics, caller, worker, lagTodo, late, leader>>

Signal ==
  /\ pc = Stage("serving")
  /\ pc' = FirstOfClose
  /\ UNCHANGED <<unclosed, signals, grpcOpen, httpOpen, raftUp, logsOpen, storeOpen>>

\* Mutant: the field is cleared without closing the channel.
CloseChannelForgotten ==
  /\ pc.at = "close"
  /\ pc' = [pc EXCEPT !.at = "nil"]
  /\ UNCHANGED <<unclosed, signals, grpcOpen, httpOpen, raftUp, logsOpen, storeOpen>>

CloseChannel ==
  /\ pc.at = "close"
  /\ stopClosed' = [stopClosed EXCEPT ![Groups[pc.group]] = TRUE]
  /\ pc' = [pc EXCEPT !.at = "nil"]
  /\ UNCHANGED <<unclosed, stopField, grpcOpen, httpOpen, raftUp, logsOpen, storeOpen>>

ClearField ==
  /\ pc.at = "nil"
  /\ stopField' = [stopField EXCEPT ![Groups[pc.group]] = "nil"]
  /\ pc' = [pc EXCEPT !.at = "wait"]
  /\ UNCHANGED <<unclosed, stopClosed, grpcOpen, httpOpen, raftUp, logsOpen, storeOpen>>

GroupDone(g) == \A w \in Members(g) : worker[w] \in {"off", "gone"}

AwaitGroup ==
  /\ pc.at = "wait"
  /\ GroupDone(Groups[pc.group])
  /\ pc' = IF pc.group < Len(Groups) THEN [at |-> "close", group |-> pc.group + 1]
                                     ELSE Stage("grpc")
  /\ UNCHANGED <<unclosed, signals, grpcOpen, httpOpen, raftUp, logsOpen, storeOpen>>

AllIdle(callers) == \A c \in callers : caller[c].at = "idle"

\* Mutant: new calls are still accepted while Close waits for the running ones.
StopGrpcAccepting ==
  /\ \/ pc = Stage("grpc") /\ pc' = Stage("grpcWait")
     \/ pc = Stage("grpcWait") /\ AllIdle(GrpcHandlers) /\ pc' = Stage("http")
  /\ UNCHANGED <<unclosed, signals, grpcOpen, httpOpen, raftUp, logsOpen, storeOpen>>

\* GracefulStop refuses new calls and waits for the running ones.
StopGrpc ==
  /\ \/ pc = Stage("grpc") /\ pc' = Stage("grpcWait") /\ grpcOpen' = FALSE
     \/ pc = Stage("grpcWait") /\ AllIdle(GrpcHandlers)
        /\ pc' = Stage("http") /\ UNCHANGED grpcOpen
  /\ UNCHANGED <<unclosed, signals, httpOpen, raftUp, logsOpen, storeOpen>>

\* Shutdown waits for running requests for at most five seconds.
StopHttp ==
  /\ \/ pc = Stage("http") /\ pc' = Stage("httpWait") /\ httpOpen' = FALSE
     \/ pc = Stage("httpWait") /\ pc' = Stage("raft") /\ UNCHANGED httpOpen
  /\ UNCHANGED <<unclosed, signals, grpcOpen, raftUp, logsOpen, storeOpen>>

\* Mutant: Close does not wait for the Raft goroutines.
StopRaftAsync ==
  /\ pc = Stage("raft")
  /\ raftUp' = FALSE
  /\ pc' = Stage("logs")
  /\ UNCHANGED <<unclosed, signals, grpcOpen, httpOpen, logsOpen, storeOpen>>

\* raft.Shutdown().Error() returns when the Raft goroutines, the one that
\* applies commands included, have ended.
StopRaft ==
  /\ \/ pc = Stage("raft") /\ pc' = Stage("raftWait") /\ raftUp' = FALSE
     \/ pc = Stage("raftWait") /\ caller["fsm"].at = "idle"
        /\ pc' = Stage("logs") /\ UNCHANGED raftUp
  /\ UNCHANGED <<unclosed, signals, grpcOpen, httpOpen, logsOpen, storeOpen>>

CloseLogs ==
  /\ pc = Stage("logs")
  /\ logsOpen' = FALSE
  /\ opened' = [t \in Topics |-> IF t \in logs THEN opened[t] - 1 ELSE opened[t]]
  /\ pc' = Stage("store")
  /\ UNCHANGED <<logs, caller, worker, lagTodo, late, leader, signals, grpcOpen,
                 httpOpen, raftUp, storeOpen>>

CloseStore ==
  /\ pc = Stage("store")
  /\ storeOpen' = FALSE
  /\ pc' = Stage("done")
  /\ UNCHANGED <<unclosed, signals, grpcOpen, httpOpen, raftUp, logsOpen>>

CloseStep ==
  \/ CloseChannel \/ ClearField \/ AwaitGroup
  \/ StopGrpc \/ StopHttp \/ StopRaft \/ CloseLogs \/ CloseStore

CallerStep(c) ==
  \/ Lookup(c) \/ Create(c) \/ CreateFails(c) \/ Discard(c)
  \/ StartRetention(c) \/ Return(c)

Next ==
  \/ \E c \in Callers, t \in Topics : Call(c, t)
  \/ \E c \in Callers : CallerStep(c)
  \/ \E w \in Workers : Load(w) \/ Tick(w) \/ Check(w) \/ Finish(w) \/ Stopped(w)
  \/ Elect
  \/ StartGrpc \/ StartGrpcFails \/ JoinPeer \/ StartWorkers
  \/ Signal
  \/ CloseStep

Spec == Init /\ [][Next]_vars

\* The Go scheduler runs every goroutine that can run.  Nothing makes a client
\* call, a peer answer, an operator signal or a ticker fire.
FairSpec ==
  /\ Spec
  /\ \A c \in Callers : WF_vars(CallerStep(c))
  /\ WF_vars(\E t \in lagTodo : Call("lag", t))
  /\ \A w \in Workers : WF_vars(Load(w) \/ Check(w) \/ Finish(w) \/ Stopped(w))
  /\ WF_vars(CloseStep)

(***************************************************************************)
(* Properties.                                                             *)
(***************************************************************************)

\* The callers that failed to create a topic and have still to close what they
\* opened of it, which nobody else was given.
Discarding(t) == {c \in Callers : caller[c] = [at |-> "discard", topic |-> t]}

\* However GetPartition calls race, fail and retry, and whenever Close comes,
\* the Log objects open on a topic's directories are, besides those that are
\* being discarded, at most one for each, and Broker.logs holds it.  A second
\* Log object that anybody was given would append at the same offsets.
OneLogInUse ==
  \A t \in Topics :
    opened[t] - Cardinality(Discarding(t)) <= IF t \in logs THEN 1 ELSE 0

\* Close takes the partition logs and the consumer-group store away only when
\* no gRPC call, no Raft apply and no worker that Close had to stop can still
\* be using them.  HTTP requests that outlive the five seconds, and retention
\* workers of topics created while closing, are outside this promise.
LogsOutliveTheirUsers ==
  ~logsOpen \/ ~storeOpen =>
    /\ AllIdle(GrpcHandlers \cup {"fsm", "lag"})
    /\ \A w \in Workers \ late : worker[w] \in {"off", "gone"}

\* Close can wait for a worker group for ever only because a worker of the
\* group read the cleared field and no longer listens to any channel.
WaitEndsUnlessDeaf ==
  pc.at = "wait" ~>
    pc.at # "wait" \/ \E w \in Members(Groups[pc.group]) : worker[w] = "deaf"

\* Once past the workers, Close returns.
ClosePastWorkersReturns == pc = Stage("grpc") ~> pc = Stage("done")

\* A broker that was told to stop stops.
CloseReturns == pc = FirstOfClose ~> pc = Stage("done")

=============================================================================
