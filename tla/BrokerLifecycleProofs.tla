----------------------- MODULE BrokerLifecycleProofs -----------------------
(***************************************************************************)
(* Safety of a broker's life, for any number of topics, handlers and       *)
(* attempts to join.                                                       *)
(*                                                                         *)
(* That nobody uses a log or the store when Close takes it away is the sum *)
(* of what each of Close's waits has achieved: GroupsWaited and            *)
(* ServersWaited say it stage by stage.  A retention worker started after  *)
(* Close has waited for retention is in "late"; that every other worker    *)
(* stays gone needs LagAtWork and NotYetStarted.                           *)
(***************************************************************************)
EXTENDS BrokerLifecycle, FiniteSetTheorems, TLAPS

ClosingGroups == {"close", "nil", "wait"}
Stopping == {"grpc", "grpcWait", "http", "httpWait", "raft", "raftWait", "logs", "store", "done"}

\* Close has waited for worker group i.
Past(i) == pc.at \in Stopping \/ (pc.at \in ClosingGroups /\ pc.group > i)

Ended == {"off", "gone"}

\* What Close's waits for the worker groups have achieved.
GroupsWaited ==
  /\ Past(1) => worker["compaction"] \in Ended
  /\ Past(2) => \A t \in Topics \ late : worker[t] \in Ended
  /\ Past(3) => worker["lag"] \in Ended

\* What stopping the servers has achieved.
ServersWaited ==
  /\ pc.at \in Stopping \ {"grpc"} => ~grpcOpen
  /\ pc.at \in Stopping \ {"grpc", "grpcWait"} => AllIdle(GrpcHandlers)
  /\ pc.at \in {"raftWait", "logs", "store", "done"} => ~raftUp
  /\ pc.at \in {"logs", "store", "done"} => caller["fsm"].at = "idle"
  /\ ~logsOpen => pc.at \in {"store", "done"}
  /\ ~storeOpen => pc.at = "done"

\* The lag worker looks up partitions only during its tick.
LagAtWork == caller["lag"].at # "idle" \/ lagTodo # {} => worker["lag"] = "work"

NotYetStarted == Starting => worker["lag"] = "off" /\ worker["compaction"] = "off"

\* Every caller that has to discard logs holds some, and apart from those only
\* a topic in Broker.logs is open, and open it is until Close.
LogsHeld ==
  \A t \in Topics :
    /\ Cardinality(Discarding(t)) <= opened[t]
    /\ t \notin logs => opened[t] <= Cardinality(Discarding(t))
    /\ t \in logs => opened[t] <= Cardinality(Discarding(t)) + 1
    /\ t \in logs /\ logsOpen => opened[t] = Cardinality(Discarding(t)) + 1

Inv == TypeOK /\ LogsHeld /\ LagAtWork /\ NotYetStarted /\ GroupsWaited /\ ServersWaited

-----------------------------------------------------------------------------
(***************************************************************************)
(* Names and stages.                                                       *)
(***************************************************************************)

\* The worker groups in the order of Close.
LEMMA GroupFacts ==
  /\ DOMAIN Groups = {1, 2, 3} /\ Len(Groups) = 3
  /\ Groups[1] = "compaction" /\ Groups[2] = "retention" /\ Groups[3] = "lag"
  BY DEF Groups

\* The names under which the stop channels are kept.
LEMMA GroupNamesFacts == GroupNames = {"compaction", "retention", "lag"}
  BY GroupFacts DEF GroupNames

\* Who Close waits for.
LEMMA MemberFacts ==
  /\ GroupDone("compaction") => worker["compaction"] \in Ended
  /\ GroupDone("retention") => \A t \in Topics : worker[t] \in Ended
  /\ GroupDone("lag") => worker["lag"] \in Ended
  BY BrokerLifecycleAssumption DEF GroupDone, Members, GroupOf, Workers, Ended

\* The fields of a stage outside the loops of NewBroker and Close.
LEMMA StageFacts == \A s : Stage(s).at = s /\ Stage(s).group = 0
  BY DEF Stage

\* The stages that NewBroker and Close go through.
LEMMA StagesIn ==
  /\ \A s \in Stopping \cup {"listen", "workers", "serving"} : Stage(s) \in Stages
  /\ \A s \in ClosingGroups, i \in {1, 2, 3} : [at |-> s, group |-> i] \in Stages
  /\ \A i \in 1..JoinAttempts : [at |-> "join", group |-> i] \in Stages
<1>1. DOMAIN Groups = {1, 2, 3}
  BY GroupFacts
<1>2. ASSUME NEW s \in Stopping \cup {"listen", "workers", "serving"}  PROVE Stage(s) \in Stages
  BY <1>2 DEF Stages, Stopping, Stage
<1>3. ASSUME NEW s \in ClosingGroups, NEW i \in {1, 2, 3}  PROVE [at |-> s, group |-> i] \in Stages
  BY <1>1, <1>3 DEF Stages, ClosingGroups
<1>4. ASSUME NEW i \in 1..JoinAttempts  PROVE [at |-> "join", group |-> i] \in Stages
  BY <1>4 DEF Stages
<1> QED
  BY <1>2, <1>3, <1>4

\* What a stage of NewBroker and Close is made of.
LEMMA StagesOut ==
  ASSUME NEW p \in Stages
  PROVE  /\ p = [at |-> p.at, group |-> p.group] /\ p.group \in Nat
         /\ p.at \in ClosingGroups \cup Stopping \cup {"join", "listen", "workers", "serving"}
         /\ p.at \in ClosingGroups => p.group \in {1, 2, 3}
         /\ p.at = "join" => p.group \in 1..JoinAttempts
<1>1. DOMAIN Groups = {1, 2, 3}
  BY GroupFacts
<1>2. CASE \E s \in ClosingGroups, i \in {1, 2, 3} : p = [at |-> s, group |-> i]
  BY <1>2 DEF ClosingGroups
<1>3. CASE \E i \in 1..JoinAttempts : p = [at |-> "join", group |-> i]
  BY <1>3, BrokerLifecycleAssumption DEF ClosingGroups
<1>4. CASE \E s \in Stopping \cup {"listen", "workers", "serving"} : p = [at |-> s, group |-> 0]
  BY <1>4 DEF ClosingGroups, Stopping
<1> QED
  BY <1>1, <1>2, <1>3, <1>4 DEF Stages, ClosingGroups, Stopping

-----------------------------------------------------------------------------
(***************************************************************************)
(* Types are kept.                                                         *)
(***************************************************************************)
CallerType == [Callers -> [at : {"idle", "lookup", "create", "discard", "start", "use"}, topic : Topics]]
WorkerType == [Workers -> {"off", "load", "select", "deaf", "check", "work", "gone"}]

\* A caller that moves on keeps its topic.
LEMMA MoveType ==
  ASSUME TypeOK, NEW c \in Callers, NEW at \in {"idle", "lookup", "create", "discard", "start", "use"},
         Move(c, at)
  PROVE  /\ caller' \in CallerType
         /\ caller'[c].at = at
         /\ \A d \in Callers \ {c} : caller'[d] = caller[d]
  BY DEF TypeOK, Move, CallerType

\* A step of a worker leaves the other workers alone.
LEMMA GotoType ==
  ASSUME TypeOK, NEW w \in Workers,
         NEW state \in {"off", "load", "select", "deaf", "check", "work", "gone"},
         Goto(w, state)
  PROVE  /\ worker' \in WorkerType
         /\ worker'[w] = state
         /\ \A v \in Workers \ {w} : worker'[v] = worker[v]
  BY DEF TypeOK, Goto, WorkerType

\* The callers that discard logs of a topic can be counted.
LEMMA DiscardingFinite ==
  ASSUME NEW t
  PROVE  IsFiniteSet(Discarding(t)) /\ Cardinality(Discarding(t)) \in Nat
<1>1. IsFiniteSet(GrpcHandlers \cup HttpHandlers)
  BY BrokerLifecycleAssumption, FS_Union
<1>2. IsFiniteSet((GrpcHandlers \cup HttpHandlers) \cup {"fsm"})
  BY <1>1, FS_AddElement
<1>3. IsFiniteSet(((GrpcHandlers \cup HttpHandlers) \cup {"fsm"}) \cup {"lag"})
  BY <1>2, FS_AddElement
<1>4. Callers = ((GrpcHandlers \cup HttpHandlers) \cup {"fsm"}) \cup {"lag"}
  BY DEF Callers
<1>5. IsFiniteSet(Callers)
  BY <1>3, <1>4
<1>6. Discarding(t) \subseteq Callers
  BY DEF Discarding
<1> QED
  BY <1>5, <1>6, FS_Subset, FS_CardinalityType

\* What the step of one caller does to their number: CreateFails adds the
\* caller, Discard takes it away, other steps change nothing.
LEMMA DiscardingStep ==
  ASSUME TypeOK, NEW c \in Callers, NEW t \in Topics,
         \A d \in Callers \ {c} : caller'[d] = caller[d]
  PROVE  /\ caller[c].at # "discard" /\ caller'[c].at # "discard" =>
              Discarding(t)' = Discarding(t)
         /\ caller[c].topic # t /\ caller'[c].topic # t => Discarding(t)' = Discarding(t)
         /\ caller[c].at # "discard" /\ caller'[c] = [at |-> "discard", topic |-> t] =>
              Cardinality(Discarding(t)') = Cardinality(Discarding(t)) + 1
         /\ caller[c] = [at |-> "discard", topic |-> t] /\ caller'[c].at # "discard" =>
              Cardinality(Discarding(t)') = Cardinality(Discarding(t)) - 1
<1>1. ASSUME caller[c].at # "discard" \/ caller[c].topic # t,
             caller'[c].at # "discard" \/ caller'[c].topic # t
      PROVE  Discarding(t)' = Discarding(t)
  BY <1>1 DEF Discarding
<1>2. ASSUME caller[c].at # "discard", caller'[c] = [at |-> "discard", topic |-> t]
      PROVE  Cardinality(Discarding(t)') = Cardinality(Discarding(t)) + 1
  <2>1. c \notin Discarding(t) /\ Discarding(t)' = Discarding(t) \cup {c}
    BY <1>2 DEF Discarding
  <2> QED
    BY <2>1, DiscardingFinite, FS_AddElement
<1>3. ASSUME caller[c] = [at |-> "discard", topic |-> t], caller'[c].at # "discard"
      PROVE  Cardinality(Discarding(t)') = Cardinality(Discarding(t)) - 1
  <2>1. c \in Discarding(t) /\ Discarding(t)' = Discarding(t) \ {c}
    BY <1>3 DEF Discarding
  <2> QED
    BY <2>1, DiscardingFinite, FS_RemoveElement
<1> QED
  BY <1>1, <1>2, <1>3

\* A caller that has to discard logs is counted.
LEMMA DiscardingCounted ==
  ASSUME TypeOK, NEW c \in Callers, caller[c].at = "discard"
  PROVE  Cardinality(Discarding(caller[c].topic)) >= 1
<1>1. caller[c] = [at |-> "discard", topic |-> caller[c].topic]
  BY DEF TypeOK
<1>2. c \in Discarding(caller[c].topic)
  BY <1>1 DEF Discarding
<1>3. Cardinality(Discarding(caller[c].topic)) # 0
  BY <1>2, DiscardingFinite, FS_EmptySet
<1> QED
  BY <1>3, DiscardingFinite

\* TypeOK in parts that different actions disturb.
ServerTypes ==
  /\ grpcOpen \in BOOLEAN /\ httpOpen \in BOOLEAN /\ raftUp \in BOOLEAN
  /\ leader \in BOOLEAN /\ logsOpen \in BOOLEAN /\ storeOpen \in BOOLEAN

TopicTypes ==
  logs \subseteq Topics /\ opened \in [Topics -> Nat]

SignalTypes ==
  stopField \in [GroupNames -> {"chan", "nil"}] /\ stopClosed \in [GroupNames -> BOOLEAN]

GoTypes ==
  /\ caller \in CallerType /\ worker \in WorkerType
  /\ lagTodo \subseteq Topics /\ late \subseteq Topics

\* The parts make up TypeOK.
LEMMA TypeParts ==
  TypeOK <=> TopicTypes /\ GoTypes /\ SignalTypes /\ ServerTypes /\ pc \in Stages
  BY DEF TypeOK, TopicTypes, GoTypes, SignalTypes, ServerTypes, CallerType, WorkerType

\* Where the stage goes from each stage.
LEMMA PcStep ==
  ASSUME pc \in Stages, [Next]_vars
  PROVE  pc' \in Stages
<1>1. CASE UNCHANGED pc
  BY <1>1
<1>2. CASE StartGrpc
  <2>1. 1 \in 1..JoinAttempts
    BY BrokerLifecycleAssumption
  <2> QED
    BY <1>2, <2>1, StagesIn DEF StartGrpc
<1>3. FirstOfClose \in Stages
  BY StagesIn DEF FirstOfClose, ClosingGroups
<1>4. CASE StartGrpcFails \/ Signal
  BY <1>3, <1>4 DEF StartGrpcFails, Signal
<1>5. CASE JoinPeer
  <2>1. pc.group \in 1..JoinAttempts /\ pc = [at |-> "join", group |-> pc.group]
    BY <1>5, StagesOut DEF JoinPeer
  <2>2. pc.group < JoinAttempts => [pc EXCEPT !.group = @ + 1] \in Stages
    <3>1. [pc EXCEPT !.group = @ + 1] = [at |-> "join", group |-> pc.group + 1]
      BY <2>1
    <3>2. pc.group < JoinAttempts => pc.group + 1 \in 1..JoinAttempts
      BY <2>1, BrokerLifecycleAssumption
    <3> QED
      BY <3>1, <3>2, StagesIn
  <2> QED
    BY <1>3, <1>5, <2>2, StagesIn DEF JoinPeer
<1>6. CASE StartWorkers
  BY <1>6, StagesIn DEF StartWorkers
<1>7. CASE CloseChannel
  <2>1. pc.group \in {1, 2, 3} /\ pc = [at |-> "close", group |-> pc.group]
    BY <1>7, StagesOut DEF CloseChannel, ClosingGroups
  <2>2. pc' = [at |-> "nil", group |-> pc.group]
    BY <1>7, <2>1 DEF CloseChannel
  <2> QED
    BY <2>1, <2>2, StagesIn DEF ClosingGroups
<1>8. CASE ClearField
  <2>1. pc.group \in {1, 2, 3} /\ pc = [at |-> "nil", group |-> pc.group]
    BY <1>8, StagesOut DEF ClearField, ClosingGroups
  <2>2. pc' = [at |-> "wait", group |-> pc.group]
    BY <1>8, <2>1 DEF ClearField
  <2> QED
    BY <2>1, <2>2, StagesIn DEF ClosingGroups
<1>9. CASE AwaitGroup
  <2>1. pc.group \in {1, 2, 3} /\ Len(Groups) = 3
    BY <1>9, StagesOut, GroupFacts DEF AwaitGroup, ClosingGroups
  <2>2. pc.group < 3 => pc.group + 1 \in {1, 2, 3}
    BY <2>1
  <2> QED
    BY <1>9, <2>1, <2>2, StagesIn DEF AwaitGroup, ClosingGroups, Stopping
<1>10. CASE StopGrpc \/ StopHttp \/ StopRaft \/ CloseLogs \/ CloseStore
  BY <1>10, StagesIn DEF StopGrpc, StopHttp, StopRaft, CloseLogs, CloseStore, Stopping
<1> QED
  BY <1>1, <1>2, <1>4, <1>5, <1>6, <1>7, <1>8, <1>9, <1>10
     DEF Next, CallerStep, CloseStep, vars, Call, Lookup, Create, CreateFails, Discard, StartRetention,
         Return, Load, Tick, Check, Finish, Stopped, Elect

\* Every variable keeps its type.
LEMMA TypeStep == TypeOK /\ LogsHeld /\ ServersWaited /\ [Next]_vars => TypeOK'
<1> SUFFICES ASSUME TypeOK, LogsHeld, ServersWaited, [Next]_vars PROVE TypeOK'
  OBVIOUS
<1>0. TopicTypes /\ GoTypes /\ SignalTypes /\ ServerTypes /\ pc \in Stages
  BY TypeParts
<1>p. pc' \in Stages
  BY <1>0, PcStep
<1>q. SUFFICES TopicTypes' /\ GoTypes' /\ SignalTypes' /\ ServerTypes'
  BY <1>p, TypeParts
     DEF TypeOK, TopicTypes, GoTypes, SignalTypes, ServerTypes, CallerType, WorkerType
<1> DEFINE Goal == TopicTypes' /\ GoTypes' /\ SignalTypes' /\ ServerTypes'
<1>1. ASSUME NEW c \in Callers, NEW t \in Topics, Call(c, t)  PROVE Goal
  <2>1. caller' \in CallerType /\ lagTodo' \subseteq Topics
    BY <1>0, <1>1 DEF Call, GoTypes, CallerType
  <2> QED
    BY <1>0, <1>1, <2>1 DEF Call, TopicTypes, GoTypes, SignalTypes, ServerTypes, topics, signals, servers
<1>2. ASSUME NEW c \in Callers, Lookup(c) \/ Return(c)  PROVE Goal
  <2>1. caller' \in CallerType
    BY <1>2, MoveType DEF Lookup, Return
  <2> QED
    BY <1>0, <1>2, <2>1
       DEF Lookup, Return, TopicTypes, GoTypes, SignalTypes, ServerTypes, topics, signals, servers
<1>3. ASSUME NEW c \in Callers, Create(c) \/ CreateFails(c) \/ Discard(c)  PROVE Goal
  <2>1. caller[c].topic \in Topics
    BY <1>0 DEF GoTypes, CallerType
  <2>2. caller' \in CallerType
    BY <1>3, MoveType DEF Create, CreateFails, Discard
  <2>3. TopicTypes'
    <3>1. CASE Create(c) \/ CreateFails(c)
      BY <1>0, <2>1, <3>1 DEF Create, CreateFails, TopicTypes, topics
    <3>2. CASE Discard(c)
      <4>1. opened[caller[c].topic] >= 1
        BY <1>0, <2>1, <3>2, DiscardingCounted, DiscardingFinite DEF Discard, LogsHeld, TopicTypes
      <4> QED
        BY <1>0, <2>1, <3>2, <4>1 DEF Discard, TopicTypes
    <3> QED
      BY <1>3, <3>1, <3>2
  <2> QED
    BY <1>0, <1>3, <2>2, <2>3
       DEF Create, CreateFails, Discard, GoTypes, SignalTypes, ServerTypes, signals, servers
<1>4. ASSUME NEW c \in Callers, StartRetention(c)  PROVE Goal
  <2>1. caller[c].topic \in Topics
    BY <1>0 DEF GoTypes, CallerType
  <2>2. caller' \in CallerType
    BY <1>4, MoveType DEF StartRetention
  <2>3. worker' \in WorkerType /\ late' \subseteq Topics
    BY <1>0, <1>4, <2>1 DEF StartRetention, GoTypes, WorkerType, Workers
  <2> QED
    BY <1>0, <1>4, <2>2, <2>3
       DEF StartRetention, TopicTypes, GoTypes, SignalTypes, ServerTypes, topics, signals, servers
<1>5. ASSUME NEW w \in Workers, Load(w) \/ Tick(w) \/ Finish(w) \/ Stopped(w)  PROVE Goal
  <2>1. worker' \in WorkerType
    BY <1>5, GotoType DEF Load, Tick, Finish, Stopped
  <2> QED
    BY <1>0, <1>5, <2>1
       DEF Load, Tick, Finish, Stopped, TopicTypes, GoTypes, SignalTypes, ServerTypes, topics,
           signals, servers
<1>6. ASSUME NEW w \in Workers, Check(w)  PROVE Goal
  <2>1. worker' \in WorkerType
    BY <1>6, GotoType DEF Check
  <2>2. lagTodo' \subseteq Topics
    BY <1>0, <1>6 DEF Check, GoTypes
  <2> QED
    BY <1>0, <1>6, <2>1, <2>2
       DEF Check, TopicTypes, GoTypes, SignalTypes, ServerTypes, topics, signals, servers
<1>7. ASSUME Elect \/ StartGrpc \/ StartGrpcFails \/ JoinPeer \/ Signal \/ AwaitGroup
             \/ StopGrpc \/ StopHttp \/ StopRaft \/ CloseStore
      PROVE  Goal
  <2>1. TopicTypes' /\ GoTypes' /\ SignalTypes'
    BY <1>0, <1>7 DEF Elect, StartGrpc, StartGrpcFails, JoinPeer, Signal, AwaitGroup, StopGrpc,
         StopHttp, StopRaft, CloseStore, unclosed, TopicTypes, GoTypes, SignalTypes, topics, signals
  <2>2. ServerTypes'
    BY <1>0, <1>7 DEF Elect, StartGrpc, StartGrpcFails, JoinPeer, Signal, AwaitGroup, StopGrpc,
         StopHttp, StopRaft, CloseStore, unclosed, ServerTypes, servers
  <2> QED
    BY <2>1, <2>2
<1>8. ASSUME StartWorkers  PROVE Goal
  <2>1. worker' \in WorkerType
    BY <1>0, <1>8 DEF StartWorkers, GoTypes, WorkerType
  <2> QED
    BY <1>0, <1>8, <2>1
       DEF StartWorkers, TopicTypes, GoTypes, SignalTypes, ServerTypes, topics, signals, servers
<1>9. ASSUME CloseChannel \/ ClearField  PROVE Goal
  <2>1. pc.group \in {1, 2, 3}
    BY <1>0, <1>9, StagesOut DEF CloseChannel, ClearField, ClosingGroups
  <2>2. SignalTypes'
    BY <1>0, <1>9 DEF CloseChannel, ClearField, SignalTypes
  <2> QED
    BY <1>0, <1>9, <2>2
       DEF CloseChannel, ClearField, unclosed, TopicTypes, GoTypes, ServerTypes, topics
<1>10. ASSUME CloseLogs  PROVE Goal
  <2>1. logsOpen
    BY <1>10, StageFacts DEF CloseLogs, ServersWaited
  <2>2. \A t \in logs : opened[t] >= 1
    BY <1>0, <2>1, DiscardingFinite DEF LogsHeld, TopicTypes
  <2>3. TopicTypes'
    BY <1>0, <1>10, <2>2 DEF CloseLogs, TopicTypes
  <2> QED
    BY <1>0, <1>10, <2>3 DEF CloseLogs, GoTypes, SignalTypes, ServerTypes, signals
<1>11. ASSUME UNCHANGED vars  PROVE Goal
  BY <1>0, <1>11 DEF vars, TopicTypes, GoTypes, SignalTypes, ServerTypes
<1> QED
  BY <1>1, <1>2, <1>3, <1>4, <1>5, <1>6, <1>7, <1>8, <1>9, <1>10, <1>11
     DEF Next, CallerStep, CloseStep

-----------------------------------------------------------------------------
(***************************************************************************)
(* Which logs are open.                                                    *)
(***************************************************************************)

\* The second lookup, under the write lock, keeps a topic from being opened
\* twice for use; a caller that failed closes what it opened and nothing else.
LEMMA LogsHeldStep == TypeOK /\ LogsHeld /\ ServersWaited /\ [Next]_vars => LogsHeld'
<1> SUFFICES ASSUME TypeOK, LogsHeld, ServersWaited, [Next]_vars, NEW t \in Topics
             PROVE  /\ Cardinality(Discarding(t)') <= opened'[t]
                    /\ t \notin logs' => opened'[t] <= Cardinality(Discarding(t)')
                    /\ t \in logs' => opened'[t] <= Cardinality(Discarding(t)') + 1
                    /\ t \in logs' /\ logsOpen' =>
                         opened'[t] = Cardinality(Discarding(t)') + 1
  BY DEF LogsHeld
<1> DEFINE n == Cardinality(Discarding(t))
           Goal == /\ Cardinality(Discarding(t)') <= opened'[t]
                   /\ t \notin logs' => opened'[t] <= Cardinality(Discarding(t)')
                   /\ t \in logs' => opened'[t] <= Cardinality(Discarding(t)') + 1
                   /\ t \in logs' /\ logsOpen' =>
                        opened'[t] = Cardinality(Discarding(t)') + 1
<1>t. /\ logs \subseteq Topics /\ opened \in [Topics -> Nat] /\ opened[t] \in Nat
      /\ n \in Nat
      /\ \A c \in Callers : caller[c].topic \in Topics
                            /\ caller[c] = [at |-> caller[c].at, topic |-> caller[c].topic]
  BY DiscardingFinite DEF TypeOK
<1>h. /\ n <= opened[t]
      /\ t \notin logs => opened[t] <= n
      /\ t \in logs => opened[t] <= n + 1
      /\ t \in logs /\ logsOpen => opened[t] = n + 1
  BY DEF LogsHeld
<1>1. ASSUME Discarding(t)' = Discarding(t), UNCHANGED <<topics, logsOpen>>  PROVE Goal
  BY <1>1, <1>h DEF topics
<1>2. ASSUME NEW c \in Callers, caller[c].at # "discard", caller'[c].at # "discard",
             \A d \in Callers \ {c} : caller'[d] = caller[d], UNCHANGED <<topics, logsOpen>>
      PROVE  Goal
  BY <1>1, <1>2, DiscardingStep
<1>3. ASSUME NEW c \in Callers, NEW u \in Topics, Call(c, u)  PROVE Goal
  <2>1. caller'[c].at = "lookup" /\ caller[c].at = "idle"
        /\ \A e \in Callers \ {c} : caller'[e] = caller[e]
    BY <1>3 DEF Call, TypeOK
  <2> QED
    BY <1>2, <1>3, <2>1 DEF Call, servers
<1>4. ASSUME NEW c \in Callers, NEW at \in {"idle", "use", "create"}, Move(c, at),
             caller[c].at # "discard", UNCHANGED <<topics, logsOpen>>
      PROVE  Goal
  BY <1>2, <1>4, MoveType
<1>5. ASSUME NEW c \in Callers, Create(c), caller[c].topic \notin logs  PROVE Goal
  <2>1. /\ logs' = logs \cup {caller[c].topic}
        /\ opened' = [opened EXCEPT ![caller[c].topic] = @ + 1]
        /\ Move(c, "start") /\ caller[c].at = "create" /\ logsOpen' = logsOpen
    BY <1>5 DEF Create, servers
  <2>2. Discarding(t)' = Discarding(t)
    BY <2>1, MoveType, DiscardingStep
  <2>3. t \in logs' <=> t \in logs \/ t = caller[c].topic
    BY <2>1
  <2>4. opened'[t] = IF t = caller[c].topic THEN opened[t] + 1 ELSE opened[t]
    BY <1>t, <2>1
  <2> QED
    BY <1>5, <1>t, <1>h, <2>1, <2>2, <2>3, <2>4
<1>6. ASSUME NEW c \in Callers, CreateFails(c), Move(c, "discard"),
             opened' = [opened EXCEPT ![caller[c].topic] = @ + 1]
      PROVE  Goal
  <2>1. logs' = logs /\ caller[c].at = "create" /\ logsOpen' = logsOpen
    BY <1>6 DEF CreateFails, servers
  <2>2. /\ caller'[c] = [at |-> "discard", topic |-> caller[c].topic]
        /\ caller'[c].topic = caller[c].topic
        /\ \A e \in Callers \ {c} : caller'[e] = caller[e]
    BY <1>6 DEF Move, TypeOK
  <2>3. CASE t = caller[c].topic
    <3>1. Cardinality(Discarding(t)') = n + 1 /\ opened'[t] = opened[t] + 1
      BY <1>6, <1>t, <2>1, <2>2, <2>3, DiscardingStep
    <3> QED
      BY <1>t, <1>h, <2>1, <3>1
  <2>4. CASE t # caller[c].topic
    <3>1. Discarding(t)' = Discarding(t) /\ opened'[t] = opened[t]
      BY <1>6, <1>t, <2>2, <2>4, DiscardingStep
    <3> QED
      BY <1>h, <2>1, <3>1
  <2> QED
    BY <2>3, <2>4
<1>7. ASSUME NEW c \in Callers, Discard(c)  PROVE Goal
  <2>1. /\ logs' = logs /\ logsOpen' = logsOpen
        /\ opened' = [opened EXCEPT ![caller[c].topic] = @ - 1]
        /\ Move(c, "idle") /\ caller[c].at = "discard"
    BY <1>7 DEF Discard, servers
  <2>2. /\ caller'[c].at = "idle" /\ caller'[c].topic = caller[c].topic
        /\ \A e \in Callers \ {c} : caller'[e] = caller[e]
    BY <2>1 DEF Move, TypeOK
  <2>3. CASE t = caller[c].topic
    <3>1. caller[c] = [at |-> "discard", topic |-> t]
      BY <1>t, <2>1, <2>3
    <3>2. Cardinality(Discarding(t)') = n - 1 /\ opened'[t] = opened[t] - 1
      BY <1>t, <2>1, <2>2, <2>3, <3>1, DiscardingStep
    <3> QED
      BY <1>t, <1>h, <2>1, <3>2
  <2>4. CASE t # caller[c].topic
    <3>1. Discarding(t)' = Discarding(t) /\ opened'[t] = opened[t]
      BY <1>t, <2>1, <2>2, <2>4, DiscardingStep
    <3> QED
      BY <1>h, <2>1, <3>1
  <2> QED
    BY <2>3, <2>4
<1>8. ASSUME CloseLogs  PROVE Goal
  <2>1. logsOpen
    BY <1>8, StageFacts DEF CloseLogs, ServersWaited
  <2>2. /\ logs' = logs /\ caller' = caller /\ logsOpen' = FALSE
        /\ opened'[t] = IF t \in logs THEN opened[t] - 1 ELSE opened[t]
    BY <1>8 DEF CloseLogs
  <2>3. Discarding(t)' = Discarding(t)
    BY <2>2 DEF Discarding
  <2> QED
    BY <1>t, <1>h, <2>1, <2>2, <2>3
<1> HIDE DEF Goal
<1>9. ASSUME NEW c \in Callers, CallerStep(c)  PROVE Goal
  <2>1. CASE Lookup(c) \/ Return(c)
    BY <1>4, <2>1 DEF Lookup, Return, servers
  <2>2. CASE StartRetention(c)
    BY <1>4, <2>2 DEF StartRetention, servers
  <2>3. CASE Create(c)
    <3>1. CASE caller[c].topic \in logs
      BY <1>4, <2>3, <3>1 DEF Create, servers
    <3> QED
      BY <1>5, <2>3, <3>1
  <2>4. CASE CreateFails(c)
    BY <1>4, <1>6, <2>4 DEF CreateFails, topics, servers
  <2> QED
    BY <1>7, <1>9, <2>1, <2>2, <2>3, <2>4 DEF CallerStep
<1>10. ASSUME UNCHANGED <<topics, caller, logsOpen>>  PROVE Goal
  <2>1. Discarding(t)' = Discarding(t)
    BY <1>10 DEF Discarding
  <2> QED
    BY <1>1, <1>10, <2>1
<1>11. Goal
  BY <1>3, <1>8, <1>9, <1>10
     DEF Next, CloseStep, vars, topics, unclosed, servers, Load, Tick, Check, Finish, Stopped,
         Elect, StartGrpc, StartGrpcFails, JoinPeer, StartWorkers, Signal, CloseChannel,
         ClearField, AwaitGroup, StopGrpc, StopHttp, StopRaft, CloseStore
<1> QED
  BY <1>11 DEF Goal

-----------------------------------------------------------------------------
(***************************************************************************)
(* Who can come back.                                                      *)
(***************************************************************************)

\* The workers' names differ from the topics', and the callers' from each other.
LEMMA NameFacts ==
  /\ "lag" \in Workers /\ "compaction" \in Workers /\ Topics \subseteq Workers
  /\ "lag" \notin Topics /\ "compaction" \notin Topics
  /\ "lag" \in Callers /\ "fsm" \in Callers /\ GrpcHandlers \subseteq Callers
  BY BrokerLifecycleAssumption DEF Workers, Callers

\* A worker that has ended, or was never started, runs only after NewBroker
\* started it or GetPartition did.
LEMMA EndedStep ==
  ASSUME TypeOK, [Next]_vars, NEW w \in Workers, worker[w] \in Ended
  PROVE  \/ worker'[w] = worker[w]
         \/ StartWorkers /\ w \in {"lag", "compaction"}
         \/ \E c \in Callers : StartRetention(c) /\ w = caller[c].topic
<1>1. CASE worker' = worker
  BY <1>1
<1>2. ASSUME NEW v \in Workers, Load(v) \/ Tick(v) \/ Check(v) \/ Finish(v) \/ Stopped(v)
      PROVE  worker'[w] = worker[w]
  <2>1. worker[v] \notin Ended
    BY <1>2 DEF Load, Tick, Check, Finish, Stopped, Ended
  <2>2. PICK s \in {"off", "load", "select", "deaf", "check", "work", "gone"} : Goto(v, s)
    BY <1>2 DEF Load, Tick, Check, Finish, Stopped
  <2> QED
    BY <2>1, <2>2, GotoType
<1>3. ASSUME NEW c \in Callers, StartRetention(c), w # caller[c].topic
      PROVE  worker'[w] = worker[w]
  BY <1>3 DEF StartRetention, TypeOK
<1>4. CASE StartWorkers /\ w \notin {"lag", "compaction"}
  BY <1>4 DEF StartWorkers, TypeOK
<1> QED
  BY <1>1, <1>2, <1>3, <1>4
     DEF Next, CallerStep, CloseStep, vars, unclosed, Call, Lookup, Create, CreateFails, Discard, Return,
         Elect, StartGrpc, StartGrpcFails, JoinPeer, Signal, CloseChannel, ClearField,
         AwaitGroup, StopGrpc, StopHttp, StopRaft, CloseLogs, CloseStore

\* An idle caller is busy only after a call.
LEMMA IdleStep ==
  ASSUME TypeOK, [Next]_vars, NEW c \in Callers, caller[c].at = "idle"
  PROVE  caller'[c].at = "idle" \/ \E t \in Topics : Call(c, t)
<1>1. CASE caller' = caller
  BY <1>1
<1>2. ASSUME NEW d \in Callers, NEW t \in Topics, Call(d, t), d # c
      PROVE  caller'[c].at = "idle"
  BY <1>2 DEF Call, TypeOK
<1>3. ASSUME NEW d \in Callers, CallerStep(d)  PROVE caller'[c].at = "idle"
  <2>1. caller[d].at # "idle"
    BY <1>3 DEF CallerStep, Lookup, Create, CreateFails, Discard, StartRetention, Return
  <2>2. PICK s \in {"idle", "lookup", "create", "discard", "start", "use"} : Move(d, s)
    BY <1>3 DEF CallerStep, Lookup, Create, CreateFails, Discard, StartRetention, Return
  <2>3. caller'[c] = caller[c]
    BY <2>1, <2>2, MoveType
  <2> QED
    BY <2>3
<1> QED
  BY <1>1, <1>2, <1>3
     DEF Next, CloseStep, vars, unclosed, Load, Tick, Check, Finish, Stopped,
         Elect, StartGrpc, StartGrpcFails, JoinPeer, StartWorkers, Signal, CloseChannel,
         ClearField, AwaitGroup, StopGrpc, StopHttp, StopRaft, CloseLogs, CloseStore

\* Close gets past worker group i only by waiting for it.
LEMMA PastStep ==
  ASSUME pc \in Stages, [Next]_vars, NEW i \in {1, 2, 3}, Past(i)', ~Past(i)
  PROVE  AwaitGroup /\ pc.group = i
<1>1. pc' # pc
  BY DEF Past
<1>2. CASE AwaitGroup
  <2>1. pc.at = "wait" /\ pc.group \in {1, 2, 3} /\ pc.group \in Nat
    BY <1>2, StagesOut DEF AwaitGroup, ClosingGroups
  <2>2. ~(pc.group > i)
    BY <2>1 DEF Past, ClosingGroups
  <2>3. CASE pc.group < 3
    <3>1. pc' = [at |-> "close", group |-> pc.group + 1]
      BY <1>2, <2>3, GroupFacts DEF AwaitGroup
    <3>2. pc'.at = "close" /\ pc'.group = pc.group + 1
      BY <3>1
    <3>3. pc.group + 1 > i
      BY <3>2 DEF Past, Stopping
    <3> QED
      BY <1>2, <2>1, <2>2, <3>3
  <2>4. CASE ~(pc.group < 3)
    BY <1>2, <2>1, <2>2, <2>4
  <2> QED
    BY <2>3, <2>4
<1>3. CASE CloseChannel \/ ClearField
  <2>1. pc'.group = pc.group /\ pc'.at \in {"nil", "wait"} /\ pc.at \in {"close", "nil"}
    BY <1>3, StagesOut DEF CloseChannel, ClearField
  <2> QED
    BY <2>1 DEF Past, ClosingGroups, Stopping
<1>4. CASE StartGrpc
  BY <1>4, StageFacts DEF StartGrpc, Past, ClosingGroups, Stopping
<1>5. CASE StartGrpcFails \/ Signal
  BY <1>5 DEF StartGrpcFails, Signal, FirstOfClose, Past, ClosingGroups, Stopping
<1>6. CASE JoinPeer
  <2>1. CASE pc' = Stage("workers")
    BY <2>1, StageFacts DEF Past, ClosingGroups, Stopping
  <2>2. CASE pc' = [pc EXCEPT !.group = @ + 1]
    <3>1. pc'.at = "join"
      BY <1>6, <2>2, StagesOut DEF JoinPeer
    <3> QED
      BY <3>1 DEF Past, ClosingGroups, Stopping
  <2>3. CASE pc' = FirstOfClose
    BY <2>3 DEF FirstOfClose, Past, ClosingGroups, Stopping
  <2> QED
    BY <1>6, <2>1, <2>2, <2>3 DEF JoinPeer
<1>7. CASE StartWorkers
  BY <1>7, StageFacts DEF StartWorkers, Past, ClosingGroups, Stopping
<1>8. CASE StopGrpc \/ StopHttp \/ StopRaft \/ CloseLogs \/ CloseStore
  BY <1>8, StageFacts DEF StopGrpc, StopHttp, StopRaft, CloseLogs, CloseStore, Past, Stopping
<1> QED
  BY <1>1, <1>2, <1>3, <1>4, <1>5, <1>6, <1>7, <1>8
     DEF Next, CallerStep, CloseStep, vars, Call, Lookup, Create, CreateFails, Discard, StartRetention,
         Return, Load, Tick, Check, Finish, Stopped, Elect

-----------------------------------------------------------------------------
(***************************************************************************)
(* Close's waits are not undone.                                           *)
(***************************************************************************)

\* The workers of NewBroker are off until it starts them.
LEMMA NotYetStartedStep == TypeOK /\ NotYetStarted /\ [Next]_vars => NotYetStarted'
<1> SUFFICES ASSUME TypeOK, NotYetStarted, [Next]_vars, Starting' PROVE
             worker'["lag"] = "off" /\ worker'["compaction"] = "off"
  BY DEF NotYetStarted
<1>1. Starting /\ ~StartWorkers
  <2>1. pc'.at \in {"listen", "join", "workers"}
    BY DEF Starting
  <2>2. CASE pc' = pc
    <3>1. ~StartWorkers
      BY <2>2, StageFacts DEF StartWorkers
    <3> QED
      BY <2>1, <2>2, <3>1 DEF Starting
  <2>3. CASE StartGrpc
    BY <2>3, StageFacts DEF StartGrpc, StartWorkers, Starting
  <2>4. CASE JoinPeer
    BY <2>4, StageFacts DEF JoinPeer, StartWorkers, Starting
  <2>5. CASE StartGrpcFails \/ Signal
    BY <2>1, <2>5 DEF StartGrpcFails, Signal, FirstOfClose
  <2>6. CASE StartWorkers \/ StopGrpc \/ StopHttp \/ StopRaft \/ CloseLogs \/ CloseStore
    BY <2>1, <2>6, StageFacts DEF StartWorkers, StopGrpc, StopHttp, StopRaft, CloseLogs, CloseStore
  <2>7. CASE CloseChannel \/ ClearField
    <3>1. pc'.at \in {"nil", "wait"}
      BY <2>7, StagesOut DEF CloseChannel, ClearField, TypeOK
    <3> QED
      BY <2>1, <3>1
  <2>8. CASE AwaitGroup
    BY <2>1, <2>8, StageFacts DEF AwaitGroup
  <2> QED
    BY <2>2, <2>3, <2>4, <2>5, <2>6, <2>7, <2>8
       DEF Next, CallerStep, CloseStep, vars, Call, Lookup, Create, CreateFails, Discard, StartRetention,
           Return, Load, Tick, Check, Finish, Stopped, Elect
<1>2. worker["lag"] = "off" /\ worker["compaction"] = "off"
  BY <1>1 DEF NotYetStarted
<1>3. \A c \in Callers : caller[c].topic \in Topics
  BY DEF TypeOK
<1> QED
  BY <1>1, <1>2, <1>3, EndedStep, NameFacts DEF Ended

\* The lag worker's tick ends with its last lookup.
LEMMA LagAtWorkStep ==
  TypeOK /\ LagAtWork /\ NotYetStarted /\ [Next]_vars => LagAtWork'
<1> SUFFICES ASSUME TypeOK, LagAtWork, NotYetStarted, [Next]_vars,
                    caller'["lag"].at # "idle" \/ lagTodo' # {}
             PROVE  worker'["lag"] = "work"
  BY DEF LagAtWork
<1>1. CASE Check("lag")
  BY <1>1, GotoType, NameFacts DEF Check
<1>2. CASE ~Check("lag")
  <2>1. caller["lag"].at # "idle" \/ lagTodo # {}
    <3>1. CASE \E t \in Topics : Call("lag", t)
      BY <3>1, NameFacts, BrokerLifecycleAssumption DEF Call, MayStart
    <3>2. CASE ~\E t \in Topics : Call("lag", t)
      <4>1. lagTodo' # {} => lagTodo # {}
        BY <1>2, <3>2
           DEF Next, CallerStep, CloseStep, vars, unclosed, Call, Lookup, Create, CreateFails, Discard,
               StartRetention, Return, Load, Tick, Check, Finish, Stopped, Elect, StartGrpc,
               StartGrpcFails, JoinPeer, StartWorkers, Signal, CloseChannel, ClearField,
               AwaitGroup, StopGrpc, StopHttp, StopRaft, CloseLogs, CloseStore
      <4>2. caller["lag"].at = "idle" => caller'["lag"].at = "idle"
        BY <3>2, IdleStep, NameFacts
      <4> QED
        BY <4>1, <4>2
    <3> QED
      BY <3>1, <3>2
  <2>2. worker["lag"] = "work"
    BY <2>1 DEF LagAtWork
  <2>3. CASE worker' = worker
    BY <2>2, <2>3
  <2>4. ASSUME NEW v \in Workers, Load(v) \/ Tick(v) \/ Check(v) \/ Finish(v) \/ Stopped(v)
        PROVE  worker'["lag"] = "work"
    <3>1. v # "lag"
      BY <1>2, <2>1, <2>2, <2>4 DEF Load, Tick, Finish, Stopped
    <3>2. PICK s \in {"off", "load", "select", "deaf", "check", "work", "gone"} : Goto(v, s)
      BY <2>4 DEF Load, Tick, Check, Finish, Stopped
    <3> QED
      BY <2>2, <3>1, <3>2, GotoType, NameFacts
  <2>5. ASSUME NEW c \in Callers, StartRetention(c)  PROVE worker'["lag"] = "work"
    <3>1. caller[c].topic \in Topics
      BY DEF TypeOK
    <3> QED
      BY <2>2, <2>5, <3>1, NameFacts DEF StartRetention, TypeOK
  <2>6. ~StartWorkers
    BY <2>2, StageFacts DEF StartWorkers, NotYetStarted, Starting
  <2> QED
    BY <2>3, <2>4, <2>5, <2>6
       DEF Next, CallerStep, CloseStep, vars, unclosed, Call, Lookup, Create, CreateFails, Discard, Return,
           Elect, StartGrpc, StartGrpcFails, JoinPeer, Signal, CloseChannel, ClearField,
           AwaitGroup, StopGrpc, StopHttp, StopRaft, CloseLogs, CloseStore
<1> QED
  BY <1>1, <1>2

\* No worker that Close has waited for comes back, except as a late one.
LEMMA GroupsWaitedStep == TypeOK /\ GroupsWaited /\ [Next]_vars => GroupsWaited'
<1> SUFFICES ASSUME TypeOK, GroupsWaited, [Next]_vars PROVE GroupsWaited'
  OBVIOUS
<1>t. pc \in Stages /\ \A c \in Callers : caller[c].topic \in Topics
  BY DEF TypeOK
<1>1. ASSUME NEW i \in {1, 2, 3}, Past(i)  PROVE ~StartWorkers
  BY <1>1, StageFacts DEF StartWorkers, Past, ClosingGroups, Stopping
<1>2. AwaitGroup => worker' = worker /\ GroupDone(Groups[pc.group])
  BY DEF AwaitGroup, unclosed
<1>3. Past(1)' => worker'["compaction"] \in Ended
  <2>1. CASE Past(1)
    BY <1>t, <1>1, <2>1, EndedStep, NameFacts DEF GroupsWaited
  <2>2. ASSUME ~Past(1), Past(1)'  PROVE worker'["compaction"] \in Ended
    BY <1>t, <1>2, <2>2, PastStep, GroupFacts, MemberFacts
  <2> QED
    BY <2>1, <2>2
<1>4. Past(3)' => worker'["lag"] \in Ended
  <2>1. CASE Past(3)
    BY <1>t, <1>1, <2>1, EndedStep, NameFacts DEF GroupsWaited
  <2>2. ASSUME ~Past(3), Past(3)'  PROVE worker'["lag"] \in Ended
    BY <1>t, <1>2, <2>2, PastStep, GroupFacts, MemberFacts
  <2> QED
    BY <2>1, <2>2
<1>5. ASSUME Past(2)', NEW t \in Topics, t \notin late'  PROVE worker'[t] \in Ended
  <2>1. CASE Past(2)
    <3>1. RetentionAwaited
      BY <1>t, <2>1, StagesOut DEF RetentionAwaited, Starting, Past, ClosingGroups, Stopping
    <3>2. late \subseteq late'
      BY DEF Next, CallerStep, CloseStep, vars, unclosed, Call, Lookup, Create, CreateFails, Discard,
             StartRetention, Return, Load, Tick, Check, Finish, Stopped, Elect, StartGrpc,
             StartGrpcFails, JoinPeer, StartWorkers, Signal, CloseChannel, ClearField,
             AwaitGroup, StopGrpc, StopHttp, StopRaft, CloseLogs, CloseStore
    <3>3. worker[t] \in Ended
      BY <1>5, <2>1, <3>2 DEF GroupsWaited
    <3>4. \A c \in Callers : ~(StartRetention(c) /\ t = caller[c].topic)
      BY <1>5, <3>1 DEF StartRetention
    <3>5. t \notin {"lag", "compaction"} /\ t \in Workers
      BY NameFacts
    <3> QED
      BY <3>3, <3>4, <3>5, EndedStep
  <2>2. CASE ~Past(2)
    BY <1>t, <1>2, <1>5, <2>2, PastStep, GroupFacts, MemberFacts
  <2> QED
    BY <2>1, <2>2
<1> QED
  BY <1>3, <1>4, <1>5 DEF GroupsWaited

\* The stages from which Close enters those that ServersWaited tells apart.
LEMMA StoppingStep ==
  ASSUME pc \in Stages, [Next]_vars
  PROVE  /\ pc'.at \in Stopping \ {"grpc"} =>
              pc.at \in Stopping \ {"grpc"} \/ (pc = Stage("grpc") /\ StopGrpc)
         /\ pc'.at \in Stopping \ {"grpc", "grpcWait"} =>
              \/ pc.at \in Stopping \ {"grpc", "grpcWait"}
              \/ pc = Stage("grpcWait") /\ StopGrpc
         /\ pc'.at \in {"raftWait", "logs", "store", "done"} =>
              pc.at \in {"raftWait", "logs", "store", "done"} \/ (pc = Stage("raft") /\ StopRaft)
         /\ pc'.at \in {"logs", "store", "done"} =>
              pc.at \in {"logs", "store", "done"} \/ (pc = Stage("raftWait") /\ StopRaft)
         /\ pc.at \in {"store", "done"} => pc'.at \in {"store", "done"}
         /\ pc.at = "done" => pc'.at = "done"
<1>1. CASE pc' = pc
  BY <1>1
<1>2. CASE AwaitGroup
  BY <1>2, StageFacts DEF AwaitGroup, Stopping
<1>3. CASE CloseChannel \/ ClearField
  <2>1. pc'.at \in {"nil", "wait"} /\ pc.at \in {"close", "nil"}
    BY <1>3, StagesOut DEF CloseChannel, ClearField
  <2> QED
    BY <2>1 DEF Stopping
<1>4. CASE StartGrpc \/ StartWorkers
  BY <1>4, StageFacts DEF StartGrpc, StartWorkers, Stopping
<1>5. CASE StartGrpcFails \/ Signal
  BY <1>5, StageFacts DEF StartGrpcFails, Signal, FirstOfClose, Stopping
<1>6. CASE JoinPeer
  <2>1. pc.at = "join" /\ pc'.at \in {"workers", "join", "close"}
    BY <1>6, StageFacts, StagesOut DEF JoinPeer, FirstOfClose
  <2> QED
    BY <2>1 DEF Stopping
<1>7. CASE StopGrpc
  BY <1>7, StageFacts DEF StopGrpc, Stopping
<1>8. CASE StopHttp
  BY <1>8, StageFacts DEF StopHttp, Stopping
<1>9. CASE StopRaft
  BY <1>9, StageFacts DEF StopRaft, Stopping
<1>10. CASE CloseLogs \/ CloseStore
  BY <1>10, StageFacts DEF CloseLogs, CloseStore, Stopping
<1> QED
  BY <1>1, <1>2, <1>3, <1>4, <1>5, <1>6, <1>7, <1>8, <1>9, <1>10
     DEF Next, CallerStep, CloseStep, vars, Call, Lookup, Create, CreateFails, Discard, StartRetention,
         Return, Load, Tick, Check, Finish, Stopped, Elect

\* The servers, the logs and the store are switched where Close and NewBroker
\* switch them, and nowhere else.
LEMMA ServerStep ==
  ASSUME [Next]_vars
  PROVE  /\ grpcOpen' = grpcOpen \/ StartGrpc \/ ~grpcOpen'
         /\ raftUp' = raftUp \/ ~raftUp'
         /\ logsOpen' = logsOpen \/ CloseLogs
         /\ storeOpen' = storeOpen \/ CloseStore
  BY Zenon
     DEF Next, CallerStep, CloseStep, vars, servers, Call, Lookup, Create, CreateFails, Discard,
         StartRetention, Return, Load, Tick, Check, Finish, Stopped, Elect, StartGrpc,
         StartGrpcFails, JoinPeer, StartWorkers, Signal, CloseChannel, ClearField,
         AwaitGroup, StopGrpc, StopHttp, StopRaft, CloseLogs, CloseStore

\* A server that Close has stopped serves nobody again.
LEMMA ServersWaitedStep == TypeOK /\ ServersWaited /\ [Next]_vars => ServersWaited'
<1> SUFFICES ASSUME TypeOK, ServersWaited, [Next]_vars PROVE ServersWaited'
  OBVIOUS
<1>t. pc \in Stages
  BY DEF TypeOK
<1>1. pc'.at \in Stopping \ {"grpc"} => ~grpcOpen'
  <2> SUFFICES ASSUME pc'.at \in Stopping \ {"grpc"} PROVE ~grpcOpen'
    OBVIOUS
  <2>1. CASE pc = Stage("grpc") /\ StopGrpc
    BY <2>1, StageFacts DEF StopGrpc
  <2>2. CASE pc.at \in Stopping \ {"grpc"}
    <3>1. ~grpcOpen
      BY <2>2 DEF ServersWaited
    <3>2. ~StartGrpc
      BY <2>2, StageFacts DEF StartGrpc, Stopping
    <3> QED
      BY <3>1, <3>2, ServerStep
  <2> QED
    BY <1>t, <2>1, <2>2, StoppingStep
<1>2. pc'.at \in Stopping \ {"grpc", "grpcWait"} => AllIdle(GrpcHandlers)'
  <2> SUFFICES ASSUME pc'.at \in Stopping \ {"grpc", "grpcWait"}, NEW c \in GrpcHandlers
               PROVE  caller'[c].at = "idle"
    BY DEF AllIdle
  <2>1. CASE pc = Stage("grpcWait") /\ StopGrpc
    BY <2>1, StageFacts DEF StopGrpc, AllIdle, unclosed
  <2>2. CASE pc.at \in Stopping \ {"grpc", "grpcWait"}
    <3>1. caller[c].at = "idle" /\ ~grpcOpen
      BY <2>2 DEF ServersWaited, AllIdle
    <3>2. c \notin HttpHandlers /\ c # "fsm" /\ c # "lag" /\ c \in Callers
      BY BrokerLifecycleAssumption DEF Callers
    <3>3. \A t \in Topics : ~Call(c, t)
      BY <3>1, <3>2 DEF Call, MayStart
    <3> QED
      BY <3>1, <3>2, <3>3, IdleStep
  <2> QED
    BY <1>t, <2>1, <2>2, StoppingStep
<1>3. pc'.at \in {"raftWait", "logs", "store", "done"} => ~raftUp'
  <2> SUFFICES ASSUME pc'.at \in {"raftWait", "logs", "store", "done"} PROVE ~raftUp'
    OBVIOUS
  <2>1. CASE pc = Stage("raft") /\ StopRaft
    BY <2>1, StageFacts DEF StopRaft
  <2>2. CASE pc.at \in {"raftWait", "logs", "store", "done"}
    BY <2>2, ServerStep DEF ServersWaited
  <2> QED
    BY <1>t, <2>1, <2>2, StoppingStep
<1>4. pc'.at \in {"logs", "store", "done"} => caller'["fsm"].at = "idle"
  <2> SUFFICES ASSUME pc'.at \in {"logs", "store", "done"} PROVE caller'["fsm"].at = "idle"
    OBVIOUS
  <2>1. CASE pc = Stage("raftWait") /\ StopRaft
    BY <2>1, StageFacts DEF StopRaft, unclosed
  <2>2. CASE pc.at \in {"logs", "store", "done"}
    <3>1. caller["fsm"].at = "idle" /\ ~raftUp
      BY <2>2 DEF ServersWaited
    <3>2. \A t \in Topics : ~Call("fsm", t)
      BY <3>1, BrokerLifecycleAssumption DEF Call, MayStart
    <3> QED
      BY <3>1, <3>2, IdleStep, NameFacts
  <2> QED
    BY <1>t, <2>1, <2>2, StoppingStep
<1>5. ~logsOpen' => pc'.at \in {"store", "done"}
  <2>1. CloseLogs => pc'.at \in {"store", "done"}
    BY StageFacts DEF CloseLogs
  <2> QED
    BY <1>t, <2>1, ServerStep, StoppingStep DEF ServersWaited
<1>6. ~storeOpen' => pc'.at = "done"
  <2>1. CloseStore => pc'.at = "done"
    BY StageFacts DEF CloseStore
  <2> QED
    BY <1>t, <2>1, ServerStep, StoppingStep DEF ServersWaited
<1> QED
  BY <1>1, <1>2, <1>3, <1>4, <1>5, <1>6 DEF ServersWaited

-----------------------------------------------------------------------------
(***************************************************************************)
(* The results.                                                            *)
(***************************************************************************)

\* NewBroker leaves the state Inv describes.
LEMMA InvInit == Init => Inv
<1> SUFFICES ASSUME Init PROVE Inv
  OBVIOUS
<1>1. pc = Stage("listen") /\ pc.at = "listen" /\ pc \in Stages
  BY StageFacts, StagesIn DEF Init
<1>2. TypeOK
  <2>1. TopicTypes /\ SignalTypes
    BY DEF Init, TopicTypes, SignalTypes
  <2>2. GoTypes
    BY DEF Init, GoTypes, CallerType, WorkerType
  <2>3. ServerTypes
    BY DEF Init, ServerTypes
  <2> QED
    BY <1>1, <2>1, <2>2, <2>3, TypeParts
<1>3. LogsHeld
  <2>1. ASSUME NEW t \in Topics  PROVE Cardinality(Discarding(t)) = 0
    <3>1. Discarding(t) = {}
      BY DEF Init, Discarding
    <3> QED
      BY <3>1, FS_EmptySet
  <2> QED
    BY <2>1 DEF Init, LogsHeld
<1>4. NotYetStarted /\ LagAtWork
  BY NameFacts DEF Init, NotYetStarted, LagAtWork
<1>5. GroupsWaited
  BY <1>1 DEF GroupsWaited, Past, ClosingGroups, Stopping
<1>6. ServersWaited
  BY <1>1 DEF Init, ServersWaited, Stopping
<1> QED
  BY <1>2, <1>3, <1>4, <1>5, <1>6 DEF Inv

\* NewBroker, the goroutines and Close, in any interleaving, keep the inductive
\* invariant.
THEOREM Invariance == Spec => []Inv
<1>1. Init => Inv
  BY InvInit
<1>2. Inv /\ [Next]_vars => Inv'
  BY TypeStep, LogsHeldStep, LagAtWorkStep, NotYetStartedStep, GroupsWaitedStep,
     ServersWaitedStep, Zenon
     DEF Inv
<1> QED
  BY <1>1, <1>2, PTL DEF Spec

\* The broker's variables keep their types.
THEOREM TypeCorrect == Spec => []TypeOK
<1>1. Inv => TypeOK
  BY DEF Inv
<1> QED
  BY <1>1, Invariance, PTL

\* For any number of topics and of goroutines that race, fail and retry in
\* GetPartition, a topic's directories are open once, through Broker.logs, and
\* otherwise only to callers that failed and are closing them again.
THEOREM OneLog == Spec => []OneLogInUse
<1>1. Inv => OneLogInUse
  BY DiscardingFinite DEF Inv, TypeOK, LogsHeld, OneLogInUse
<1> QED
  BY <1>1, Invariance, PTL

\* Whenever a signal arrives, or a start fails, Close takes the logs and the
\* store away only from under HTTP requests and late retention workers.
THEOREM SafeClose == Spec => []LogsOutliveTheirUsers
<1>1. Inv => LogsOutliveTheirUsers
  <2> SUFFICES ASSUME Inv, ~logsOpen \/ ~storeOpen PROVE
                 /\ AllIdle(GrpcHandlers \cup {"fsm", "lag"})
                 /\ \A w \in Workers \ late : worker[w] \in {"off", "gone"}
    BY DEF LogsOutliveTheirUsers
  <2>1. pc.at \in {"store", "done"}
    BY DEF Inv, ServersWaited
  <2>2. Past(1) /\ Past(2) /\ Past(3)
    BY <2>1 DEF Past, Stopping
  <2>3. worker["lag"] \in Ended /\ worker["compaction"] \in Ended
        /\ \A t \in Topics \ late : worker[t] \in Ended
    BY <2>2 DEF Inv, GroupsWaited
  <2>4. caller["lag"].at = "idle"
    BY <2>3 DEF Inv, LagAtWork, Ended
  <2>5. AllIdle(GrpcHandlers) /\ caller["fsm"].at = "idle"
    BY <2>1 DEF Inv, ServersWaited, Stopping
  <2> QED
    BY <2>3, <2>4, <2>5 DEF AllIdle, Workers, Ended
<1> QED
  BY <1>1, Invariance, PTL

=============================================================================
