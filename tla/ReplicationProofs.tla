------------------------- MODULE ReplicationProofs -------------------------
(***************************************************************************)
(* Safety of publishing through Raft, for any number of brokers, handlers, *)
(* partitions, keys, elections and faults.                                 *)
(*                                                                         *)
(* The logs of the brokers agree because each of them, as long as it was   *)
(* not disturbed, is what the committed commands build up to the index it  *)
(* has applied.  The inductive invariant states this with a history F of   *)
(* the logs after every committed command, which a commit extends and an   *)
(* apply follows.  The order of the records of a key comes from Causal: a  *)
(* command stands in the Raft log behind all those that were acknowledged  *)
(* when its request arrived.                                               *)
(***************************************************************************)
EXTENDS Replication, TLAPS

Logs == [Partitions -> Seq(Record)]
Busy == [pc : {"selected", "waiting"}, node : Nodes, cmd : Command]

\* Snapshots follow the FSM, the FSM follows Raft.
Positions == \A n \in Nodes : snapshot[n] <= applied[n] /\ applied[n] <= Len(committed)

\* The commands of the Raft log: the committed ones and the leader's others.
LogLen == Len(committed) + Len(tail)
LogAt(i) == IF i <= Len(committed) THEN committed[i] ELSE tail[i - Len(committed)]

Selected(h) == handler[h] \in Busy /\ handler[h].pc = "selected"

\* A keyed command whose request named no partition goes to that of its key.
ByKeyUnlessNamed(key, named, p) == key # NoKey /\ ~named => p = KeyPartition[key]

WellPlaced(cmd) == ByKeyUnlessNamed(cmd.key, cmd.named, cmd.partition)

\* Commands are numbered, and enter the log once.
Numbered ==
  /\ \A i \in 1..LogLen : LogAt(i).id <= count /\ WellPlaced(LogAt(i))
  /\ \A i, j \in 1..LogLen : LogAt(i).id = LogAt(j).id => i = j
  /\ \A h \in Handlers : Selected(h) =>
       /\ handler[h].cmd.id <= count /\ WellPlaced(handler[h].cmd)
       /\ \A i \in 1..LogLen : LogAt(i).id # handler[h].cmd.id
  /\ \A g, h \in Handlers :
       Selected(g) /\ Selected(h) /\ handler[g].cmd.id = handler[h].cmd.id => g = h

\* What was acknowledged when a request arrived is committed, in front of it.
CommittedBefore(x, i) == \E k \in 1..Len(committed) : k < i /\ committed[k].id = x

Causal ==
  /\ \A i \in 1..LogLen : \A x \in LogAt(i).after : CommittedBefore(x, i)
  /\ \A h \in Handlers : Selected(h) =>
       \A x \in handler[h].cmd.after : CommittedBefore(x, Len(committed) + 1)

\* A torn write lies in front of what is appended after it, on a disturbed broker.
TornBehind ==
  \A t \in torn : t.node \in disturbed /\ t.offset <= Len(plog[t.node][t.partition])

\* No torn write touches place j of a log.
Safe(n, p, j) == \A t \in Tears(n, p) : j < t.offset

Calm(n) == n \notin replayed /\ n \notin disturbed

Prefix(s, t) == Len(s) <= Len(t) /\ \A i \in 1..Len(s) : s[i] = t[i]

\* What one more command makes of the logs.
Extended(logs, cmd) == [logs EXCEPT ![cmd.partition] = @ \o RecordsOf(cmd)]

\* F holds the logs after each of the committed commands.
IsHistory(F) ==
  /\ F \in [0..Len(committed) -> Logs]
  /\ F[0] = [p \in Partitions |-> << >>]
  /\ \A k \in 1..Len(committed) : F[k] = Extended(F[k - 1], committed[k])
  /\ \A j, k \in 0..Len(committed) : j <= k => \A p \in Partitions : Prefix(F[j][p], F[k][p])

\* Undisturbed brokers follow it.
Follows(F) == \A n \in Nodes : Calm(n) => plog[n] = F[applied[n]]

\* So do the offsets they have returned.
Placed(F, a) ==
  \E k \in 1..Len(committed) :
    /\ committed[k] = a.cmd
    /\ Calm(a.node) => a.offset = Len(F[k - 1][a.cmd.partition])

FromHistory == \E F : IsHistory(F) /\ Follows(F) /\ \A a \in acked : Placed(F, a)

Inv ==
  /\ TypeOK /\ Positions /\ Numbered /\ Causal
  /\ FromHistory /\ TornBehind /\ AckedStays /\ NothingLost

-----------------------------------------------------------------------------
(***************************************************************************)
(* Commands and records.                                                   *)
(***************************************************************************)

\* The fields of a command.
LEMMA CommandFields ==
  ASSUME NEW cmd \in Command
  PROVE  /\ cmd.id \in Nat /\ cmd.id \in 1..MaxCommands
         /\ cmd.partition \in Partitions /\ cmd.key \in Keys \cup {NoKey}
         /\ cmd.size \in Nat /\ cmd.size >= 1 /\ cmd.named \in BOOLEAN
         /\ cmd.after \subseteq 1..MaxCommands
<1>1. /\ cmd.id \in 1..MaxCommands /\ cmd.partition \in Partitions /\ cmd.key \in Keys \cup {NoKey}
      /\ cmd.size \in BatchSizes \cup {1} /\ cmd.named \in BOOLEAN
      /\ cmd.after \subseteq 1..MaxCommands
  BY DEF Command
<1>2. MaxCommands \in Nat /\ BatchSizes \subseteq Nat \ {0}
  BY ReplicationAssumption
<1>3. cmd.id \in Nat
  <2>1. \A n \in Nat : \A i \in 1..n : i \in Nat
    OBVIOUS
  <2> QED
    BY <1>1, <1>2, <2>1, Zenon
<1>4. cmd.size \in Nat /\ cmd.size >= 1
  <2>1. \A x \in BatchSizes \cup {1} : x \in Nat /\ x >= 1
    BY <1>2
  <2> QED
    BY <1>1, <2>1, Zenon
<1> QED
  BY <1>1, <1>3, <1>4

\* The records of a command.
LEMMA RecordsFacts ==
  ASSUME NEW cmd \in Command
  PROVE  /\ RecordsOf(cmd) \in Seq(Record) /\ Len(RecordsOf(cmd)) = cmd.size
         /\ DOMAIN RecordsOf(cmd) = 1..cmd.size
         /\ \A i \in 1..cmd.size : RecordsOf(cmd)[i] = [id |-> cmd.id, i |-> i]
<1>1. cmd.id \in 1..MaxCommands /\ cmd.size \in Nat
  BY CommandFields
<1>2. \A i \in 1..cmd.size : [id |-> cmd.id, i |-> i] \in Record
  <2>1. cmd.id \in 0..MaxCommands
    BY <1>1, ReplicationAssumption
  <2> QED
    BY <1>1, <2>1 DEF Record
<1> QED
  BY <1>1, <1>2 DEF RecordsOf

\* Appending a command adds its records behind the others.
LEMMA ExtendedFacts ==
  ASSUME NEW logs \in Logs, NEW cmd \in Command
  PROVE  /\ Extended(logs, cmd) \in Logs
         /\ \A p \in Partitions : Prefix(logs[p], Extended(logs, cmd)[p])
         /\ Len(Extended(logs, cmd)[cmd.partition]) = Len(logs[cmd.partition]) + cmd.size
         /\ \A i \in 1..cmd.size :
              Extended(logs, cmd)[cmd.partition][Len(logs[cmd.partition]) + i]
                = [id |-> cmd.id, i |-> i]
<1> DEFINE q == cmd.partition
           new == logs[q] \o RecordsOf(cmd)
<1>1. q \in Partitions /\ cmd.size \in Nat
  BY CommandFields
<1>2. logs[q] \in Seq(Record) /\ RecordsOf(cmd) \in Seq(Record) /\ Len(logs[q]) \in Nat
  BY <1>1, RecordsFacts DEF Logs
<1>3. new \in Seq(Record) /\ Len(new) = Len(logs[q]) + cmd.size
  BY <1>2, RecordsFacts
<1>4. \A i \in 1..Len(logs[q]) : new[i] = logs[q][i]
  BY <1>2
<1>5. ASSUME NEW i \in 1..cmd.size  PROVE new[Len(logs[q]) + i] = [id |-> cmd.id, i |-> i]
  <2>1. RecordsOf(cmd)[i] = [id |-> cmd.id, i |-> i] /\ i \in 1..Len(RecordsOf(cmd))
    BY RecordsFacts
  <2>2. \A r, t \in Seq(Record) : \A j \in 1..Len(t) : (r \o t)[Len(r) + j] = t[j]
    OBVIOUS
  <2> QED
    BY <1>2, <2>1, <2>2
<1>6. Extended(logs, cmd) = [logs EXCEPT ![q] = new]
  BY DEF Extended
<1> HIDE DEF new, q
<1>7. Extended(logs, cmd) \in Logs
  BY <1>1, <1>3, <1>6 DEF Logs
<1>8. Extended(logs, cmd)[q] = new /\ \A p \in Partitions \ {q} : Extended(logs, cmd)[p] = logs[p]
  BY <1>1, <1>6 DEF Logs
<1>9. ASSUME NEW p \in Partitions  PROVE Prefix(logs[p], Extended(logs, cmd)[p])
  <2>1. CASE p = q
    BY <1>1, <1>2, <1>3, <1>4, <1>8, <2>1 DEF Prefix
  <2>2. CASE p # q
    <3>1. logs[p] \in Seq(Record) /\ Extended(logs, cmd)[p] = logs[p]
      BY <1>8, <2>2 DEF Logs
    <3> QED
      BY <3>1 DEF Prefix
  <2> QED
    BY <2>1, <2>2
<1> QED
  BY <1>3, <1>5, <1>7, <1>8, <1>9 DEF q

-----------------------------------------------------------------------------
(***************************************************************************)
(* Types are kept.                                                         *)
(***************************************************************************)

\* TypeOK in parts that different actions disturb.
RaftTypes ==
  /\ leader \in Nodes \cup {NoNode}
  /\ committed \in Seq(Command) /\ tail \in Seq(Command)
  /\ up \subseteq Nodes
  /\ applied \in [Nodes -> Nat] /\ stored \in [Nodes -> Nat] /\ snapshot \in [Nodes -> Nat]

BrokerTypes ==
  /\ roundRobin \in [Nodes -> Partitions]
  /\ plog \in [Nodes -> Logs] /\ torn \subseteq Tear
  /\ count \in 0..MaxCommands
  /\ acked \subseteq [cmd : Command, node : Nodes, offset : Nat]

HandlerTypes == handler \in [Handlers -> {Idle} \cup Busy]

CountTypes ==
  /\ replayed \subseteq Nodes /\ disturbed \subseteq Nodes
  /\ elections \in Nat /\ faults \in Nat

\* The parts make up TypeOK.
LEMMA TypeParts == TypeOK <=> RaftTypes /\ BrokerTypes /\ HandlerTypes /\ CountTypes
  BY DEF TypeOK, RaftTypes, BrokerTypes, HandlerTypes, CountTypes, Logs, Busy

\* A handler that is not idle has a command.
LEMMA BusyHandler ==
  ASSUME HandlerTypes, NEW h \in Handlers, handler[h].pc \in {"selected", "waiting"}
  PROVE  /\ handler[h] \in Busy /\ handler[h].node \in Nodes /\ handler[h].cmd \in Command
         /\ handler[h] # Idle
<1>1. handler[h] \in {Idle} \cup Busy
  BY DEF HandlerTypes
<1>2. handler[h] # Idle
  BY DEF Idle
<1>3. handler[h] \in Busy
  BY <1>1, <1>2
<1> QED
  BY <1>2, <1>3 DEF Busy

\* A request that ends leaves its handler idle.
LEMMA AnswerType ==
  ASSUME HandlerTypes, NEW hs, Answer(hs)
  PROVE  HandlerTypes' /\ \A h \in Handlers : handler'[h] = Idle \/ handler'[h] = handler[h]
  BY DEF HandlerTypes, Answer

\* A request that is accepted leaves a command with its handler.
LEMMA AcceptFacts ==
  ASSUME BrokerTypes, RaftTypes, HandlerTypes, NEW h \in Handlers, NEW key \in Keys \cup {NoKey},
         NEW p \in Partitions, NEW size \in BatchSizes \cup {1}, NEW named \in BOOLEAN,
         Accept(h, key, named, p, size)
  PROVE  /\ leader \in Nodes /\ handler[h] = Idle
         /\ count' = count + 1 /\ count' \in 1..MaxCommands
         /\ handler' \in [Handlers -> {Idle} \cup Busy]
         /\ \A g \in Handlers \ {h} : handler'[g] = handler[g]
         /\ handler'[h] \in Busy
         /\ handler'[h].cmd.id = count + 1
         /\ ByKeyUnlessNamed(key, named, p) => WellPlaced(handler'[h].cmd)
         /\ handler'[h].cmd.after = {a.cmd.id : a \in acked}
         /\ UNCHANGED <<raft, plog, torn, acked, history, bounds>>
<1> DEFINE after == {a.cmd.id : a \in acked}
           cmd == [id |-> count + 1, key |-> key, named |-> named, partition |-> p, size |-> size,
                   after |-> after]
           busy == [pc |-> "selected", node |-> leader, cmd |-> cmd]
<1>1. /\ leader # NoNode /\ handler[h] = Idle /\ count < MaxCommands /\ count' = count + 1
      /\ handler' = [handler EXCEPT ![h] = busy]
      /\ UNCHANGED <<raft, plog, torn, acked, history, bounds>>
  BY DEF Accept
<1>2. leader \in Nodes
  BY <1>1 DEF RaftTypes
<1>3. count + 1 \in 1..MaxCommands
  <2>1. count \in 0..MaxCommands /\ MaxCommands \in Nat
    BY ReplicationAssumption DEF BrokerTypes
  <2> QED
    BY <1>1, <2>1
<1>4. after \subseteq 1..MaxCommands
  <2> SUFFICES ASSUME NEW a \in acked PROVE a.cmd.id \in 1..MaxCommands
    OBVIOUS
  <2>1. a.cmd \in Command
    BY DEF BrokerTypes
  <2> QED
    BY <2>1, CommandFields
<1> HIDE DEF after
<1>5. cmd \in Command
  BY <1>3, <1>4 DEF Command
<1>6. /\ cmd.id = count + 1 /\ cmd.key = key /\ cmd.named = named /\ cmd.partition = p
      /\ cmd.after = after
  OBVIOUS
<1>9. ByKeyUnlessNamed(key, named, p) => WellPlaced(cmd)
  BY <1>6 DEF WellPlaced
<1> HIDE DEF cmd
<1>7. busy \in Busy /\ busy.cmd = cmd
  BY <1>2, <1>5 DEF Busy
<1> HIDE DEF busy
<1>8. handler' \in [Handlers -> {Idle} \cup Busy] /\ handler'[h] = busy
      /\ \A g \in Handlers \ {h} : handler'[g] = handler[g]
  BY <1>1, <1>7 DEF HandlerTypes
<1> QED
  BY <1>1, <1>2, <1>3, <1>6, <1>7, <1>8, <1>9 DEF after

\* The four kinds of publish request.
Publishes(h) ==
  \/ \E key \in ExplicitKeys, p \in Explicit : PublishTo(h, key, p)
  \/ \E key \in Keys : PublishKeyed(h, key)
  \/ PublishNext(h)
  \/ \E key \in ExplicitKeys, p \in Explicit, size \in BatchSizes : PublishBatch(h, key, p, size)

\* One of them is accepted.
Accepts(h) ==
  \E key \in Keys \cup {NoKey}, named \in BOOLEAN, p \in Partitions, size \in BatchSizes \cup {1} :
    Accept(h, key, named, p, size) /\ ByKeyUnlessNamed(key, named, p)

\* What publish requests accept, and the round robin.
LEMMA PublishFacts ==
  ASSUME BrokerTypes, RaftTypes, NEW h \in Handlers, Publishes(h)
  PROVE  Accepts(h) /\ roundRobin' \in [Nodes -> Partitions]
<1>a. /\ NumPartitions \in Nat \ {0} /\ Explicit \subseteq Partitions
      /\ KeyPartition \in [Keys -> Partitions] /\ NoKey \notin Keys
      /\ ExplicitKeys \subseteq Keys \cup {NoKey}
  BY ReplicationAssumption
<1>b. roundRobin \in [Nodes -> Partitions]
  BY DEF BrokerTypes
<1>1. ASSUME NEW key \in ExplicitKeys, NEW p \in Explicit, NEW size \in BatchSizes \cup {1},
             Accept(h, key, TRUE, p, size), UNCHANGED roundRobin
      PROVE  Accepts(h) /\ roundRobin' \in [Nodes -> Partitions]
  BY <1>a, <1>b, <1>1 DEF Accepts, ByKeyUnlessNamed
<1>2. ASSUME NEW key \in Keys, PublishKeyed(h, key)
      PROVE  Accepts(h) /\ roundRobin' \in [Nodes -> Partitions]
  <2>1. SelectPartition(leader, key) = KeyPartition[key] /\ KeyPartition[key] \in Partitions
    BY <1>a DEF SelectPartition
  <2>2. Accept(h, key, FALSE, KeyPartition[key], 1) /\ UNCHANGED roundRobin
    BY <1>2, <2>1 DEF PublishKeyed
  <2> QED
    BY <1>a, <1>b, <2>1, <2>2 DEF Accepts, ByKeyUnlessNamed
<1>3. ASSUME PublishNext(h)  PROVE Accepts(h) /\ roundRobin' \in [Nodes -> Partitions]
  <2>1. Accept(h, NoKey, FALSE, roundRobin[leader], 1) /\ roundRobin' = Advance(leader)
    BY <1>3 DEF PublishNext, SelectPartition
  <2>2. leader \in Nodes
    BY <2>1 DEF Accept, RaftTypes
  <2>3. roundRobin[leader] \in Partitions
    BY <1>b, <2>2
  <2>4. (roundRobin[leader] + 1) % NumPartitions \in Partitions
    BY <1>a, <2>3 DEF Partitions
  <2>5. roundRobin' \in [Nodes -> Partitions]
    BY <1>b, <2>1, <2>2, <2>4 DEF Advance
  <2> QED
    BY <2>1, <2>3, <2>5 DEF Accepts, ByKeyUnlessNamed
<1> QED
  BY <1>1, <1>2, <1>3 DEF Publishes, PublishTo, PublishBatch

\* What is appended is as long as the command, torn log or not.
LEMMA WrittenFacts ==
  ASSUME NEW n \in Nodes, NEW cmd \in Command
  PROVE  Written(n, cmd) \in Seq(Record) /\ Len(Written(n, cmd)) = cmd.size
<1>1. cmd.size \in Nat /\ RecordsOf(cmd) \in Seq(Record)
  BY CommandFields, RecordsFacts
<1>2. Unknown \in Record
  BY ReplicationAssumption DEF Unknown, Record
<1>3. CASE Tears(n, cmd.partition) = {}
  <2>1. Len(RecordsOf(cmd)) = cmd.size
    BY <1>1 DEF RecordsOf
  <2> QED
    BY <1>1, <1>3, <2>1 DEF Written
<1>4. CASE Tears(n, cmd.partition) # {}
  <2>1. Written(n, cmd) = [i \in 1..cmd.size |-> Unknown]
    BY <1>4 DEF Written
  <2> QED
    BY <1>1, <1>2, <2>1
<1> QED
  BY <1>3, <1>4

\* Appending a command to the logs of one broker.
LEMMA AppendToFacts ==
  ASSUME BrokerTypes, NEW n \in Nodes, NEW cmd \in Command
  PROVE  /\ AppendTo(n, cmd) \in [Nodes -> Logs]
         /\ Tears(n, cmd.partition) = {} => AppendTo(n, cmd)[n] = Extended(plog[n], cmd)
         /\ \A p \in Partitions : Prefix(plog[n][p], AppendTo(n, cmd)[n][p])
         /\ \A m \in Nodes \ {n} : AppendTo(n, cmd)[m] = plog[m]
<1> DEFINE q == cmd.partition
           new == plog[n][q] \o Written(n, cmd)
<1>1. plog \in [Nodes -> Logs] /\ plog[n] \in Logs
  BY DEF BrokerTypes
<1>2. q \in Partitions /\ cmd.size \in Nat /\ RecordsOf(cmd) \in Seq(Record)
  BY CommandFields, RecordsFacts
<1>4. Written(n, cmd) \in Seq(Record)
  BY WrittenFacts
<1>5. plog[n][q] \in Seq(Record) /\ \A p \in Partitions : plog[n][p] \in Seq(Record)
  BY <1>1, <1>2 DEF Logs
<1>6. new \in Seq(Record) /\ Prefix(plog[n][q], new)
  <2>1. \A u, v \in Seq(Record) : u \o v \in Seq(Record) /\ Prefix(u, u \o v)
    BY DEF Prefix
  <2> QED
    BY <1>4, <1>5, <2>1
<1>7. AppendTo(n, cmd) = [plog EXCEPT ![n] = [plog[n] EXCEPT ![q] = new]]
  BY <1>1 DEF AppendTo
<1>8. Tears(n, q) = {} => [plog[n] EXCEPT ![q] = new] = Extended(plog[n], cmd)
  BY DEF Written, Extended
<1> HIDE DEF new, q
<1>9. [plog[n] EXCEPT ![q] = new] \in Logs
  BY <1>1, <1>2, <1>6 DEF Logs
<1>10. AppendTo(n, cmd)[n] = [plog[n] EXCEPT ![q] = new]
  BY <1>1, <1>7
<1>11. ASSUME NEW p \in Partitions  PROVE Prefix(plog[n][p], AppendTo(n, cmd)[n][p])
  <2>1. CASE p = q
    BY <1>1, <1>2, <1>6, <1>10, <2>1 DEF Logs
  <2>2. CASE p # q
    <3>1. AppendTo(n, cmd)[n][p] = plog[n][p]
      BY <1>1, <1>10, <2>2 DEF Logs
    <3> QED
      BY <1>5, <3>1 DEF Prefix
  <2> QED
    BY <2>1, <2>2
<1>12. Tears(n, q) = {} => AppendTo(n, cmd)[n] = Extended(plog[n], cmd)
  BY <1>8, <1>10
<1>13. /\ AppendTo(n, cmd) \in [Nodes -> Logs]
       /\ \A m \in Nodes \ {n} : AppendTo(n, cmd)[m] = plog[m]
  BY <1>1, <1>7, <1>9
<1> QED
  BY <1>11, <1>12, <1>13 DEF q

\* A write cut short leaves a tear at the end of the log.
LEMMA CutShortFacts ==
  ASSUME BrokerTypes, NEW n \in Nodes, NEW cmd \in Command, CutShort(n, cmd)
  PROVE  /\ plog' = plog /\ torn' \subseteq Tear
         /\ \E t \in Tear : /\ torn' = torn \cup {t} /\ t.node = n
                            /\ t.partition = cmd.partition
                            /\ t.offset = Len(plog[n][cmd.partition])
<1>1. cmd.partition \in Partitions /\ cmd.size \in Nat
  BY CommandFields
<1>2. plog[n][cmd.partition] \in Seq(Record)
  BY <1>1 DEF BrokerTypes, Logs
<1>3. PICK e \in 0..(cmd.size - 1) :
        torn' = torn \cup {[node |-> n, partition |-> cmd.partition,
                            offset |-> OffsetOf(n, cmd), entries |-> e]}
  BY DEF CutShort
<1> DEFINE t == [node |-> n, partition |-> cmd.partition,
                 offset |-> OffsetOf(n, cmd), entries |-> e]
<1>4. OffsetOf(n, cmd) = Len(plog[n][cmd.partition]) /\ OffsetOf(n, cmd) \in Nat /\ e \in Nat
  BY <1>1, <1>2, <1>3 DEF OffsetOf
<1>5. t \in Tear
  BY <1>1, <1>4 DEF Tear
<1>6. t.node = n /\ t.partition = cmd.partition /\ t.offset = Len(plog[n][cmd.partition])
  BY <1>4
<1>7. torn' = torn \cup {t} /\ plog' = plog
  BY <1>3 DEF CutShort
<1> HIDE DEF t
<1> QED
  BY <1>5, <1>6, <1>7 DEF BrokerTypes

\* A roll that failed leaves one at the end of the log that was written.
LEMMA HalfRolledFacts ==
  ASSUME BrokerTypes, NEW n \in Nodes, NEW cmd \in Command, HalfRolled(n, cmd)
  PROVE  /\ plog' = AppendTo(n, cmd) /\ torn' \subseteq Tear
         /\ \E t \in Tear : /\ torn' = torn \cup {t} /\ t.node = n
                            /\ t.partition = cmd.partition
                            /\ t.offset = Len(plog'[n][cmd.partition])
<1>1. cmd.partition \in Partitions /\ cmd.size \in Nat
  BY CommandFields
<1>2. plog[n][cmd.partition] \in Seq(Record)
  BY <1>1 DEF BrokerTypes, Logs
<1> DEFINE t == [node |-> n, partition |-> cmd.partition,
                 offset |-> OffsetOf(n, cmd) + cmd.size, entries |-> 0]
<1>3. torn' = torn \cup {t} /\ plog' = AppendTo(n, cmd)
  BY DEF HalfRolled
<1>4. OffsetOf(n, cmd) = Len(plog[n][cmd.partition]) /\ OffsetOf(n, cmd) \in Nat
  BY <1>1, <1>2 DEF OffsetOf
<1>5. t \in Tear
  BY <1>1, <1>4 DEF Tear
<1>6. Len(plog'[n][cmd.partition]) = OffsetOf(n, cmd) + cmd.size
  <2>1. plog'[n][cmd.partition] = plog[n][cmd.partition] \o Written(n, cmd)
    BY <1>1, <1>3 DEF AppendTo, BrokerTypes, Logs
  <2>2. Written(n, cmd) \in Seq(Record) /\ Len(Written(n, cmd)) = cmd.size
    BY WrittenFacts
  <2>3. \A u, v \in Seq(Record) : Len(u \o v) = Len(u) + Len(v)
    OBVIOUS
  <2>4. Len(plog[n][cmd.partition] \o Written(n, cmd))
          = Len(plog[n][cmd.partition]) + Len(Written(n, cmd))
    BY <1>2, <2>2, <2>3
  <2> QED
    BY <1>4, <2>1, <2>2, <2>4
<1>7. t.node = n /\ t.partition = cmd.partition /\ t.offset = Len(plog'[n][cmd.partition])
  BY <1>6
<1> HIDE DEF t
<1> QED
  BY <1>3, <1>5, <1>7 DEF BrokerTypes

\* What NewLog makes of a log: no shorter, and the same where no tear touches it.
LEMMA ReloadedFacts ==
  ASSUME BrokerTypes, NEW n \in Nodes, NEW p \in Partitions, NEW log \in Reloaded(n, p)
  PROVE  /\ log \in Seq(Record) /\ Len(plog[n][p]) <= Len(log)
         /\ \A j \in 1..Len(plog[n][p]) : Safe(n, p, j) => log[j] = plog[n][p][j]
         /\ Tears(n, p) = {} => log = plog[n][p]
<1> DEFINE old == plog[n][p]
           ends == {t.offset : t \in Tears(n, p)}
           more == {t.entries : t \in {u \in Tears(n, p) : u.offset = Len(old)}}
<1>1. old \in Seq(Record) /\ Len(old) \in Nat
  BY DEF BrokerTypes, Logs
<1>2. \A t \in Tears(n, p) : t.offset \in Nat /\ t.entries \in Nat
  BY DEF Tears, BrokerTypes, Tear
<1>3. Unknown \in Record
  BY ReplicationAssumption DEF Unknown, Record
<1>4. PICK e \in more \cup {0} :
        log = [j \in 1..(Len(old) + e) |-> IF j \in ends \/ j > Len(old) THEN Unknown ELSE old[j]]
  BY DEF Reloaded
<1>5. e \in Nat /\ (Tears(n, p) = {} => e = 0)
  BY <1>2
<1>6. ASSUME NEW j \in 1..Len(old), Safe(n, p, j)  PROVE j \notin ends
  BY <1>1, <1>2, <1>6 DEF Safe
<1>7. Tears(n, p) = {} => ends = {}
  OBVIOUS
<1> HIDE DEF ends, more, old
<1>8. \A j \in 1..(Len(old) + e) :
        (IF j \in ends \/ j > Len(old) THEN Unknown ELSE old[j]) \in Record
  BY <1>1, <1>3, <1>5
<1>9. log \in Seq(Record) /\ Len(log) = Len(old) + e
  BY <1>1, <1>4, <1>5, <1>8
<1>10. Len(old) <= Len(log)
  BY <1>1, <1>5, <1>9
<1>11. \A j \in 1..Len(old) : j \notin ends => log[j] = old[j]
  BY <1>1, <1>4, <1>5
<1>12. Tears(n, p) = {} => log = old
  BY <1>1, <1>4, <1>5, <1>7
<1> QED
  BY <1>6, <1>9, <1>10, <1>11, <1>12 DEF old

\* A restart reloads the logs of one broker.
LEMMA RestartFacts ==
  ASSUME BrokerTypes, NEW n \in Nodes, Restart(n)
  PROVE  /\ plog' \in [Nodes -> Logs] /\ torn' = torn
         /\ \A p \in Partitions : plog'[n][p] \in Reloaded(n, p)
         /\ \A m \in Nodes \ {n} : plog'[m] = plog[m]
<1>1. PICK logs \in [Partitions -> UNION {Reloaded(n, p) : p \in Partitions}] :
        (\A p \in Partitions : logs[p] \in Reloaded(n, p)) /\ plog' = [plog EXCEPT ![n] = logs]
  BY DEF Restart
<1>2. logs \in Logs
  <2>1. \A p \in Partitions : logs[p] \in Seq(Record)
    BY <1>1, ReloadedFacts
  <2> QED
    BY <2>1 DEF Logs
<1>3. plog'[n] = logs /\ plog' \in [Nodes -> Logs] /\ \A m \in Nodes \ {n} : plog'[m] = plog[m]
  BY <1>1, <1>2 DEF BrokerTypes
<1> QED
  BY <1>1, <1>3 DEF Restart

\* The command FSM.Apply is given next is a committed one.
LEMMA AdvancedFacts ==
  ASSUME RaftTypes, NEW n \in Nodes, Advanced(n)
  PROVE  /\ applied[n] \in Nat /\ applied[n] + 1 \in 1..Len(committed)
         /\ NextCommand(n) = committed[applied[n] + 1] /\ NextCommand(n) \in Command
         /\ applied' \in [Nodes -> Nat] /\ stored' \in [Nodes -> Nat]
         /\ applied'[n] = applied[n] + 1 /\ \A m \in Nodes \ {n} : applied'[m] = applied[m]
<1>1. /\ applied \in [Nodes -> Nat] /\ stored \in [Nodes -> Nat] /\ committed \in Seq(Command)
      /\ applied[n] < Len(committed) /\ applied' = [applied EXCEPT ![n] = @ + 1]
      /\ stored' = [stored EXCEPT ![n] = IF @ > applied[n] THEN @ ELSE applied[n] + 1]
  BY DEF RaftTypes, Advanced
<1>2. applied[n] \in Nat /\ applied[n] + 1 \in 1..Len(committed)
  BY <1>1
<1>3. committed[applied[n] + 1] \in Command
  BY <1>1, <1>2
<1>4. stored' \in [Nodes -> Nat]
  BY <1>1, <1>2
<1> QED
  BY <1>1, <1>2, <1>3, <1>4 DEF NextCommand

\* What an apply acknowledges.
LEMMA ApplyAcks ==
  ASSUME BrokerTypes, RaftTypes, NEW n \in Nodes, Apply(n)
  PROVE  /\ OffsetOf(n, NextCommand(n)) \in Nat
         /\ OffsetOf(n, NextCommand(n)) = Len(plog[n][NextCommand(n).partition])
         /\ acked' \subseteq acked \cup
              {[cmd |-> NextCommand(n), node |-> n, offset |-> OffsetOf(n, NextCommand(n))]}
<1>1. NextCommand(n) \in Command
  BY AdvancedFacts DEF Apply
<1>2. NextCommand(n).partition \in Partitions
  BY <1>1, CommandFields
<1>3. plog[n][NextCommand(n).partition] \in Seq(Record)
  BY <1>2 DEF BrokerTypes, Logs
<1> QED
  BY <1>3 DEF Apply, OffsetOf

\* Every variable keeps its type.
LEMMA TypeStep == TypeOK /\ [Next]_vars => TypeOK'
<1> SUFFICES ASSUME TypeOK, [Next]_vars PROVE TypeOK'
  OBVIOUS
<1>0. RaftTypes /\ BrokerTypes /\ HandlerTypes /\ CountTypes
  BY TypeParts
<1>q. SUFFICES RaftTypes' /\ BrokerTypes' /\ HandlerTypes' /\ CountTypes'
  BY DEF TypeOK, RaftTypes, BrokerTypes, HandlerTypes, CountTypes, Logs, Busy
<1> DEFINE Goal == RaftTypes' /\ BrokerTypes' /\ HandlerTypes' /\ CountTypes'
<1>1. ASSUME NEW h \in Handlers, Publishes(h)  PROVE Goal
  <2>1. roundRobin' \in [Nodes -> Partitions]
    BY <1>0, <1>1, PublishFacts
  <2>2. PICK key \in Keys \cup {NoKey}, named \in BOOLEAN, p \in Partitions,
             size \in BatchSizes \cup {1} : Accept(h, key, named, p, size)
    BY <1>0, <1>1, PublishFacts DEF Accepts
  <2>3. HandlerTypes' /\ count' \in 0..MaxCommands
        /\ UNCHANGED <<raft, plog, torn, acked, history, bounds>>
    <3>1. /\ count' \in 1..MaxCommands /\ handler' \in [Handlers -> {Idle} \cup Busy]
          /\ UNCHANGED <<raft, plog, torn, acked, history, bounds>>
      BY <1>0, <2>2, AcceptFacts
    <3> QED
      BY <3>1 DEF HandlerTypes
  <2> QED
    BY <1>0, <2>1, <2>3 DEF RaftTypes, BrokerTypes, CountTypes, raft, history, bounds
<1>2. ASSUME NEW h \in Handlers, Enqueue(h)  PROVE Goal
  <2>1. handler[h] \in Busy /\ handler[h].cmd \in Command
    BY <1>0, <1>2, BusyHandler DEF Enqueue
  <2>2. tail' \in Seq(Command)
    BY <1>0, <1>2, <2>1 DEF Enqueue, RaftTypes
  <2>3. [handler[h] EXCEPT !.pc = "waiting"] \in Busy
    BY <2>1 DEF Busy
  <2>4. HandlerTypes'
    BY <1>0, <1>2, <2>3 DEF Enqueue, HandlerTypes
  <2> QED
    BY <1>0, <1>2, <2>2, <2>4 DEF Enqueue, RaftTypes, BrokerTypes, CountTypes, history, bounds
<1>3. ASSUME NEW h \in Handlers, EnqueueFails(h)  PROVE Goal
  BY <1>0, <1>3
     DEF EnqueueFails, RaftTypes, BrokerTypes, HandlerTypes, CountTypes, raft, history, bounds
<1>4. CASE Commit
  <2>1. Head(tail) \in Command /\ Tail(tail) \in Seq(Command) /\ committed \in Seq(Command)
    BY <1>0, <1>4 DEF Commit, RaftTypes
  <2>2. committed' \in Seq(Command) /\ tail' \in Seq(Command) /\ Len(committed') \in Nat
    BY <1>4, <2>1 DEF Commit
  <2>3. stored' \in [Nodes -> Nat]
    BY <1>0, <1>4, <2>2 DEF Commit, RaftTypes
  <2> QED
    BY <1>0, <1>4, <2>2, <2>3
       DEF Commit, RaftTypes, BrokerTypes, HandlerTypes, CountTypes, history, bounds
<1>5. CASE StepDown
  <2>1. HandlerTypes'
    BY <1>0, <1>5, AnswerType DEF StepDown
  <2> QED
    BY <1>0, <1>5, <2>1 DEF StepDown, RaftTypes, BrokerTypes, CountTypes, history, bounds
<1>6. ASSUME NEW n \in Nodes, Apply(n)  PROVE Goal
  <2>1. NextCommand(n) \in Command /\ applied' \in [Nodes -> Nat] /\ stored' \in [Nodes -> Nat]
    BY <1>0, <1>6, AdvancedFacts DEF Apply
  <2>2. plog' \in [Nodes -> Logs]
    BY <1>0, <1>6, <2>1, AppendToFacts DEF Apply
  <2>3. acked' \subseteq [cmd : Command, node : Nodes, offset : Nat]
    BY <1>0, <1>6, <2>1, ApplyAcks DEF BrokerTypes
  <2>4. HandlerTypes'
    BY <1>0, <1>6, AnswerType DEF Apply
  <2> QED
    BY <1>0, <1>6, <2>1, <2>2, <2>3, <2>4
       DEF Apply, RaftTypes, BrokerTypes, CountTypes, history, bounds
<1>7. ASSUME NEW n \in Nodes, ApplyFails(n)  PROVE Goal
  <2>1. NextCommand(n) \in Command /\ applied' \in [Nodes -> Nat] /\ stored' \in [Nodes -> Nat]
    BY <1>0, <1>7, AdvancedFacts DEF ApplyFails
  <2>2. plog' \in [Nodes -> Logs] /\ torn' \subseteq Tear
    BY <1>0, <1>7, <2>1, AppendToFacts, CutShortFacts, HalfRolledFacts
       DEF ApplyFails, BrokerTypes
  <2>3. HandlerTypes'
    BY <1>0, <1>7, AnswerType DEF ApplyFails
  <2>4. CountTypes'
    BY <1>0, <1>7 DEF ApplyFails, CountTypes
  <2> QED
    BY <1>0, <1>7, <2>1, <2>2, <2>3, <2>4 DEF ApplyFails, RaftTypes, BrokerTypes
<1>8. ASSUME NEW n \in Nodes, Elect(n)  PROVE Goal
  <2>1. tail' \in Seq(Command)
    BY <1>0, <1>8 DEF Elect, RaftTypes
  <2>2. stored' \in [Nodes -> Nat] /\ elections' \in Nat
    BY <1>0, <1>8 DEF Elect, RaftTypes, CountTypes
  <2> QED
    BY <1>0, <1>8, <2>1, <2>2
       DEF Elect, RaftTypes, BrokerTypes, HandlerTypes, CountTypes, history
<1>9. ASSUME NEW n \in Nodes, TakeSnapshot(n)  PROVE Goal
  BY <1>0, <1>9
     DEF TakeSnapshot, RaftTypes, BrokerTypes, HandlerTypes, CountTypes, history, bounds
<1>10. ASSUME NEW n \in Nodes, InstallSnapshot(n)  PROVE Goal
  <2>1. leader \in Nodes
    BY <1>0, <1>10 DEF InstallSnapshot, RaftTypes
  <2>2. RaftTypes'
    BY <1>0, <1>10, <2>1 DEF InstallSnapshot, RaftTypes
  <2> QED
    BY <1>0, <1>10, <2>2 DEF InstallSnapshot, BrokerTypes, HandlerTypes, CountTypes, bounds
<1>d. ASSUME NEW n \in Nodes, Dies(n)
      PROVE  /\ HandlerTypes' /\ roundRobin' \in [Nodes -> Partitions] /\ faults' \in Nat
             /\ leader' \in Nodes \cup {NoNode} /\ up' \subseteq Nodes
  <2>1. HandlerTypes'
    BY <1>0, <1>d, AnswerType DEF Dies
  <2>2. 0 \in Partitions
    BY ReplicationAssumption DEF Partitions
  <2>3. roundRobin' \in [Nodes -> Partitions]
    BY <1>0, <1>d, <2>2 DEF Dies, BrokerTypes
  <2> QED
    BY <1>0, <1>d, <2>1, <2>3 DEF Dies, RaftTypes, CountTypes
<1>11. ASSUME NEW n \in Nodes, Crash(n)  PROVE Goal
  <2>1. Dies(n)
    BY <1>11 DEF Crash
  <2> QED
    BY <1>0, <1>d, <1>11, <2>1 DEF Crash, Dies, RaftTypes, BrokerTypes, CountTypes
<1>14. ASSUME NEW n \in Nodes, CrashInApply(n)  PROVE Goal
  <2>1. Dies(n) /\ Advanced(n)
    BY <1>14 DEF CrashInApply
  <2>2. NextCommand(n) \in Command /\ applied' \in [Nodes -> Nat] /\ stored' \in [Nodes -> Nat]
    BY <1>0, <2>1, AdvancedFacts
  <2>3. plog' \in [Nodes -> Logs] /\ torn' \subseteq Tear
    BY <1>0, <1>14, <2>2, AppendToFacts, CutShortFacts DEF CrashInApply, BrokerTypes
  <2>4. disturbed' \subseteq Nodes
    BY <1>0, <1>14 DEF CrashInApply, CountTypes
  <2> QED
    BY <1>0, <1>d, <2>1, <2>2, <2>3, <2>4 DEF Dies, RaftTypes, BrokerTypes, CountTypes
<1>12. ASSUME NEW n \in Nodes, Restart(n)  PROVE Goal
  <2>1. RaftTypes'
    BY <1>0, <1>12 DEF Restart, RaftTypes
  <2>2. plog' \in [Nodes -> Logs] /\ torn' = torn
    BY <1>0, <1>12, RestartFacts
  <2> QED
    BY <1>0, <1>12, <2>1, <2>2 DEF Restart, BrokerTypes, HandlerTypes, CountTypes, bounds
<1>13. CASE UNCHANGED vars
  BY <1>0, <1>13 DEF vars, RaftTypes, BrokerTypes, HandlerTypes, CountTypes
<1> QED
  BY <1>1, <1>2, <1>3, <1>4, <1>5, <1>6, <1>7, <1>8, <1>9, <1>10, <1>11, <1>12, <1>13, <1>14
     DEF Next, Publishes

-----------------------------------------------------------------------------
(***************************************************************************)
(* Logs only grow, where no tear touches them.                             *)
(***************************************************************************)

\* A step leaves the logs alone, appends the command that comes next on a
\* broker, or reloads the logs of one.
LEMMA PlogStep ==
  ASSUME TypeOK, [Next]_vars
  PROVE  \/ UNCHANGED plog
         \/ \E n \in Nodes : /\ Apply(n) \/ ApplyFails(n) \/ CrashInApply(n)
                             /\ NextCommand(n) \in Command
                             /\ plog' = AppendTo(n, NextCommand(n))
         \/ \E n \in Nodes : Restart(n)
<1>0. RaftTypes
  BY TypeParts
<1>1. ASSUME NEW n \in Nodes, Apply(n) \/ ApplyFails(n) \/ CrashInApply(n)
      PROVE  /\ NextCommand(n) \in Command
             /\ plog' = plog \/ plog' = AppendTo(n, NextCommand(n))
  BY <1>0, <1>1, AdvancedFacts DEF Apply, ApplyFails, CrashInApply, CutShort, HalfRolled
<1> QED
  BY <1>1
     DEF Next, vars, PublishTo, PublishKeyed, PublishNext, PublishBatch, Accept, Enqueue,
         EnqueueFails, Commit, StepDown, Elect, TakeSnapshot, InstallSnapshot, Crash

\* No step takes a record away or moves it, unless a tear touches it.
LEMMA Grows ==
  ASSUME TypeOK, [Next]_vars, NEW n \in Nodes, NEW p \in Partitions
  PROVE  /\ Len(plog[n][p]) <= Len(plog'[n][p])
         /\ \A j \in 1..Len(plog[n][p]) : Safe(n, p, j) => plog'[n][p][j] = plog[n][p][j]
         /\ Tears(n, p) = {} => Prefix(plog[n][p], plog'[n][p])
<1>0. BrokerTypes /\ plog[n] \in Logs /\ plog[n][p] \in Seq(Record) /\ Len(plog[n][p]) \in Nat
  BY TypeParts DEF BrokerTypes, Logs
<1>p. SUFFICES \/ Prefix(plog[n][p], plog'[n][p])
               \/ plog'[n][p] \in Reloaded(n, p)
  <2>1. CASE Prefix(plog[n][p], plog'[n][p])
    BY <2>1 DEF Prefix
  <2>2. CASE plog'[n][p] \in Reloaded(n, p)
    <3>1. /\ Len(plog[n][p]) <= Len(plog'[n][p])
          /\ \A j \in 1..Len(plog[n][p]) : Safe(n, p, j) => plog'[n][p][j] = plog[n][p][j]
          /\ Tears(n, p) = {} => plog'[n][p] = plog[n][p]
      BY <1>0, <2>2, ReloadedFacts
    <3>2. Prefix(plog[n][p], plog[n][p])
      BY <1>0 DEF Prefix
    <3> QED
      BY <3>1, <3>2
  <2> QED
    BY <1>p, <2>1, <2>2
<1>1. CASE plog'[n] = plog[n]
  BY <1>0, <1>1 DEF Prefix
<1>2. ASSUME NEW m \in Nodes, NextCommand(m) \in Command, plog' = AppendTo(m, NextCommand(m))
      PROVE  Prefix(plog[n][p], plog'[n][p])
  <2>1. CASE m = n
    BY <1>0, <1>2, <2>1, AppendToFacts
  <2>2. CASE m # n
    <3>1. plog'[n] = plog[n]
      BY <1>0, <1>2, <2>2, AppendToFacts
    <3> QED
      BY <1>0, <3>1 DEF Prefix
  <2> QED
    BY <2>1, <2>2
<1>3. ASSUME NEW m \in Nodes, Restart(m)
      PROVE  plog'[n] = plog[n] \/ plog'[n][p] \in Reloaded(n, p)
  BY <1>0, <1>3, RestartFacts
<1> QED
  BY <1>1, <1>2, <1>3, PlogStep

\* Tears stay; a new one is at the end of a log.
LEMMA TornStep ==
  ASSUME TypeOK, [Next]_vars
  PROVE  \/ torn' = torn
         \/ \E t \in Tear : /\ torn' = torn \cup {t} /\ t.node \in disturbed'
                            /\ t.offset = Len(plog'[t.node][t.partition])
<1>0. RaftTypes /\ BrokerTypes
  BY TypeParts
<1>1. ASSUME NEW n \in Nodes, ApplyFails(n) \/ CrashInApply(n)
      PROVE  \/ torn' = torn
             \/ \E t \in Tear : /\ torn' = torn \cup {t} /\ t.node \in disturbed'
                                /\ t.offset = Len(plog'[t.node][t.partition])
  <2>1. NextCommand(n) \in Command
    BY <1>0, <1>1, AdvancedFacts DEF ApplyFails, CrashInApply
  <2>2. \/ torn' = torn
        \/ (CutShort(n, NextCommand(n)) \/ HalfRolled(n, NextCommand(n))) /\ n \in disturbed'
    BY <1>1 DEF ApplyFails, CrashInApply
  <2>3. ASSUME CutShort(n, NextCommand(n))
        PROVE  \E t \in Tear : /\ torn' = torn \cup {t} /\ t.node = n
                               /\ t.offset = Len(plog'[t.node][t.partition])
    BY <1>0, <2>1, <2>3, CutShortFacts
  <2>4. ASSUME HalfRolled(n, NextCommand(n))
        PROVE  \E t \in Tear : /\ torn' = torn \cup {t} /\ t.node = n
                               /\ t.offset = Len(plog'[t.node][t.partition])
    BY <1>0, <2>1, <2>4, HalfRolledFacts
  <2> QED
    BY <2>2, <2>3, <2>4
<1> QED
  BY <1>1
     DEF Next, vars, PublishTo, PublishKeyed, PublishNext, PublishBatch, Accept, Enqueue,
         EnqueueFails, Commit, StepDown, Apply, Elect, TakeSnapshot, InstallSnapshot, Crash, Restart

\* What is written after a tear is behind it.
LEMMA TornBehindStep == TypeOK /\ TornBehind /\ [Next]_vars => TornBehind'
<1> SUFFICES ASSUME TypeOK, TornBehind, [Next]_vars, NEW t \in torn'
             PROVE  t.node \in disturbed' /\ t.offset <= Len(plog'[t.node][t.partition])
  BY DEF TornBehind
<1>t. torn \subseteq Tear /\ torn' \subseteq Tear /\ plog \in [Nodes -> Logs]
  BY TypeStep DEF TypeOK, Logs
<1>d. disturbed \subseteq disturbed'
  BY DEF Next, vars, history, PublishTo, PublishKeyed, PublishNext, PublishBatch, Accept, Enqueue,
         EnqueueFails, Commit, StepDown, Apply, ApplyFails, Elect, TakeSnapshot, InstallSnapshot,
         Crash, CrashInApply, Restart
<1>1. t.node \in Nodes /\ t.partition \in Partitions /\ t.offset \in Nat
  BY <1>t DEF Tear
<1>2. Len(plog[t.node][t.partition]) \in Nat
  <2>1. plog[t.node][t.partition] \in Seq(Record)
    BY <1>t, <1>1 DEF Logs
  <2> QED
    BY <2>1
<1>3. CASE t \in torn
  <2>1. t.node \in disturbed /\ t.offset <= Len(plog[t.node][t.partition])
    BY <1>3 DEF TornBehind
  <2>2. Len(plog[t.node][t.partition]) <= Len(plog'[t.node][t.partition])
    BY <1>1, Grows
  <2>3. Len(plog'[t.node][t.partition]) \in Nat
    <3>1. plog' \in [Nodes -> Logs]
      BY TypeStep DEF TypeOK, Logs
    <3>2. plog'[t.node][t.partition] \in Seq(Record)
      BY <1>1, <3>1 DEF Logs
    <3> QED
      BY <3>2
  <2>4. \A x, y, z \in Nat : x <= y /\ y <= z => x <= z
    OBVIOUS
  <2> QED
    BY <1>1, <1>2, <1>d, <2>1, <2>2, <2>3, <2>4
<1>4. CASE t \notin torn
  <2>1. t.node \in disturbed' /\ t.offset = Len(plog'[t.node][t.partition])
    BY <1>4, TornStep
  <2> QED
    BY <1>1, <2>1
<1> QED
  BY <1>3, <1>4

\* An undisturbed broker has no torn log.
LEMMA CalmIsWhole ==
  ASSUME TornBehind, NEW n \in Nodes, n \notin disturbed, NEW p
  PROVE  Tears(n, p) = {}
  BY DEF TornBehind, Tears

\* Only an apply acknowledges.
LEMMA AckedStep ==
  ASSUME [Next]_vars
  PROVE  UNCHANGED acked \/ \E n \in Nodes : Apply(n)
  BY Zenon
     DEF Next, vars, PublishTo, PublishKeyed, PublishNext, PublishBatch, Accept, Enqueue,
         EnqueueFails, Commit, StepDown, ApplyFails, Elect, TakeSnapshot, InstallSnapshot, Crash,
         CrashInApply, Dies, Restart

\* A broker's offset keeps naming the record it was returned for.
LEMMA AckedStaysStep == TypeOK /\ TornBehind /\ AckedStays /\ [Next]_vars => AckedStays'
<1> SUFFICES ASSUME TypeOK, TornBehind, AckedStays, [Next]_vars,
                    NEW a \in acked', NEW i \in 1..a.cmd.size,
                    Safe(a.node, a.cmd.partition, a.offset + i)'
             PROVE  /\ a.offset + i <= Len(plog'[a.node][a.cmd.partition])
                    /\ plog'[a.node][a.cmd.partition][a.offset + i] = [id |-> a.cmd.id, i |-> i]
  BY DEF AckedStays, Safe
<1>0. RaftTypes /\ BrokerTypes
  BY TypeParts
<1>s. Safe(a.node, a.cmd.partition, a.offset + i)
  <2>1. torn \subseteq torn'
    BY TornStep
  <2> QED
    BY <2>1 DEF Safe, Tears
<1>1. CASE a \in acked
  <2>1. a \in [cmd : Command, node : Nodes, offset : Nat]
    BY <1>0, <1>1 DEF BrokerTypes
  <2>2. a.cmd \in Command /\ a.node \in Nodes /\ a.offset \in Nat
    BY <2>1
  <2>3. a.cmd.partition \in Partitions /\ a.cmd.size \in Nat
    BY <2>2, CommandFields
  <2> DEFINE old == plog[a.node][a.cmd.partition]
             new == plog'[a.node][a.cmd.partition]
             x == a.offset + i
  <2>4. x <= Len(old) /\ old[x] = [id |-> a.cmd.id, i |-> i]
    BY <1>1, <1>s DEF AckedStays, Safe
  <2>5. Len(old) <= Len(new) /\ \A j \in 1..Len(old) :
          Safe(a.node, a.cmd.partition, j) => new[j] = old[j]
    BY <2>2, <2>3, Grows
  <2>6. old \in Seq(Record) /\ Len(old) \in Nat
    BY <1>0, <2>2, <2>3 DEF BrokerTypes, Logs
  <2>7. plog' \in [Nodes -> Logs]
    BY TypeStep DEF TypeOK, Logs
  <2>8. new \in Seq(Record) /\ Len(new) \in Nat
    BY <2>2, <2>3, <2>7 DEF Logs
  <2>9. x \in Nat /\ x >= 1
    BY <2>2, <2>3
  <2>s. Safe(a.node, a.cmd.partition, x)
    BY <1>s
  <2> HIDE DEF old, new, x
  <2>10. x \in 1..Len(old)
    BY <2>4, <2>6, <2>9
  <2>11. x <= Len(new)
    BY <2>4, <2>5, <2>6, <2>8, <2>9
  <2>12. new[x] = old[x]
    BY <2>5, <2>10, <2>s
  <2> QED
    BY <2>4, <2>11, <2>12 DEF old, new, x
<1>2. CASE a \notin acked
  <2>1. PICK n \in Nodes : Apply(n)
    BY <1>2, AckedStep
  <2> DEFINE cmd == NextCommand(n)
  <2>2. cmd \in Command /\ plog[n] \in Logs
    BY <1>0, <2>1, AdvancedFacts DEF Apply, BrokerTypes
  <2>3. a = [cmd |-> cmd, node |-> n, offset |-> Len(plog[n][cmd.partition])]
    BY <1>0, <1>2, <2>1, ApplyAcks
  <2>5. a.cmd = cmd /\ a.node = n /\ a.offset = Len(plog[n][cmd.partition])
    BY <2>3
  <2>6. i \in 1..cmd.size /\ cmd.size \in Nat /\ cmd.partition \in Partitions
    BY <2>2, <2>5, CommandFields
  <2>7. plog[n][cmd.partition] \in Seq(Record)
    BY <2>2, <2>6 DEF Logs
  <2>t. Tears(n, cmd.partition) = {}
    <3>1. SUFFICES ASSUME NEW t \in Tears(n, cmd.partition) PROVE FALSE
      OBVIOUS
    <3>2. t \in torn /\ t.node = n /\ t.partition = cmd.partition /\ t.offset \in Nat
      BY <1>0 DEF Tears, BrokerTypes, Tear
    <3>3. t.offset <= a.offset
      BY <2>5, <3>2 DEF TornBehind
    <3>4. a.offset + i < t.offset
      BY <1>s, <2>5 DEF Safe
    <3>5. a.offset \in Nat /\ i \in Nat
      BY <2>5, <2>6, <2>7
    <3> QED
      BY <3>2, <3>3, <3>4, <3>5
  <2>4. plog'[n] = Extended(plog[n], cmd)
    BY <1>0, <2>1, <2>2, <2>t, AppendToFacts DEF Apply
  <2> HIDE DEF cmd
  <2>8. Len(plog'[n][cmd.partition]) = a.offset + cmd.size
    BY <2>2, <2>4, <2>5, ExtendedFacts
  <2>9. plog'[n][cmd.partition][a.offset + i] = [id |-> cmd.id, i |-> i]
    <3>1. \A j \in 1..cmd.size :
            Extended(plog[n], cmd)[cmd.partition][Len(plog[n][cmd.partition]) + j]
              = [id |-> cmd.id, i |-> j]
      BY <2>2, ExtendedFacts
    <3> QED
      BY <2>4, <2>5, <2>6, <3>1, Zenon
  <2>10. a.offset \in Nat
    BY <2>5, <2>7
  <2>11. a.offset + i <= a.offset + cmd.size
    BY <2>6, <2>10
  <2> QED
    BY <2>5, <2>8, <2>9, <2>11
<1> QED
  BY <1>1, <1>2

\* The commands of a history are never taken back.
LEMMA CommittedStep ==
  ASSUME TypeOK, [Next]_vars
  PROVE  /\ Len(committed) \in Nat /\ Len(committed') \in Nat /\ Len(committed) <= Len(committed')
         /\ \A k \in 1..Len(committed) : committed'[k] = committed[k] /\ committed[k] \in Command
         /\ \/ UNCHANGED committed
            \/ /\ Commit /\ Len(committed') = Len(committed) + 1
               /\ committed'[Len(committed) + 1] = tail[1] /\ tail[1] \in Command
<1>0. committed \in Seq(Command) /\ tail \in Seq(Command)
  BY DEF TypeOK
<1>1. CASE Commit
  <2>1. tail # << >> /\ committed' = Append(committed, Head(tail))
    BY <1>1 DEF Commit
  <2>2. Head(tail) = tail[1] /\ tail[1] \in Command
    BY <1>0, <2>1
  <2> QED
    BY <1>0, <1>1, <2>1, <2>2
<1>2. CASE UNCHANGED committed
  BY <1>0, <1>2
<1>3. Commit \/ UNCHANGED committed
  BY Zenon
     DEF Next, vars, raft, PublishTo, PublishKeyed, PublishNext, PublishBatch, Accept, Enqueue,
         EnqueueFails, StepDown, Apply, ApplyFails, Elect, TakeSnapshot, InstallSnapshot, Crash,
         CrashInApply, Dies, Restart
<1> QED
  BY <1>1, <1>2, <1>3

\* What changes a broker's place in the history.
LEMMA AppliedStep ==
  ASSUME TypeOK, Positions, [Next]_vars, NEW n \in Nodes
  PROVE  \/ applied'[n] = applied[n]
         \/ (Apply(n) \/ ApplyFails(n) \/ CrashInApply(n)) /\ applied'[n] = applied[n] + 1
              /\ applied[n] + 1 \in 1..Len(committed)
         \/ InstallSnapshot(n) /\ applied'[n] = snapshot[leader] /\ leader \in Nodes
         \/ Restart(n) /\ applied'[n] = snapshot[n]
<1>0. RaftTypes /\ applied \in [Nodes -> Nat]
  BY TypeParts DEF RaftTypes
<1>1. ASSUME NEW m \in Nodes, Apply(m) \/ ApplyFails(m) \/ CrashInApply(m)
      PROVE  IF m = n THEN applied'[n] = applied[n] + 1 /\ applied[n] + 1 \in 1..Len(committed)
                      ELSE applied'[n] = applied[n]
  BY <1>0, <1>1, AdvancedFacts DEF Apply, ApplyFails, CrashInApply
<1>2. ASSUME NEW m \in Nodes, InstallSnapshot(m)
      PROVE  IF m = n THEN applied'[n] = snapshot[leader] /\ leader \in Nodes
                      ELSE applied'[n] = applied[n]
  BY <1>0, <1>2 DEF InstallSnapshot, RaftTypes
<1>3. ASSUME NEW m \in Nodes, Restart(m)
      PROVE  IF m = n THEN applied'[n] = snapshot[n] ELSE applied'[n] = applied[n]
  BY <1>0, <1>3 DEF Restart
<1> QED
  BY <1>1, <1>2, <1>3
     DEF Next, vars, raft, PublishTo, PublishKeyed, PublishNext, PublishBatch, Accept, Enqueue,
         EnqueueFails, Commit, StepDown, Elect, TakeSnapshot, Crash

\* Snapshots and applied indexes stay within the committed commands.
LEMMA PositionsStep == TypeOK /\ Positions /\ [Next]_vars => Positions'
<1> SUFFICES ASSUME TypeOK, Positions, [Next]_vars, NEW n \in Nodes
             PROVE  snapshot'[n] <= applied'[n] /\ applied'[n] <= Len(committed')
  BY DEF Positions
<1>0. /\ applied \in [Nodes -> Nat] /\ snapshot \in [Nodes -> Nat]
      /\ Len(committed) \in Nat /\ Len(committed') \in Nat /\ Len(committed) <= Len(committed')
  BY CommittedStep DEF TypeOK
<1>1. snapshot[n] <= applied[n] /\ applied[n] <= Len(committed)
  BY DEF Positions
<1>2. \/ snapshot'[n] = snapshot[n]
      \/ TakeSnapshot(n) /\ snapshot'[n] = applied[n]
      \/ InstallSnapshot(n) /\ snapshot'[n] = snapshot[leader]
  <2>1. ASSUME NEW m \in Nodes, TakeSnapshot(m)
        PROVE  IF m = n THEN snapshot'[n] = applied[n] ELSE snapshot'[n] = snapshot[n]
    BY <1>0, <2>1 DEF TakeSnapshot
  <2>2. ASSUME NEW m \in Nodes, InstallSnapshot(m)
        PROVE  IF m = n THEN snapshot'[n] = snapshot[leader] ELSE snapshot'[n] = snapshot[n]
    BY <1>0, <2>2 DEF InstallSnapshot
  <2> QED
    BY <2>1, <2>2
       DEF Next, vars, raft, PublishTo, PublishKeyed, PublishNext, PublishBatch, Accept, Enqueue,
           EnqueueFails, Commit, StepDown, Apply, ApplyFails, Elect, Crash, CrashInApply, Dies,
           Restart
<1>3. CASE InstallSnapshot(n)
  <2>1. leader \in Nodes
    BY <1>3 DEF InstallSnapshot, TypeOK
  <2>2. snapshot[leader] <= applied[leader] /\ applied[leader] <= Len(committed)
    BY <2>1 DEF Positions
  <2>3. applied'[n] = snapshot[leader] /\ snapshot'[n] = snapshot[leader]
    BY <1>0, <1>3 DEF InstallSnapshot
  <2> QED
    BY <1>0, <2>1, <2>2, <2>3
<1>4. CASE TakeSnapshot(n)
  <2>1. applied' = applied
    BY <1>4 DEF TakeSnapshot
  <2>2. snapshot'[n] = applied[n]
    BY <1>0, <1>4 DEF TakeSnapshot
  <2> QED
    BY <1>0, <1>1, <2>1, <2>2
<1>5. CASE snapshot'[n] = snapshot[n] /\ ~InstallSnapshot(n)
  <2>1. CASE applied'[n] = applied[n] \/ applied'[n] = snapshot[n]
    BY <1>0, <1>1, <1>5, <2>1
  <2>2. CASE applied'[n] = applied[n] + 1 /\ applied[n] + 1 \in 1..Len(committed)
    BY <1>0, <1>1, <1>5, <2>2
  <2> QED
    BY <1>5, <2>1, <2>2, AppliedStep
<1> QED
  BY <1>2, <1>3, <1>4, <1>5

\* Brokers stay disturbed and replayed.
LEMMA CalmStep ==
  ASSUME [Next]_vars, NEW n \in Nodes, n \notin disturbed'
  PROVE  /\ n \notin disturbed /\ ~ApplyFails(n) /\ ~InstallSnapshot(n)
         /\ Calm(n)' => Calm(n) /\ ~Restart(n)
<1>1. disturbed \subseteq disturbed' /\ replayed \subseteq replayed'
  BY DEF Next, vars, history, PublishTo, PublishKeyed, PublishNext, PublishBatch, Accept, Enqueue,
         EnqueueFails, Commit, StepDown, Apply, ApplyFails, Elect, TakeSnapshot, InstallSnapshot,
         Crash, CrashInApply, Dies, Restart
<1>2. ApplyFails(n) \/ InstallSnapshot(n) => n \in disturbed'
  BY DEF ApplyFails, InstallSnapshot
<1>3. Restart(n) => n \in replayed'
  BY DEF Restart
<1> QED
  BY <1>1, <1>2, <1>3 DEF Calm

\* A longer log holds more.
LEMMA PrefixSet ==
  ASSUME NEW s \in Seq(Record), NEW t \in Seq(Record), Prefix(s, t)
  PROVE  ToSet(s) \subseteq ToSet(t)
<1> SUFFICES ASSUME NEW i \in DOMAIN s PROVE s[i] \in ToSet(t)
  BY DEF ToSet
<1>1. i \in 1..Len(s) /\ i \in DOMAIN t /\ s[i] = t[i]
  BY DEF Prefix
<1> QED
  BY <1>1 DEF ToSet

\* A broker has the records of every command it has applied.
LEMMA NothingLostStep ==
  TypeOK /\ Positions /\ TornBehind /\ NothingLost /\ [Next]_vars => NothingLost'
<1> SUFFICES ASSUME TypeOK, Positions, TornBehind, NothingLost, [Next]_vars,
                    NEW n \in Nodes, n \notin disturbed', NEW k \in 1..applied'[n]
             PROVE  ToSet(RecordsOf(committed'[k]))
                      \subseteq ToSet(plog'[n][committed'[k].partition])
  BY DEF NothingLost
<1>0. RaftTypes /\ BrokerTypes /\ applied \in [Nodes -> Nat] /\ snapshot \in [Nodes -> Nat]
  BY TypeParts DEF RaftTypes
<1>1. n \notin disturbed /\ ~ApplyFails(n) /\ ~InstallSnapshot(n)
  BY CalmStep
<1>2. snapshot[n] <= applied[n] /\ applied[n] <= Len(committed)
  BY DEF Positions
<1>3. Len(committed) \in Nat /\ applied[n] \in Nat /\ snapshot[n] \in Nat
  BY <1>0, CommittedStep
<1>4. \/ k \in 1..applied[n]
      \/ (Apply(n) \/ CrashInApply(n)) /\ k = applied[n] + 1 /\ applied[n] + 1 \in 1..Len(committed)
  <2>1. CASE applied'[n] = applied[n] \/ applied'[n] = snapshot[n]
    BY <1>2, <1>3, <2>1
  <2>2. CASE (Apply(n) \/ CrashInApply(n)) /\ applied'[n] = applied[n] + 1
             /\ applied[n] + 1 \in 1..Len(committed)
    BY <1>3, <2>2
  <2> QED
    BY <1>1, <2>1, <2>2, AppliedStep
<1>5. k \in 1..Len(committed)
  BY <1>2, <1>3, <1>4
<1>6. committed'[k] = committed[k] /\ committed[k] \in Command
  BY <1>5, CommittedStep
<1> DEFINE cmd == committed[k]
           p == cmd.partition
<1>7. p \in Partitions
  BY <1>6, CommandFields
<1> HIDE DEF cmd
<1>8. plog[n][p] \in Seq(Record) /\ plog'[n][p] \in Seq(Record)
  <2>1. plog \in [Nodes -> Logs] /\ plog' \in [Nodes -> Logs]
    BY TypeStep DEF TypeOK, Logs
  <2> QED
    BY <1>7, <2>1 DEF Logs
<1>9. CASE k \in 1..applied[n]
  <2>1. ToSet(RecordsOf(cmd)) \subseteq ToSet(plog[n][p])
    BY <1>1, <1>9 DEF NothingLost, cmd
  <2>2. Prefix(plog[n][p], plog'[n][p])
    BY <1>1, <1>7, CalmIsWhole, Grows
  <2>3. ToSet(plog[n][p]) \subseteq ToSet(plog'[n][p])
    BY <1>8, <2>2, PrefixSet
  <2> QED
    BY <1>6, <2>1, <2>3 DEF cmd
<1>10. CASE (Apply(n) \/ CrashInApply(n)) /\ k = applied[n] + 1
            /\ applied[n] + 1 \in 1..Len(committed)
  <2>1. NextCommand(n) = cmd /\ cmd \in Command
    BY <1>6, <1>10 DEF NextCommand, cmd
  <2>2. plog'[n] = Extended(plog[n], cmd) /\ plog[n] \in Logs
    <3>1. Tears(n, cmd.partition) = {} /\ plog[n] \in Logs
      BY <1>0, <1>1, CalmIsWhole DEF BrokerTypes
    <3>2. plog' = AppendTo(n, cmd)
      BY <1>10, <2>1 DEF Apply, CrashInApply
    <3> QED
      BY <1>0, <2>1, <3>1, <3>2, AppendToFacts
  <2>3. /\ Len(plog'[n][p]) = Len(plog[n][p]) + cmd.size
        /\ \A i \in 1..cmd.size : plog'[n][p][Len(plog[n][p]) + i] = [id |-> cmd.id, i |-> i]
    BY <2>1, <2>2, ExtendedFacts
  <2>4. cmd.size \in Nat /\ DOMAIN RecordsOf(cmd) = 1..cmd.size
        /\ \A i \in 1..cmd.size : RecordsOf(cmd)[i] = [id |-> cmd.id, i |-> i]
    BY <2>1, CommandFields, RecordsFacts
  <2>5. ASSUME NEW i \in 1..cmd.size  PROVE RecordsOf(cmd)[i] \in ToSet(plog'[n][p])
    <3>1. Len(plog[n][p]) + i \in DOMAIN plog'[n][p]
      <4>1. Len(plog[n][p]) \in Nat /\ DOMAIN plog'[n][p] = 1..Len(plog'[n][p])
        BY <1>8
      <4> QED
        BY <2>3, <2>4, <4>1
    <3>2. plog'[n][p][Len(plog[n][p]) + i] = RecordsOf(cmd)[i]
      BY <2>3, <2>4
    <3> QED
      BY <3>1, <3>2 DEF ToSet
  <2>6. ToSet(RecordsOf(cmd)) \subseteq ToSet(plog'[n][p])
    BY <2>4, <2>5 DEF ToSet
  <2> QED
    BY <1>6, <2>6 DEF cmd
<1> QED
  BY <1>4, <1>9, <1>10

-----------------------------------------------------------------------------
(***************************************************************************)
(* The history of the logs.                                                *)
(***************************************************************************)

\* Growing twice is growing.
LEMMA PrefixTransitive ==
  ASSUME NEW s \in Seq(Record), NEW t \in Seq(Record), NEW u \in Seq(Record),
         Prefix(s, t), Prefix(t, u)
  PROVE  Prefix(s, u)
<1>1. Len(s) \in Nat /\ Len(t) \in Nat /\ Len(u) \in Nat
  OBVIOUS
<1>2. Len(s) <= Len(t) /\ Len(t) <= Len(u)
  BY DEF Prefix
<1>3. ASSUME NEW i \in 1..Len(s)  PROVE s[i] = u[i]
  <2>1. i \in 1..Len(t)
    BY <1>1, <1>2
  <2> QED
    BY <2>1 DEF Prefix
<1> QED
  BY <1>1, <1>2, <1>3 DEF Prefix

\* The same records are a prefix of themselves.
LEMMA PrefixReflexive ==
  ASSUME NEW s \in Seq(Record)
  PROVE  Prefix(s, s)
  BY DEF Prefix

\* A commit extends the history by one entry.
LEMMA HistoryCommit ==
  ASSUME TypeOK, [Next]_vars, NEW F, IsHistory(F), Commit
  PROVE  \E G : IsHistory(G)' /\ \A k \in 0..Len(committed) : G[k] = F[k]
<1> DEFINE L == Len(committed)
           c == tail[1]
<1>0. PICK G : G = [k \in 0..(L + 1) |-> IF k <= L THEN F[k] ELSE Extended(F[L], c)]
  OBVIOUS
<1>1. /\ L \in Nat /\ Len(committed') = L + 1 /\ committed'[L + 1] = c /\ c \in Command
      /\ \A k \in 1..L : committed'[k] = committed[k]
  <2>1. committed' # committed
    BY DEF Commit, TypeOK
  <2> QED
    BY <2>1, CommittedStep
<1> HIDE DEF c
<1>2. F \in [0..L -> Logs] /\ F[L] \in Logs
  BY <1>1 DEF IsHistory
<1>3. Extended(F[L], c) \in Logs /\ \A p \in Partitions : Prefix(F[L][p], Extended(F[L], c)[p])
  BY <1>1, <1>2, ExtendedFacts
<1>4. G \in [0..(L + 1) -> Logs]
  BY <1>0, <1>1, <1>2, <1>3
<1>5. (\A k \in 0..L : G[k] = F[k]) /\ G[L + 1] = Extended(F[L], c)
  BY <1>0, <1>1
<1>6. G[0] = [p \in Partitions |-> << >>]
  BY <1>1, <1>5 DEF IsHistory
<1>7. ASSUME NEW k \in 1..(L + 1)  PROVE G[k] = Extended(G[k - 1], committed'[k])
  <2>1. CASE k = L + 1
    <3>1. k - 1 = L /\ L \in 0..L
      BY <1>1, <2>1
    <3>2. G[k - 1] = F[L] /\ committed'[k] = c /\ G[k] = Extended(F[L], c)
      BY <1>1, <1>5, <2>1, <3>1
    <3> QED
      BY <3>2
  <2>2. CASE k # L + 1
    <3>1. k \in 1..L /\ k \in 0..L /\ k - 1 \in 0..L
      BY <1>1, <2>2
    <3>2. G[k] = F[k] /\ G[k - 1] = F[k - 1] /\ committed'[k] = committed[k]
      BY <1>1, <1>5, <3>1
    <3>3. F[k] = Extended(F[k - 1], committed[k])
      BY <3>1 DEF IsHistory
    <3> QED
      BY <3>2, <3>3
  <2> QED
    BY <2>1, <2>2
<1>8. ASSUME NEW j \in 0..(L + 1), NEW k \in 0..(L + 1), j <= k, NEW p \in Partitions
      PROVE  Prefix(G[j][p], G[k][p])
  <2>0. G[j][p] \in Seq(Record) /\ G[k][p] \in Seq(Record) /\ F[L][p] \in Seq(Record)
    BY <1>2, <1>4 DEF Logs
  <2>1. CASE k <= L
    <3>1. j \in 0..L /\ k \in 0..L
      BY <1>1, <1>8, <2>1
    <3> QED
      BY <1>5, <1>8, <3>1 DEF IsHistory
  <2>2. CASE ~(k <= L) /\ j <= L
    <3>1. k = L + 1 /\ j \in 0..L /\ L \in 0..L
      BY <1>1, <1>8, <2>2
    <3>2. Prefix(G[j][p], F[L][p])
      BY <1>5, <2>2, <3>1 DEF IsHistory
    <3>3. Prefix(F[L][p], G[k][p])
      BY <1>3, <1>5, <3>1
    <3> QED
      BY <2>0, <3>2, <3>3, PrefixTransitive
  <2>3. CASE ~(k <= L) /\ ~(j <= L)
    <3>1. j = k
      BY <1>1, <1>8, <2>3
    <3> QED
      BY <2>0, <3>1, PrefixReflexive
  <2> QED
    BY <2>1, <2>2, <2>3
<1>9. IsHistory(G)'
  <2>1. L + 1 = Len(committed')
    BY <1>1
  <2> HIDE DEF L
  <2> QED
    BY <1>4, <1>6, <1>7, <1>8, <2>1 DEF IsHistory
<1> QED
  BY <1>5, <1>9

\* Every step has a history that continues the one before.
LEMMA HistoryContinues ==
  ASSUME TypeOK, [Next]_vars, NEW F, IsHistory(F)
  PROVE  \E G : IsHistory(G)' /\ \A k \in 0..Len(committed) : G[k] = F[k]
<1>1. CASE Commit
  BY <1>1, HistoryCommit
<1>2. CASE UNCHANGED committed
  BY <1>2 DEF IsHistory
<1> QED
  BY <1>1, <1>2, CommittedStep

\* Brokers that stay undisturbed follow the history.
LEMMA FollowsStep ==
  ASSUME TypeOK, Positions, TornBehind, [Next]_vars, NEW F, IsHistory(F), Follows(F),
         NEW G, \A k \in 0..Len(committed) : G[k] = F[k]
  PROVE  Follows(G)'
<1> SUFFICES ASSUME NEW n \in Nodes, Calm(n)' PROVE plog'[n] = G[applied'[n]]
  BY DEF Follows
<1>0. RaftTypes /\ BrokerTypes
  BY TypeParts
<1>1. Calm(n) /\ ~ApplyFails(n) /\ ~InstallSnapshot(n) /\ ~Restart(n)
  BY CalmStep DEF Calm
<1>2. plog[n] = F[applied[n]]
  BY <1>1 DEF Follows
<1>3. applied[n] \in 0..Len(committed)
  <2>1. applied[n] \in Nat /\ applied[n] <= Len(committed) /\ Len(committed) \in Nat
    BY <1>0, CommittedStep DEF RaftTypes, Positions
  <2> QED
    BY <2>1
<1>4. CASE Apply(n) \/ CrashInApply(n)
  <2>1. /\ applied[n] + 1 \in 1..Len(committed) /\ applied'[n] = applied[n] + 1
        /\ NextCommand(n) = committed[applied[n] + 1] /\ NextCommand(n) \in Command
    BY <1>0, <1>4, AdvancedFacts DEF Apply, CrashInApply
  <2>2. plog'[n] = Extended(plog[n], NextCommand(n))
    <3>1. Tears(n, NextCommand(n).partition) = {}
      BY <1>1, CalmIsWhole DEF Calm
    <3>2. plog' = AppendTo(n, NextCommand(n))
      BY <1>4 DEF Apply, CrashInApply, Calm
    <3> QED
      BY <1>0, <2>1, <3>1, <3>2, AppendToFacts
  <2>3. (applied[n] + 1) - 1 = applied[n] /\ applied[n] + 1 \in 0..Len(committed)
    BY <1>3, <2>1
  <2>4. F[applied[n] + 1] = Extended(F[applied[n]], committed[applied[n] + 1])
    BY <2>1, <2>3 DEF IsHistory
  <2> QED
    BY <1>2, <2>1, <2>2, <2>3, <2>4
<1>5. CASE ~Apply(n) /\ ~CrashInApply(n)
  <2>1. plog'[n] = plog[n]
    BY <1>0, <1>1, <1>5, PlogStep, AppendToFacts, RestartFacts
  <2>2. applied'[n] = applied[n]
    BY <1>1, <1>5, AppliedStep
  <2> QED
    BY <1>2, <1>3, <2>1, <2>2
<1> QED
  BY <1>4, <1>5

\* So do the offsets they return.
LEMMA PlacedStep ==
  ASSUME TypeOK, Positions, [Next]_vars, NEW F, IsHistory(F), Follows(F),
         \A a \in acked : Placed(F, a),
         NEW G, \A k \in 0..Len(committed) : G[k] = F[k],
         NEW a \in acked'
  PROVE  Placed(G, a)'
<1>0. RaftTypes /\ BrokerTypes /\ Len(committed) \in Nat /\ Len(committed') \in Nat
      /\ Len(committed) <= Len(committed')
  BY TypeParts, CommittedStep
<1>1. \A n \in Nodes : Calm(n)' => Calm(n)
  BY CalmStep DEF Calm
<1>n. a.node \in Nodes
  <2>1. acked' \subseteq [cmd : Command, node : Nodes, offset : Nat]
    BY TypeStep DEF TypeOK
  <2> QED
    BY <2>1
<1>2. SUFFICES ASSUME NEW k \in 1..Len(committed), committed[k] = a.cmd,
                      Calm(a.node) => a.offset = Len(F[k - 1][a.cmd.partition])
               PROVE  Placed(G, a)'
  <2>1. CASE a \in acked
    BY <1>2, <2>1 DEF Placed
  <2>2. CASE a \notin acked
    <3>1. PICK n \in Nodes : Apply(n)
      BY <2>2, AckedStep
    <3> DEFINE cmd == NextCommand(n)
               k == applied[n] + 1
    <3>2. k \in 1..Len(committed) /\ cmd = committed[k] /\ applied[n] \in Nat
      BY <1>0, <3>1, AdvancedFacts DEF Apply
    <3>3. a = [cmd |-> cmd, node |-> n, offset |-> Len(plog[n][cmd.partition])]
      BY <1>0, <2>2, <3>1, ApplyAcks
    <3> HIDE DEF cmd
    <3>4. a.cmd = cmd /\ a.node = n /\ a.offset = Len(plog[n][cmd.partition])
      BY <3>3
    <3>5. Calm(n) => plog[n] = F[k - 1]
      <4>1. k - 1 = applied[n]
        BY <3>2
      <4> QED
        BY <4>1 DEF Follows
    <3> HIDE DEF k
    <3> QED
      BY <1>2, <3>2, <3>4, <3>5
  <2> QED
    BY <2>1, <2>2
<1>3. k \in 1..Len(committed') /\ k - 1 \in 0..Len(committed)
  BY <1>0
<1>4. committed'[k] = a.cmd
  BY <1>2, CommittedStep
<1>5. Calm(a.node)' => a.offset = Len(G[k - 1][a.cmd.partition])
  BY <1>1, <1>2, <1>3, <1>n
<1> QED
  BY <1>3, <1>4, <1>5 DEF Placed

\* The logs and the offsets returned come from the committed commands.
LEMMA FromHistoryStep ==
  TypeOK /\ Positions /\ TornBehind /\ FromHistory /\ [Next]_vars => FromHistory'
<1> SUFFICES ASSUME TypeOK, Positions, TornBehind, FromHistory, [Next]_vars PROVE FromHistory'
  OBVIOUS
<1>1. PICK F : IsHistory(F) /\ Follows(F) /\ \A a \in acked : Placed(F, a)
  BY DEF FromHistory
<1>2. PICK G : IsHistory(G)' /\ \A k \in 0..Len(committed) : G[k] = F[k]
  BY <1>1, HistoryContinues
<1>3. Follows(G)'
  BY <1>1, <1>2, FollowsStep
<1>4. \A a \in acked' : Placed(G, a)'
  BY <1>1, <1>2, PlacedStep
<1> QED
  BY <1>2, <1>3, <1>4 DEF FromHistory

-----------------------------------------------------------------------------
(***************************************************************************)
(* The order of the commands.                                              *)
(***************************************************************************)

\* The log holds commands.
LEMMA LogFacts ==
  ASSUME TypeOK
  PROVE  /\ LogLen \in Nat /\ Len(committed) \in Nat /\ Len(committed) <= LogLen
         /\ \A i \in 1..LogLen : LogAt(i) \in Command
         /\ \A i \in 1..Len(committed) : LogAt(i) = committed[i]
<1>1. committed \in Seq(Command) /\ tail \in Seq(Command)
  BY DEF TypeOK
<1>2. Len(committed) \in Nat /\ Len(tail) \in Nat
  BY <1>1
<1>3. LogLen \in Nat /\ Len(committed) <= LogLen
  BY <1>2 DEF LogLen
<1>4. ASSUME NEW i \in 1..LogLen  PROVE LogAt(i) \in Command
  <2>1. CASE i <= Len(committed)
    BY <1>1, <1>2, <2>1 DEF LogAt
  <2>2. CASE ~(i <= Len(committed))
    <3>1. i - Len(committed) \in 1..Len(tail)
      BY <1>2, <2>2 DEF LogLen
    <3> QED
      BY <1>1, <2>2, <3>1 DEF LogAt
  <2> QED
    BY <2>1, <2>2
<1>5. \A i \in 1..Len(committed) : LogAt(i) = committed[i]
  BY <1>2 DEF LogAt
<1> QED
  BY <1>2, <1>3, <1>4, <1>5

\* The log stays, or loses its end.
LogKept == LogLen' <= LogLen /\ \A i \in 1..LogLen' : LogAt(i)' = LogAt(i)

\* A commit leaves the log as it is.
LEMMA CommitKeepsLog ==
  ASSUME TypeOK, Commit
  PROVE  LogKept
<1>1. committed \in Seq(Command) /\ tail \in Seq(Command) /\ tail # << >>
  BY DEF TypeOK, Commit
<1>2. committed' = Append(committed, Head(tail)) /\ tail' = Tail(tail)
  BY DEF Commit
<1>3. /\ Len(committed) \in Nat /\ Len(tail) \in Nat /\ Len(tail) >= 1
      /\ Len(committed') = Len(committed) + 1 /\ Len(tail') = Len(tail) - 1
  BY <1>1, <1>2
<1>4. LogLen' = LogLen
  BY <1>3 DEF LogLen
<1>5. /\ \A i \in 1..Len(committed) : committed'[i] = committed[i]
      /\ committed'[Len(committed) + 1] = tail[1]
      /\ \A i \in 1..(Len(tail) - 1) : tail'[i] = tail[i + 1]
  BY <1>1, <1>2, <1>3
<1>6. ASSUME NEW i \in 1..LogLen  PROVE LogAt(i)' = LogAt(i)
  <2>1. CASE i <= Len(committed)
    BY <1>3, <1>5, <2>1 DEF LogAt
  <2>2. CASE i = Len(committed) + 1
    <3>1. LogAt(i)' = tail[1]
      BY <1>3, <1>5, <2>2 DEF LogAt
    <3>2. i - Len(committed) = 1 /\ ~(i <= Len(committed))
      BY <1>3, <2>2
    <3>3. LogAt(i) = tail[1]
      BY <3>2 DEF LogAt
    <3> QED
      BY <3>1, <3>3
  <2>3. CASE i > Len(committed) + 1
    <3>1. i - Len(committed') \in 1..(Len(tail) - 1)
      BY <1>3, <2>3 DEF LogLen
    <3>2. (i - Len(committed')) + 1 = i - Len(committed)
      BY <1>3
    <3>3. LogAt(i)' = tail'[i - Len(committed')] /\ LogAt(i) = tail[i - Len(committed)]
      BY <1>3, <2>3 DEF LogAt
    <3> QED
      BY <1>5, <3>1, <3>2, <3>3
  <2> QED
    BY <1>3, <2>1, <2>2, <2>3
<1> QED
  BY <1>3, <1>4, <1>6 DEF LogKept, LogLen

\* An election keeps some prefix of the leader's uncommitted commands.
LEMMA ElectKeepsLog ==
  ASSUME TypeOK, NEW n \in Nodes, Elect(n)
  PROVE  LogKept
<1>1. committed \in Seq(Command) /\ tail \in Seq(Command) /\ committed' = committed
  BY DEF TypeOK, Elect
<1>2. PICK k \in 0..Len(tail) : tail' = SubSeq(tail, 1, k)
  BY DEF Elect
<1>3. Len(committed) \in Nat /\ Len(tail) \in Nat /\ Len(tail') = k
      /\ \A i \in 1..k : tail'[i] = tail[i]
  BY <1>1, <1>2
<1>4. LogLen' <= LogLen
  BY <1>1, <1>3 DEF LogLen
<1>5. ASSUME NEW i \in 1..LogLen'  PROVE LogAt(i)' = LogAt(i)
  <2>1. CASE i <= Len(committed)
    BY <1>1, <2>1 DEF LogAt
  <2>2. CASE ~(i <= Len(committed))
    <3>1. i - Len(committed) \in 1..k
      BY <1>1, <1>3, <2>2 DEF LogLen
    <3> QED
      BY <1>1, <1>3, <2>2, <3>1 DEF LogAt
  <2> QED
    BY <2>1, <2>2
<1> QED
  BY <1>4, <1>5 DEF LogKept

\* raft.Apply puts the command behind the others.
LEMMA EnqueueExtendsLog ==
  ASSUME TypeOK, NEW h \in Handlers, Enqueue(h)
  PROVE  /\ LogLen' = LogLen + 1 /\ committed' = committed
         /\ \A i \in 1..LogLen : LogAt(i)' = LogAt(i)
         /\ LogAt(LogLen)' = handler[h].cmd
<1>1. committed \in Seq(Command) /\ tail \in Seq(Command) /\ handler[h].cmd \in Command
  BY TypeParts, BusyHandler DEF TypeOK, Enqueue
<1>2. tail' = Append(tail, handler[h].cmd) /\ committed' = committed
  BY DEF Enqueue
<1>3. Len(committed) \in Nat /\ Len(tail) \in Nat /\ Len(tail') = Len(tail) + 1
      /\ (\A i \in 1..Len(tail) : tail'[i] = tail[i]) /\ tail'[Len(tail) + 1] = handler[h].cmd
  BY <1>1, <1>2
<1>4. LogLen' = LogLen + 1
  BY <1>2, <1>3 DEF LogLen
<1>5. ASSUME NEW i \in 1..LogLen  PROVE LogAt(i)' = LogAt(i)
  <2>1. CASE i <= Len(committed)
    BY <1>2, <2>1 DEF LogAt
  <2>2. CASE ~(i <= Len(committed))
    <3>1. i - Len(committed) \in 1..Len(tail)
      BY <1>3, <2>2 DEF LogLen
    <3> QED
      BY <1>2, <1>3, <2>2, <3>1 DEF LogAt
  <2> QED
    BY <2>1, <2>2
<1>6. LogAt(LogLen)' = handler[h].cmd
  <2>1. LogLen' - Len(committed) = Len(tail) + 1 /\ ~(LogLen' <= Len(committed))
    BY <1>3, <1>4 DEF LogLen
  <2> QED
    BY <1>2, <1>3, <1>4, <2>1 DEF LogAt
<1> QED
  BY <1>2, <1>4, <1>5, <1>6

\* A step that brings no command and no request.
Quiet ==
  /\ LogKept /\ count' = count
  /\ \A g \in Handlers : Selected(g)' => Selected(g) /\ handler'[g] = handler[g]

\* A step brings nothing, accepts a request or puts its command into the log.
LEMMA OrderStep ==
  ASSUME TypeOK, [Next]_vars
  PROVE  \/ Quiet
         \/ \E h \in Handlers : Enqueue(h)
         \/ \E h \in Handlers : Accepts(h)
<1>0. RaftTypes /\ BrokerTypes /\ HandlerTypes
  BY TypeParts
<1>1. LogLen \in Nat
  BY LogFacts
<1>2. UNCHANGED <<committed, tail>> => LogKept
  BY <1>1 DEF LogKept, LogLen, LogAt
<1>3. (\A g \in Handlers : handler'[g] = Idle \/ handler'[g] = handler[g]) =>
        \A g \in Handlers : Selected(g)' => Selected(g) /\ handler'[g] = handler[g]
  BY DEF Selected, Idle
<1>4. ASSUME NEW hs, Answer(hs), UNCHANGED <<committed, tail, count>>  PROVE Quiet
  BY <1>0, <1>2, <1>3, <1>4, AnswerType DEF Quiet
<1>5. CASE StepDown
  BY <1>4, <1>5 DEF StepDown
<1>6. ASSUME NEW n \in Nodes, Apply(n) \/ ApplyFails(n) \/ Crash(n) \/ CrashInApply(n)
      PROVE  Quiet
  BY <1>4, <1>6 DEF Apply, ApplyFails, Crash, CrashInApply, Dies
<1>7. ASSUME NEW h \in Handlers, EnqueueFails(h)  PROVE Quiet
  <2>1. \A g \in Handlers : handler'[g] = Idle \/ handler'[g] = handler[g]
    BY <1>0, <1>7 DEF EnqueueFails, HandlerTypes
  <2> QED
    BY <1>2, <1>3, <1>7, <2>1 DEF Quiet, EnqueueFails, raft
<1>8. CASE Commit
  BY <1>3, <1>8, CommitKeepsLog DEF Quiet, Commit
<1>9. ASSUME NEW n \in Nodes, Elect(n)  PROVE Quiet
  BY <1>3, <1>9, ElectKeepsLog DEF Quiet, Elect
<1>10. ASSUME NEW n \in Nodes, TakeSnapshot(n) \/ InstallSnapshot(n) \/ Restart(n)  PROVE Quiet
  BY <1>2, <1>3, <1>10 DEF Quiet, TakeSnapshot, InstallSnapshot, Restart
<1>11. CASE UNCHANGED vars
  BY <1>2, <1>3, <1>11 DEF Quiet, vars
<1>12. ASSUME NEW h \in Handlers, Publishes(h)  PROVE Accepts(h)
  BY <1>0, <1>12, PublishFacts
<1> QED
  BY <1>5, <1>6, <1>7, <1>8, <1>9, <1>10, <1>11, <1>12 DEF Next, Publishes

\* The command of an accepted request, and everybody else's.
LEMMA AcceptOrder ==
  ASSUME TypeOK, NEW h \in Handlers, Accepts(h)
  PROVE  /\ committed' = committed /\ LogLen' = LogLen /\ \A i : LogAt(i)' = LogAt(i)
         /\ count \in Nat /\ count' = count + 1
         /\ ~Selected(h) /\ handler'[h].cmd.id = count + 1 /\ WellPlaced(handler'[h].cmd)
         /\ handler'[h].cmd.after = {a.cmd.id : a \in acked}
         /\ \A g \in Handlers \ {h} : handler'[g] = handler[g] /\ (Selected(g)' <=> Selected(g))
<1>0. RaftTypes /\ BrokerTypes /\ HandlerTypes
  BY TypeParts
<1>1. /\ handler[h] = Idle /\ count' = count + 1
      /\ \A g \in Handlers \ {h} : handler'[g] = handler[g]
      /\ handler'[h].cmd.id = count + 1 /\ WellPlaced(handler'[h].cmd)
      /\ handler'[h].cmd.after = {a.cmd.id : a \in acked}
      /\ UNCHANGED <<raft, plog, torn, acked, history, bounds>>
  <2>1. PICK key \in Keys \cup {NoKey}, named \in BOOLEAN, p \in Partitions,
             size \in BatchSizes \cup {1} :
               Accept(h, key, named, p, size) /\ ByKeyUnlessNamed(key, named, p)
    BY DEF Accepts
  <2> QED
    BY <1>0, <2>1, AcceptFacts
<1>2. count \in Nat
  <2>1. count \in 0..MaxCommands /\ MaxCommands \in Nat
    BY <1>0, ReplicationAssumption DEF BrokerTypes
  <2> QED
    BY <2>1
<1>3. committed' = committed /\ tail' = tail
  BY <1>1 DEF raft
<1>4. LogLen' = LogLen /\ \A i : LogAt(i)' = LogAt(i)
  BY <1>3 DEF LogLen, LogAt
<1>6. ~Selected(h)
  BY <1>1 DEF Selected, Idle
<1>7. \A g \in Handlers \ {h} : Selected(g)' <=> Selected(g)
  BY <1>1 DEF Selected
<1> QED
  BY <1>1, <1>2, <1>3, <1>4, <1>6, <1>7

\* The command that raft.Apply enqueues, and everybody else's.
LEMMA EnqueueOrder ==
  ASSUME TypeOK, NEW h \in Handlers, Enqueue(h)
  PROVE  /\ Selected(h) /\ ~Selected(h)' /\ count' = count
         /\ \A g \in Handlers \ {h} : handler'[g] = handler[g] /\ (Selected(g)' <=> Selected(g))
<1>0. HandlerTypes
  BY TypeParts
<1>1. handler[h].pc = "selected" /\ handler[h] \in Busy
  BY <1>0, BusyHandler DEF Enqueue
<1>2. handler' = [handler EXCEPT ![h].pc = "waiting"] /\ count' = count
  BY DEF Enqueue
<1>3. handler'[h].pc = "waiting"
  BY <1>0, <1>1, <1>2 DEF HandlerTypes, Busy
<1>4. \A g \in Handlers \ {h} : handler'[g] = handler[g]
  BY <1>0, <1>2 DEF HandlerTypes
<1> QED
  BY <1>1, <1>2, <1>3, <1>4 DEF Selected

\* Selected handlers hold commands.
LEMMA SelectedFacts ==
  ASSUME NEW h \in Handlers, Selected(h)
  PROVE  handler[h].cmd \in Command /\ handler[h].cmd.id \in Nat
<1>1. handler[h].cmd \in Command
  BY DEF Selected, Busy
<1> QED
  BY <1>1, CommandFields

\* Ids stay distinct.
LEMMA NumberedStep == TypeOK /\ Numbered /\ [Next]_vars => Numbered'
<1> SUFFICES ASSUME TypeOK, Numbered, [Next]_vars PROVE Numbered'
  OBVIOUS
<1>0. /\ LogLen \in Nat /\ LogLen' \in Nat
      /\ \A i \in 1..LogLen : LogAt(i).id \in Nat
  <2>1. LogLen \in Nat /\ \A i \in 1..LogLen : LogAt(i) \in Command
    BY LogFacts
  <2>2. LogLen' \in Nat
    BY TypeStep DEF TypeOK, LogLen
  <2> QED
    BY <2>1, <2>2, CommandFields
<1>1. CASE Quiet
  <2>1. \A i \in 1..LogLen' : i \in 1..LogLen /\ LogAt(i)' = LogAt(i)
    BY <1>0, <1>1 DEF Quiet, LogKept
  <2>2. /\ count' = count
        /\ \A g \in Handlers : Selected(g)' => Selected(g) /\ handler'[g] = handler[g]
    BY <1>1 DEF Quiet
  <2>3. \A i \in 1..LogLen' : LogAt(i)'.id <= count' /\ WellPlaced(LogAt(i)')
    BY <2>1, <2>2 DEF Numbered
  <2>4. \A i, j \in 1..LogLen' : LogAt(i)'.id = LogAt(j)'.id => i = j
    BY <2>1 DEF Numbered
  <2>5. \A h \in Handlers : Selected(h)' =>
          /\ handler'[h].cmd.id <= count' /\ WellPlaced(handler'[h].cmd)
          /\ \A i \in 1..LogLen' : LogAt(i)'.id # handler'[h].cmd.id
    BY <2>1, <2>2 DEF Numbered
  <2>6. \A g, h \in Handlers :
          Selected(g)' /\ Selected(h)' /\ handler'[g].cmd.id = handler'[h].cmd.id => g = h
    BY <2>2 DEF Numbered
  <2> QED
    BY <2>3, <2>4, <2>5, <2>6 DEF Numbered, WellPlaced, ByKeyUnlessNamed
<1>2. ASSUME NEW h \in Handlers, Enqueue(h)  PROVE Numbered'
  <2> DEFINE c == handler[h].cmd
  <2>1. LogLen' = LogLen + 1 /\ (\A i \in 1..LogLen : LogAt(i)' = LogAt(i)) /\ LogAt(LogLen)' = c
    BY <1>2, EnqueueExtendsLog
  <2>2. /\ Selected(h) /\ ~Selected(h)' /\ count' = count
        /\ \A g \in Handlers \ {h} : handler'[g] = handler[g] /\ (Selected(g)' <=> Selected(g))
    BY <1>2, EnqueueOrder
  <2>3. c.id <= count /\ WellPlaced(c) /\ \A i \in 1..LogLen : LogAt(i).id # c.id
    BY <2>2 DEF Numbered
  <2>4. \A i \in 1..LogLen' : \/ i \in 1..LogLen /\ LogAt(i)' = LogAt(i)
                              \/ i = LogLen' /\ LogAt(i)' = c
    <3>1. \A i \in 1..LogLen' : i \in 1..LogLen \/ i = LogLen'
      BY <1>0, <2>1
    <3> QED
      BY <2>1, <3>1
  <2> HIDE DEF c
  <2>5. \A i \in 1..LogLen' : LogAt(i)'.id <= count' /\ WellPlaced(LogAt(i)')
    BY <2>2, <2>3, <2>4 DEF Numbered
  <2>6. \A i, j \in 1..LogLen' : LogAt(i)'.id = LogAt(j)'.id => i = j
    BY <2>3, <2>4 DEF Numbered
  <2>7. ASSUME NEW g \in Handlers, Selected(g)'
        PROVE  /\ handler'[g].cmd.id <= count' /\ WellPlaced(handler'[g].cmd)
               /\ \A i \in 1..LogLen' : LogAt(i)'.id # handler'[g].cmd.id
    <3>1. g # h /\ Selected(g) /\ handler'[g] = handler[g]
      BY <2>2, <2>7
    <3>2. handler[g].cmd.id # c.id
      BY <2>2, <3>1 DEF Numbered, c
    <3> QED
      BY <2>2, <2>4, <3>1, <3>2 DEF Numbered
  <2>8. \A g, f \in Handlers :
          Selected(g)' /\ Selected(f)' /\ handler'[g].cmd.id = handler'[f].cmd.id => g = f
    BY <2>2 DEF Numbered
  <2> QED
    BY <2>5, <2>6, <2>7, <2>8 DEF Numbered, WellPlaced, ByKeyUnlessNamed
<1>3. ASSUME NEW h \in Handlers, Accepts(h)
      PROVE  Numbered'
  <2>1. /\ LogLen' = LogLen /\ \A i : LogAt(i)' = LogAt(i)
        /\ count \in Nat /\ count' = count + 1
        /\ handler'[h].cmd.id = count + 1 /\ WellPlaced(handler'[h].cmd)
        /\ \A g \in Handlers \ {h} : handler'[g] = handler[g] /\ (Selected(g)' <=> Selected(g))
    BY <1>3, AcceptOrder
  <2>2. \A i \in 1..LogLen : LogAt(i).id <= count /\ LogAt(i).id # count + 1
    BY <1>0, <2>1 DEF Numbered
  <2>3. \A g \in Handlers \ {h} : Selected(g)' =>
          handler[g].cmd.id \in Nat /\ handler[g].cmd.id <= count
    BY <2>1, SelectedFacts DEF Numbered
  <2>4. \A i \in 1..LogLen' : LogAt(i)'.id <= count' /\ WellPlaced(LogAt(i)')
    <3>1. \A i \in 1..LogLen : LogAt(i).id <= count + 1
      BY <1>0, <2>1, <2>2
    <3> QED
      BY <2>1, <3>1 DEF Numbered
  <2>5. \A i, j \in 1..LogLen' : LogAt(i)'.id = LogAt(j)'.id => i = j
    BY <2>1 DEF Numbered
  <2>6. ASSUME NEW g \in Handlers, Selected(g)'
        PROVE  /\ handler'[g].cmd.id <= count' /\ WellPlaced(handler'[g].cmd)
               /\ \A i \in 1..LogLen' : LogAt(i)'.id # handler'[g].cmd.id
    <3>1. CASE g = h
      BY <2>1, <2>2, <3>1
    <3>2. CASE g # h
      <4>1. handler[g].cmd.id <= count + 1
        BY <2>1, <2>3, <2>6, <3>2
      <4> QED
        BY <2>1, <2>6, <3>2, <4>1 DEF Numbered
    <3> QED
      BY <3>1, <3>2
  <2>7. ASSUME NEW g \in Handlers, NEW f \in Handlers, Selected(g)', Selected(f)',
               handler'[g].cmd.id = handler'[f].cmd.id
        PROVE  g = f
    <3>1. \A x \in Handlers \ {h} : Selected(x)' => handler'[x].cmd.id # count + 1
      BY <2>1, <2>3
    <3> QED
      BY <2>1, <2>7, <3>1 DEF Numbered
  <2> QED
    BY <2>4, <2>5, <2>6, <2>7 DEF Numbered, WellPlaced, ByKeyUnlessNamed
<1> QED
  BY <1>1, <1>2, <1>3, OrderStep

\* What is committed in front of a place stays there.
LEMMA CommittedBeforeStep ==
  ASSUME TypeOK, [Next]_vars, NEW x, NEW i \in Nat, NEW j \in Nat, i <= j, CommittedBefore(x, i)
  PROVE  \E k \in 1..Len(committed') : k < j /\ committed'[k].id = x
<1>1. PICK k \in 1..Len(committed) : k < i /\ committed[k].id = x
  BY DEF CommittedBefore
<1>2. Len(committed) \in Nat /\ Len(committed') \in Nat /\ Len(committed) <= Len(committed')
      /\ committed'[k] = committed[k]
  BY CommittedStep
<1>3. k \in 1..Len(committed') /\ k < j
  BY <1>1, <1>2
<1> QED
  BY <1>1, <1>2, <1>3

\* Commands stay behind what was acknowledged before them.
LEMMA CausalStep == TypeOK /\ FromHistory /\ Causal /\ [Next]_vars => Causal'
<1> SUFFICES ASSUME TypeOK, FromHistory, Causal, [Next]_vars PROVE Causal'
  OBVIOUS
<1> DEFINE Before(x, i) == \E k \in 1..Len(committed') : k < i /\ committed'[k].id = x
<1>0. LogLen \in Nat /\ LogLen' \in Nat /\ Len(committed) \in Nat /\ Len(committed') \in Nat
      /\ Len(committed) <= Len(committed') /\ Len(committed) <= LogLen
  <2>1. LogLen \in Nat /\ Len(committed) <= LogLen
    BY LogFacts
  <2>2. Len(committed) \in Nat /\ Len(committed') \in Nat /\ Len(committed) <= Len(committed')
    BY CommittedStep
  <2>3. tail' \in Seq(Command)
    BY TypeStep DEF TypeOK
  <2> QED
    BY <2>1, <2>2, <2>3 DEF LogLen
<1>1. \A x : \A i, j \in Nat : i <= j /\ CommittedBefore(x, i) => Before(x, j)
  BY CommittedBeforeStep
<1>2. \A i \in 1..LogLen : \A x \in LogAt(i).after : Before(x, i)
  <2>1. \A i \in 1..LogLen : i \in Nat /\ i <= i
    BY <1>0
  <2> QED
    BY <1>1, <2>1 DEF Causal
<1>3. \A h \in Handlers : Selected(h) => \A x \in handler[h].cmd.after :
        Before(x, Len(committed') + 1) /\ Before(x, LogLen + 1)
  <2>1. /\ Len(committed) + 1 \in Nat /\ Len(committed') + 1 \in Nat /\ LogLen + 1 \in Nat
        /\ Len(committed) + 1 <= Len(committed') + 1 /\ Len(committed) + 1 <= LogLen + 1
    BY <1>0
  <2> QED
    BY <1>1, <2>1 DEF Causal
<1>4. SUFFICES /\ \A i \in 1..LogLen' : \A x \in LogAt(i)'.after : Before(x, i)
               /\ \A h \in Handlers : Selected(h)' =>
                    \A x \in handler'[h].cmd.after : Before(x, Len(committed') + 1)
  BY <1>4 DEF Causal, CommittedBefore
<1> HIDE DEF Before
<1>5. CASE Quiet
  <2>1. \A i \in 1..LogLen' : i \in 1..LogLen /\ LogAt(i)' = LogAt(i)
    BY <1>0, <1>5 DEF Quiet, LogKept
  <2>2. \A g \in Handlers : Selected(g)' => Selected(g) /\ handler'[g] = handler[g]
    BY <1>5 DEF Quiet
  <2> QED
    BY <1>2, <1>3, <2>1, <2>2
<1>6. CASE \E h \in Handlers : Enqueue(h)
  <2>1. PICK h \in Handlers : Enqueue(h)
    BY <1>6
  <2>2. LogLen' = LogLen + 1 /\ (\A i \in 1..LogLen : LogAt(i)' = LogAt(i))
        /\ LogAt(LogLen)' = handler[h].cmd
    BY <2>1, EnqueueExtendsLog
  <2>3. /\ Selected(h) /\ ~Selected(h)'
        /\ \A g \in Handlers \ {h} : handler'[g] = handler[g] /\ (Selected(g)' <=> Selected(g))
    BY <2>1, EnqueueOrder
  <2>4. ASSUME NEW i \in 1..LogLen', NEW x \in LogAt(i)'.after  PROVE Before(x, i)
    <3>1. CASE i \in 1..LogLen
      BY <1>2, <2>2, <2>4, <3>1
    <3>2. CASE i = LogLen'
      BY <1>3, <2>2, <2>3, <2>4, <3>2
    <3> QED
      BY <1>0, <2>2, <3>1, <3>2
  <2>5. \A g \in Handlers : Selected(g)' =>
          \A x \in handler'[g].cmd.after : Before(x, Len(committed') + 1)
    BY <1>3, <2>3
  <2> QED
    BY <2>4, <2>5
<1>7. ASSUME NEW h \in Handlers, Accepts(h)
      PROVE  /\ \A i \in 1..LogLen' : \A x \in LogAt(i)'.after : Before(x, i)
             /\ \A g \in Handlers : Selected(g)' =>
                  \A x \in handler'[g].cmd.after : Before(x, Len(committed') + 1)
  <2>1. /\ committed' = committed /\ LogLen' = LogLen /\ \A i : LogAt(i)' = LogAt(i)
        /\ handler'[h].cmd.after = {a.cmd.id : a \in acked}
        /\ \A g \in Handlers \ {h} : handler'[g] = handler[g] /\ (Selected(g)' <=> Selected(g))
    BY <1>7, AcceptOrder
  <2>2. ASSUME NEW a \in acked  PROVE Before(a.cmd.id, Len(committed') + 1)
    <3>1. PICK k \in 1..Len(committed) : committed[k] = a.cmd
      BY DEF FromHistory, Placed
    <3>2. k < Len(committed) + 1
      BY <1>0
    <3> QED
      BY <2>1, <3>1, <3>2 DEF Before
  <2>3. \A i \in 1..LogLen' : \A x \in LogAt(i)'.after : Before(x, i)
    BY <1>2, <2>1
  <2>4. ASSUME NEW g \in Handlers, Selected(g)', NEW x \in handler'[g].cmd.after
        PROVE  Before(x, Len(committed') + 1)
    <3>1. CASE g = h
      BY <2>1, <2>2, <2>4, <3>1
    <3>2. CASE g # h
      BY <1>3, <2>1, <2>4, <3>2
    <3> QED
      BY <3>1, <3>2
  <2> QED
    BY <2>3, <2>4
<1> QED
  BY <1>5, <1>6, <1>7, OrderStep

-----------------------------------------------------------------------------
(***************************************************************************)
(* The results.                                                            *)
(***************************************************************************)

\* A new cluster satisfies Inv.
LEMMA InvInit == Init => Inv
<1> SUFFICES ASSUME Init PROVE Inv
  OBVIOUS
<1>e. committed = << >> /\ tail = << >> /\ Len(committed) = 0 /\ Len(tail) = 0
  BY DEF Init
<1>1. TypeOK
  <2>0. 0 \in Partitions /\ 0 \in 0..MaxCommands
    BY ReplicationAssumption DEF Partitions
  <2>1. RaftTypes /\ HandlerTypes /\ CountTypes
    BY DEF Init, RaftTypes, HandlerTypes, CountTypes
  <2>2. BrokerTypes
    BY <2>0 DEF Init, BrokerTypes, Logs
  <2> QED
    BY <2>1, <2>2, TypeParts
<1>2. Positions
  BY <1>e DEF Init, Positions
<1>3. \A h \in Handlers : ~Selected(h)
  BY DEF Init, Selected, Idle
<1>4. LogLen = 0
  BY <1>e DEF LogLen
<1>5. Numbered /\ Causal
  BY <1>3, <1>4 DEF Numbered, Causal
<1>6. FromHistory
  <2>1. PICK F : F = [k \in 0..0 |-> [p \in Partitions |-> << >>]]
    OBVIOUS
  <2>2. F \in [0..0 -> Logs] /\ F[0] = [p \in Partitions |-> << >>]
    BY <2>1 DEF Logs
  <2>3. \A p \in Partitions : Prefix(F[0][p], F[0][p])
    BY <2>2, PrefixReflexive DEF Logs
  <2>4. IsHistory(F)
    <3>1. \A j \in 0..0 : j = 0
      OBVIOUS
    <3> QED
      BY <1>e, <2>2, <2>3, <3>1 DEF IsHistory
  <2>5. Follows(F)
    BY <2>2 DEF Init, Follows
  <2> QED
    BY <2>4, <2>5 DEF Init, FromHistory
<1>7. AckedStays
  BY DEF Init, AckedStays
<1>8. NothingLost /\ TornBehind
  BY DEF Init, NothingLost, TornBehind
<1> QED
  BY <1>1, <1>2, <1>5, <1>6, <1>7, <1>8 DEF Inv

\* Publishing, elections, failed and torn applies, snapshots, crashes and
\* restarts keep the inductive invariant.
THEOREM Invariance == Spec => []Inv
<1>1. Init => Inv
  BY InvInit
<1>2. Inv /\ [Next]_vars => Inv'
  BY TypeStep, PositionsStep, NumberedStep, CausalStep, FromHistoryStep, TornBehindStep,
     AckedStaysStep, NothingLostStep, Zenon
     DEF Inv
<1> QED
  BY <1>1, <1>2, PTL DEF Spec

\* The variables of the cluster keep their types.
THEOREM TypeCorrect == Spec => []TypeOK
<1>1. Inv => TypeOK
  BY DEF Inv
<1> QED
  BY <1>1, Invariance, PTL

\* For any cluster, an offset that a broker returned names the records it was
\* returned for, on that broker, for ever, unless it is just in front of a torn
\* write or behind one.
THEOREM AckedForEver == Spec => []AckedStays
<1>1. Inv => AckedStays
  BY DEF Inv
<1> QED
  BY <1>1, Invariance, PTL

\* For any cluster, a broker that has got past a command has its records, unless
\* an apply failed or was cut short there or it was given a snapshot.
THEOREM ReplayLosesNothing == Spec => []NothingLost
<1>1. Inv => NothingLost
  BY DEF Inv
<1> QED
  BY <1>1, Invariance, PTL

\* Prefix is the library's IsPrefix.
LEMMA PrefixIsPrefix ==
  ASSUME NEW s \in Seq(Record), NEW t \in Seq(Record), Prefix(s, t)
  PROVE  IsPrefix(s, t)
<1>1. Len(s) \in Nat /\ Len(t) \in Nat /\ Len(s) <= Len(t)
  BY DEF Prefix
<1>2. SubSeq(s, 1, Len(s)) = SubSeq(t, 1, Len(s))
  BY <1>1 DEF Prefix
<1> QED
  BY <1>1, <1>2 DEF IsPrefix

\* For any cluster and any elections, two brokers that were not restarted, did
\* not fail to apply and were given no snapshot hold the same records at the
\* same offsets.
THEOREM ReplicasAgreeUnlessDisturbed == Spec => []UndisturbedReplicasAgree
<1>1. Inv => UndisturbedReplicasAgree
  <2> SUFFICES ASSUME Inv, NEW a \in Nodes \ (replayed \cup disturbed),
                      NEW b \in Nodes \ (replayed \cup disturbed), NEW p \in Partitions
               PROVE  IsPrefix(plog[a][p], plog[b][p]) \/ IsPrefix(plog[b][p], plog[a][p])
    BY DEF UndisturbedReplicasAgree, Agree
  <2>1. PICK F : IsHistory(F) /\ Follows(F)
    BY DEF Inv, FromHistory
  <2>2. TypeOK /\ plog[a][p] \in Seq(Record) /\ plog[b][p] \in Seq(Record)
    <3>1. TypeOK /\ plog \in [Nodes -> Logs]
      BY DEF Inv, TypeOK, Logs
    <3>2. plog[a] \in Logs /\ plog[b] \in Logs
      BY <3>1
    <3> QED
      BY <3>1, <3>2 DEF Logs
  <2>3. plog[a] = F[applied[a]] /\ plog[b] = F[applied[b]]
    BY <2>1 DEF Follows, Calm
  <2>4. /\ applied[a] \in Nat /\ applied[b] \in Nat /\ Len(committed) \in Nat
        /\ applied[a] <= Len(committed) /\ applied[b] <= Len(committed)
    BY <2>2, LogFacts DEF Inv, Positions, TypeOK
  <2>5. applied[a] \in 0..Len(committed) /\ applied[b] \in 0..Len(committed)
        /\ (applied[a] <= applied[b] \/ applied[b] <= applied[a])
    BY <2>4
  <2>6. Prefix(plog[a][p], plog[b][p]) \/ Prefix(plog[b][p], plog[a][p])
    BY <2>1, <2>3, <2>5 DEF IsHistory
  <2> QED
    BY <2>2, <2>6, PrefixIsPrefix
<1> QED
  BY <1>1, Invariance, PTL

\* For any cluster and any elections, a publish that began after another one was
\* acknowledged is behind its records if it is in the same partition, and it is
\* if they have the same key and neither request named a partition.
THEOREM KeysInOrder == Spec => []KeyOrder
<1>1. Inv => KeyOrder
  <2> DEFINE Keyed(x, y) == x.key = y.key /\ x.key # NoKey /\ ~x.named /\ ~y.named
  <2> SUFFICES ASSUME Inv, NEW a \in acked, NEW b \in acked, a.cmd.id \in b.cmd.after,
                      {a.node, b.node} \cap (replayed \cup disturbed) = {}
               PROVE  /\ a.cmd.partition = b.cmd.partition => a.offset + a.cmd.size <= b.offset
                      /\ Keyed(a.cmd, b.cmd) => a.cmd.partition = b.cmd.partition
    BY DEF KeyOrder
  <2>1. PICK F : IsHistory(F) /\ Placed(F, a) /\ Placed(F, b)
    BY DEF Inv, FromHistory
  <2>2. Calm(a.node) /\ Calm(b.node)
    BY DEF Calm
  <2>3. PICK k \in 1..Len(committed) :
          committed[k] = a.cmd /\ a.offset = Len(F[k - 1][a.cmd.partition])
    BY <2>1, <2>2 DEF Placed
  <2>4. PICK j \in 1..Len(committed) :
          committed[j] = b.cmd /\ b.offset = Len(F[j - 1][b.cmd.partition])
    BY <2>1, <2>2 DEF Placed
  <2>5. /\ LogLen \in Nat /\ Len(committed) \in Nat /\ Len(committed) <= LogLen
        /\ \A i \in 1..LogLen : LogAt(i) \in Command
        /\ \A i \in 1..Len(committed) : i \in 1..LogLen /\ LogAt(i) = committed[i]
    <3>1. /\ LogLen \in Nat /\ Len(committed) \in Nat /\ Len(committed) <= LogLen
          /\ \A i \in 1..LogLen : LogAt(i) \in Command
          /\ \A i \in 1..Len(committed) : LogAt(i) = committed[i]
      BY LogFacts DEF Inv
    <3>2. \A i \in 1..Len(committed) : i \in 1..LogLen
      BY <3>1
    <3> QED
      BY <3>1, <3>2
  <2>6. k < j
    <3>1. CommittedBefore(a.cmd.id, j)
      BY <2>4, <2>5 DEF Inv, Causal
    <3>2. PICK i \in 1..Len(committed) : i < j /\ committed[i].id = a.cmd.id
      BY <3>1 DEF CommittedBefore
    <3>3. i = k
      BY <2>3, <2>5, <3>2 DEF Inv, Numbered
    <3> QED
      BY <3>2, <3>3
  <2>7. Keyed(a.cmd, b.cmd) => a.cmd.partition = b.cmd.partition
    <3>1. WellPlaced(committed[k]) /\ WellPlaced(committed[j])
      BY <2>5 DEF Inv, Numbered
    <3> QED
      BY <2>3, <2>4, <3>1 DEF WellPlaced, ByKeyUnlessNamed
  <2> HIDE DEF Keyed
  <2>p. SUFFICES ASSUME a.cmd.partition = b.cmd.partition
                 PROVE  a.offset + a.cmd.size <= b.offset
    BY <2>7
  <2> DEFINE p == a.cmd.partition
             c == committed[k]
  <2>8. c \in Command /\ c.partition = p /\ p \in Partitions /\ c.size \in Nat /\ c.size >= 1
    <3>1. c \in Command
      BY <2>5
    <3> QED
      BY <2>3, <3>1, CommandFields
  <2>9. k - 1 \in 0..Len(committed) /\ k \in 0..Len(committed) /\ j - 1 \in 0..Len(committed)
        /\ k <= j - 1
    BY <2>5, <2>6
  <2>10. F[k - 1] \in Logs /\ F[k] \in Logs /\ F[j - 1] \in Logs
    BY <2>1, <2>9 DEF IsHistory
  <2>11. Len(F[k][p]) = Len(F[k - 1][p]) + c.size
    <3>1. F[k] = Extended(F[k - 1], c)
      BY <2>1 DEF IsHistory
    <3>2. Len(Extended(F[k - 1], c)[c.partition]) = Len(F[k - 1][c.partition]) + c.size
      BY <2>8, <2>10, ExtendedFacts
    <3> QED
      BY <2>8, <3>1, <3>2
  <2>12. Len(F[k][p]) <= Len(F[j - 1][p])
    BY <2>1, <2>8, <2>9 DEF IsHistory, Prefix
  <2>13. Len(F[k - 1][p]) \in Nat /\ Len(F[k][p]) \in Nat /\ Len(F[j - 1][p]) \in Nat
    <3>1. F[k - 1][p] \in Seq(Record) /\ F[k][p] \in Seq(Record) /\ F[j - 1][p] \in Seq(Record)
      BY <2>8, <2>10 DEF Logs
    <3>2. \A s \in Seq(Record) : Len(s) \in Nat
      OBVIOUS
    <3> QED
      BY <3>1, <3>2, Zenon
  <2>14. a.offset = Len(F[k - 1][p]) /\ b.offset = Len(F[j - 1][p])
    BY <2>3, <2>4, <2>p
  <2>15. a.cmd.size = c.size
    BY <2>3
  <2> HIDE DEF p, c
  <2> QED
    BY <2>11, <2>12, <2>14, <2>15
<1> QED
  BY <1>1, Invariance, PTL

=============================================================================
