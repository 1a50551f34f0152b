------------------------ MODULE ConsumerGroupsProofs ------------------------
(***************************************************************************)
(* No group goes back behind an acknowledged commit, for any number of     *)
(* groups, handlers, offsets, commits and crashes.                         *)
(*                                                                         *)
(* StandingCommit alone is not inductive.  That the database holds a       *)
(* standing commit when an acknowledged one clears those before it         *)
(* depends on the order of the handlers' steps: a handler past its         *)
(* transaction never finds in the database a commit that had returned      *)
(* before it was received, because whoever wrote there since was still     *)
(* running, and a running commit is not settled.                           *)
(***************************************************************************)
EXTENDS ConsumerGroups, TLAPS

Running(h) == handler[h] # Idle

\* Commits of running handlers are new, and what they replace is old.
Fresh ==
  \A h \in Handlers : Running(h) =>
    /\ handler[h].commit.id <= count
    /\ handler[h].commit \notin settled
    /\ handler[h].before \subseteq settled

Distinct ==
  \A g, h \in Handlers : Running(g) /\ Running(h) /\ g # h =>
    handler[g].commit # handler[h].commit

Numbered ==
  /\ \A s \in settled : s.id <= count
  /\ \A k \in Keys : db[k].id <= count /\ cache[k].id <= count

\* A commit is nowhere to be read before its transaction ...
Unwritten ==
  \A h \in Handlers : handler[h].pc = "persist" =>
    \A k \in Keys : db[k] # handler[h].commit /\ cache[k] # handler[h].commit

\* ... and may be written as long as it is not replaced.
Pending ==
  \A h \in Handlers : handler[h].pc \in {"persist", "cache"} =>
    handler[h].commit \in standing[handler[h].key]

\* What stands in the database and the cache since a handler wrote there.
NewerInDb ==
  \A h \in Handlers : handler[h].pc \in {"cache", "latest", "gauge"} =>
    db[handler[h].key] \notin handler[h].before

NewerInCache ==
  \A h \in Handlers : handler[h].pc \in {"latest", "gauge"} =>
    cache[handler[h].key] \notin handler[h].before

DownIdle == ~up => \A h \in Handlers : ~Running(h)

Order ==
  /\ Fresh /\ Distinct /\ Numbered
  /\ Unwritten /\ Pending
  /\ NewerInDb /\ NewerInCache
  /\ DownIdle
  /\ StandingCommit

Inv == TypeOK /\ Order

Pcs == {"persist", "cache", "latest", "gauge"}

\* The fields of a handler that is serving a request.
LEMMA HandlerFields ==
  ASSUME TypeOK, NEW h \in Handlers, handler[h].pc # "idle"
  PROVE  /\ Running(h)
         /\ handler[h] \in Busy
         /\ handler[h].pc \in Pcs
         /\ handler[h].key \in Keys
         /\ handler[h].commit \in Commit
         /\ handler[h].commit.id \in Nat /\ handler[h].commit.offset \in Nat
         /\ handler[h].before \subseteq Commit
<1>1. Running(h)
  BY DEF Running, Idle
<1>2. handler[h] \in Busy
  BY <1>1 DEF TypeOK, Running
<1>3. handler[h].commit \in Commit
  BY <1>2 DEF Busy
<1>4. handler[h].pc \in Pcs /\ handler[h].key \in Keys /\ handler[h].before \subseteq Commit
  BY <1>2 DEF Busy, Pcs
<1> QED
  BY <1>1, <1>2, <1>3, <1>4 DEF Commit

\* A handler is running exactly if it is past "idle".
LEMMA RunningPc ==
  ASSUME TypeOK, NEW h \in Handlers
  PROVE  Running(h) <=> handler[h].pc \in Pcs
<1>1. CASE handler[h] = Idle
  BY <1>1 DEF Idle, Pcs, Running
<1>2. CASE handler[h] # Idle
  BY <1>2 DEF TypeOK, Busy, Pcs, Running
<1> QED
  BY <1>1, <1>2

-----------------------------------------------------------------------------
(***************************************************************************)
(* Types are kept.                                                         *)
(***************************************************************************)

\* What the lag gauge is set to is a number of records.
LEMMA LagType == \A m, n \in Nat : Lag(m, n) \in Nat
  BY DEF Lag

\* The latest offset of a partition is an offset.
LEMMA LatestType == head \in Nat => LatestOffset \in Nat
  BY DEF LatestOffset

\* Every variable keeps its type.
LEMMA TypeStep == TypeOK /\ [Next]_vars => TypeOK'
<1> SUFFICES ASSUME TypeOK, [Next]_vars PROVE TypeOK'
  OBVIOUS
<1> USE ConsumerGroupsAssumption
<1>1. CASE OpenTopic \/ Produce
  <2>1. open' \in BOOLEAN
    BY <1>1 DEF OpenTopic, Produce, GetPartition
  <2>2. head' \in Nat
    BY <1>1 DEF TypeOK, OpenTopic, Produce
  <2> QED
    BY <1>1, <2>1, <2>2 DEF TypeOK, OpenTopic, Produce
<1>2. ASSUME NEW h \in Handlers, NEW k \in Keys, NEW offset \in Offsets, Receive(h, k, offset)
      PROVE  TypeOK'
  <2> DEFINE commit == [id |-> count + 1, offset |-> offset]
  <2>1. commit \in Commit /\ count + 1 \in Nat
    BY DEF TypeOK, Commit
  <2>2. handler' = [handler EXCEPT ![h] =
                      [pc |-> "persist", key |-> k, commit |-> commit, before |-> settled]]
    BY <1>2 DEF Receive
  <2>3. standing' = [standing EXCEPT ![k] = @ \cup {commit}]
    BY <1>2 DEF Receive
  <2> HIDE DEF commit
  <2>4. [pc |-> "persist", key |-> k, commit |-> commit, before |-> settled] \in Busy
    BY <2>1 DEF Busy, TypeOK
  <2>5. handler' \in [Handlers -> Busy \cup {Idle}]
    BY <2>2, <2>4 DEF TypeOK
  <2>6. standing' \in [Keys -> SUBSET Commit]
    BY <2>1, <2>3 DEF TypeOK
  <2> QED
    BY <1>2, <2>1, <2>5, <2>6 DEF TypeOK, Receive
<1>3. ASSUME NEW h \in Handlers, Persist(h)  PROVE TypeOK'
  <2>1. handler[h] \in Busy /\ handler[h].key \in Keys /\ handler[h].commit \in Commit
    BY <1>3, HandlerFields DEF Persist, At
  <2>2. [handler[h] EXCEPT !.pc = "cache"] \in Busy
    BY <1>3, <2>1 DEF Busy, Persist, At
  <2>3. handler' \in [Handlers -> Busy \cup {Idle}]
    BY <1>3, <2>2 DEF TypeOK, Persist
  <2>4. db' \in [Keys -> Commit]
    BY <1>3, <2>1 DEF TypeOK, Persist
  <2> QED
    BY <1>3, <2>3, <2>4 DEF TypeOK, Persist
<1>4. ASSUME NEW h \in Handlers, PersistFails(h)  PROVE TypeOK'
  <2>1. handler[h] \in Busy /\ handler[h].key \in Keys /\ handler[h].commit \in Commit
    BY <1>4, HandlerFields DEF PersistFails, At
  <2>2. handler' \in [Handlers -> Busy \cup {Idle}]
    BY <1>4 DEF TypeOK, PersistFails
  <2>3. standing' \in [Keys -> SUBSET Commit] /\ settled' \subseteq Commit
    BY <1>4, <2>1 DEF TypeOK, PersistFails
  <2> QED
    BY <1>4, <2>2, <2>3 DEF TypeOK, PersistFails
<1>5. ASSUME NEW h \in Handlers, UpdateCache(h)  PROVE TypeOK'
  <2>1. handler[h] \in Busy /\ handler[h].key \in Keys /\ handler[h].commit \in Commit
    BY <1>5, HandlerFields DEF UpdateCache, At
  <2>2. [handler[h] EXCEPT !.pc = "latest"] \in Busy
    BY <1>5, <2>1 DEF Busy, UpdateCache, At
  <2>3. handler' \in [Handlers -> Busy \cup {Idle}]
    BY <1>5, <2>2 DEF TypeOK, UpdateCache
  <2>4. cache' \in [Keys -> Commit]
    BY <1>5, <2>1 DEF TypeOK, UpdateCache
  <2> QED
    BY <1>5, <2>3, <2>4 DEF TypeOK, UpdateCache
<1>6. ASSUME NEW h \in Handlers, ReadLatest(h)  PROVE TypeOK'
  <2> DEFINE new == [pc |-> "gauge", key |-> handler[h].key, commit |-> handler[h].commit,
                     before |-> handler[h].before, latest |-> LatestOffset]
  <2>1. /\ handler[h].key \in Keys /\ handler[h].commit \in Commit
        /\ handler[h].before \subseteq Commit
    BY <1>6, HandlerFields DEF ReadLatest, At
  <2>2. LatestOffset \in Nat
    BY LatestType DEF TypeOK
  <2>3. new \in Busy
    BY <2>1, <2>2 DEF Busy
  <2>4. handler' = [handler EXCEPT ![h] = new]
    BY <1>6 DEF ReadLatest
  <2> HIDE DEF new
  <2>5. handler' \in [Handlers -> Busy \cup {Idle}]
    BY <2>3, <2>4 DEF TypeOK
  <2> QED
    BY <1>6, <2>5 DEF TypeOK, ReadLatest, GetPartition
<1>7. ASSUME NEW h \in Handlers, Respond(h) \/ RespondWithoutLag(h)  PROVE TypeOK'
  <2>1. /\ handler[h] \in Busy /\ handler[h].key \in Keys /\ handler[h].commit \in Commit
        /\ handler[h].commit.offset \in Nat
    BY <1>7, HandlerFields DEF Respond, RespondWithoutLag, At
  <2>2. Answer(h) /\ UNCHANGED <<up, db, cache, open, head, sweep, count, crashes>>
    BY <1>7 DEF Respond, RespondWithoutLag
  <2>3. handler' \in [Handlers -> Busy \cup {Idle}]
    BY <2>2 DEF TypeOK, Answer
  <2>4. standing' \in [Keys -> SUBSET Commit] /\ settled' \subseteq Commit
    BY <2>1, <2>2 DEF TypeOK, Answer
  <2>5. gauge' \in [Keys -> Nat \cup {Absent}]
    <3>1. CASE Respond(h)
      <4>1. handler[h].latest \in Nat
        BY <2>1, <3>1 DEF Busy, Respond, At
      <4>2. Lag(handler[h].latest, handler[h].commit.offset) \in Nat
        BY <2>1, <4>1, LagType
      <4> QED
        BY <2>1, <3>1, <4>2 DEF TypeOK, Respond
    <3>2. CASE RespondWithoutLag(h)
      BY <3>2 DEF TypeOK, RespondWithoutLag
    <3> QED
      BY <1>7, <3>1, <3>2
  <2> QED
    BY <2>2, <2>3, <2>4, <2>5 DEF TypeOK
<1>8. CASE SweepStarts
  <2>1. Snapshot \subseteq Entry
    BY DEF Snapshot, Entry, TypeOK, Commit
  <2>2. sweep' \in [todo : SUBSET Entry, latest : Nat \cup {Absent}]
    BY <1>8, <2>1 DEF TypeOK, SweepStarts
  <2> QED
    BY <1>8, <2>2 DEF TypeOK, SweepStarts
<1>9. CASE SweepReads
  <2>1. LatestOffset \in Nat
    BY LatestType DEF TypeOK
  <2>2. sweep' \in [todo : SUBSET Entry, latest : Nat \cup {Absent}]
    BY <1>9, <2>1 DEF TypeOK, SweepReads
  <2> QED
    BY <1>9, <2>2 DEF TypeOK, SweepReads, GetPartition
<1>14. ASSUME NEW e \in sweep.todo, SweepSkips(e)  PROVE TypeOK'
  <2>1. sweep' \in [todo : SUBSET Entry, latest : Nat \cup {Absent}]
    BY <1>14 DEF TypeOK, SweepSkips
  <2> QED
    BY <1>14, <2>1 DEF TypeOK, SweepSkips
<1>10. ASSUME NEW e \in sweep.todo, SweepSets(e)  PROVE TypeOK'
  <2>1. e \in Entry /\ sweep.latest \in Nat \cup {Absent}
    BY DEF TypeOK
  <2>2. e.key \in Keys /\ e.offset \in Nat /\ sweep.latest \in Nat
    BY <1>10, <2>1 DEF Entry, SweepSets
  <2>3. Lag(sweep.latest, e.offset) \in Nat
    BY <2>2, LagType
  <2>4. gauge' \in [Keys -> Nat \cup {Absent}]
    BY <1>10, <2>2, <2>3 DEF TypeOK, SweepSets
  <2>5. sweep' \in [todo : SUBSET Entry, latest : Nat \cup {Absent}]
    BY <1>10 DEF TypeOK, SweepSets
  <2> QED
    BY <1>10, <2>4, <2>5 DEF TypeOK, SweepSets
<1>11. CASE Crash
  <2>1. NoSweep \in [todo : SUBSET Entry, latest : Nat \cup {Absent}]
    BY DEF NoSweep
  <2>2. InFlight \subseteq Commit
    BY DEF InFlight, TypeOK, Busy
  <2>3. None \in Commit
    BY DEF None, Commit
  <2>4. /\ cache' \in [Keys -> Commit] /\ gauge' \in [Keys -> Nat \cup {Absent}]
        /\ handler' \in [Handlers -> Busy \cup {Idle}]
    BY <1>11, <2>3 DEF Crash
  <2>5. settled' \subseteq Commit /\ crashes' \in Nat
    BY <1>11, <2>2 DEF Crash, TypeOK
  <2> QED
    BY <1>11, <2>1, <2>4, <2>5 DEF TypeOK, Crash
<1>12. CASE Restart
  BY <1>12 DEF TypeOK, Restart
<1>13. CASE UNCHANGED vars
  BY <1>13 DEF TypeOK, vars
<1> QED
  BY <1>1, <1>2, <1>3, <1>4, <1>5, <1>6, <1>7, <1>8, <1>9, <1>10, <1>11, <1>12, <1>13, <1>14
  DEF Next, Serve, Sweep

-----------------------------------------------------------------------------
(***************************************************************************)
(* The order of commits is kept.                                           *)
(***************************************************************************)

\* Steps that do not touch commits.
LEMMA OrderUnchanged ==
  ASSUME Order, UNCHANGED <<up, db, cache, handler, count, standing, settled>>
  PROVE  Order'
  BY DEF Order, Fresh, Distinct, Numbered, Unwritten, Pending, NewerInDb, NewerInCache, DownIdle,
         StandingCommit, Running

\* A new commit has a number that nothing has yet.
LEMMA ReceiveStep ==
  ASSUME Inv, TypeOK', NEW h \in Handlers, NEW k \in Keys, NEW offset \in Offsets,
         Receive(h, k, offset)
  PROVE  Order'
<1> DEFINE commit == [id |-> count + 1, offset |-> offset]
<1>0. TypeOK /\ Order
  BY DEF Inv
<1>1. commit.id = count + 1 /\ count \in Nat
  BY DEF Inv, TypeOK
<1>2. handler' = [handler EXCEPT ![h] =
                    [pc |-> "persist", key |-> k, commit |-> commit, before |-> settled]]
  BY DEF Receive
<1>3. standing' = [standing EXCEPT ![k] = @ \cup {commit}]
  BY DEF Receive
<1>4. /\ handler'[h].pc = "persist" /\ handler'[h].key = k /\ handler'[h].commit = commit
      /\ handler'[h].before = settled
      /\ \A g \in Handlers \ {h} : handler'[g] = handler[g]
  BY <1>0, <1>2 DEF TypeOK
<1>5. handler[h] = Idle /\ up /\ count' = count + 1 /\ UNCHANGED <<up, db, cache, settled>>
  BY DEF Receive
<1> HIDE DEF commit
<1>6. /\ commit \notin settled
      /\ \A j \in Keys : db[j] # commit /\ cache[j] # commit
      /\ \A g \in Handlers : Running(g) => handler[g].commit # commit
  <2>1. ~(count + 1 <= count)
    BY <1>1
  <2> QED
    BY <1>0, <1>1, <2>1 DEF Order, Numbered, Fresh
<1>7. \A n \in Int : n <= count => n <= count'
  BY <1>1, <1>5
<1>8. \A g \in Handlers : g # h => (Running(g)' <=> Running(g))
  BY <1>4 DEF Running
<1>9. Fresh'
  <2>1. ASSUME NEW g \in Handlers, g # h, Running(g)
        PROVE  /\ handler'[g].commit.id <= count' /\ handler'[g].commit \notin settled'
               /\ handler'[g].before \subseteq settled'
    <3>1. handler[g].commit.id \in Nat
      BY <1>0, <2>1, HandlerFields, RunningPc DEF Pcs
    <3> QED
      BY <1>0, <1>4, <1>5, <1>7, <2>1, <3>1 DEF Order, Fresh
  <2>2. commit.id <= count'
    BY <1>1, <1>5
  <2> QED
    BY <1>4, <1>5, <1>6, <1>8, <2>1, <2>2 DEF Fresh
<1>10. Distinct'
  BY <1>0, <1>4, <1>6, <1>8 DEF Order, Distinct
<1>11. Numbered'
  <2>1. \A s \in settled : s.id \in Int
    BY <1>0 DEF TypeOK, Commit
  <2>2. \A j \in Keys : db[j].id \in Int /\ cache[j].id \in Int
    BY <1>0 DEF TypeOK, Commit
  <2> QED
    BY <1>0, <1>5, <1>7, <2>1, <2>2 DEF Order, Numbered
<1>12. Unwritten'
  BY <1>0, <1>4, <1>5, <1>6 DEF Order, Unwritten
<1>13. standing'[k] = standing[k] \cup {commit} /\ \A j \in Keys : standing[j] \subseteq standing'[j]
  BY <1>0, <1>3 DEF TypeOK
<1>14. Pending'
  <2>1. ASSUME NEW g \in Handlers, g # h, handler[g].pc \in {"persist", "cache"}
        PROVE  handler'[g].commit \in standing'[handler'[g].key]
    <3>1. handler[g].key \in Keys
      BY <1>0, <2>1, HandlerFields
    <3> QED
      BY <1>0, <1>4, <1>13, <2>1, <3>1 DEF Order, Pending
  <2> QED
    BY <1>4, <1>13, <2>1 DEF Pending
<1>15. NewerInDb' /\ NewerInCache'
  BY <1>0, <1>4, <1>5 DEF Order, NewerInDb, NewerInCache
<1>16. DownIdle' /\ StandingCommit'
  BY <1>0, <1>5, <1>13 DEF Order, DownIdle, StandingCommit
<1> QED
  BY <1>9, <1>10, <1>11, <1>12, <1>14, <1>15, <1>16 DEF Order

\* The transaction: what it writes is not settled, so nobody waits to replace it.
LEMMA PersistStep ==
  ASSUME Inv, NEW h \in Handlers, Persist(h)
  PROVE  Order'
<1>0. TypeOK /\ Order
  BY DEF Inv
<1> DEFINE k == handler[h].key  commit == handler[h].commit
<1>1. k \in Keys /\ Running(h) /\ handler[h].pc = "persist"
  BY <1>0, HandlerFields DEF Persist, At
<1>2. /\ db'[k] = commit
      /\ \A j \in Keys \ {k} : db'[j] = db[j]
  BY <1>0, <1>1 DEF Persist, TypeOK
<1>3. /\ handler'[h].pc = "cache" /\ handler'[h].key = k /\ handler'[h].commit = commit
      /\ handler'[h].before = handler[h].before
      /\ \A g \in Handlers \ {h} : handler'[g] = handler[g]
  BY <1>0, <1>1 DEF Persist, TypeOK, Busy, Idle
<1>4. up /\ UNCHANGED <<up, cache, count, standing, settled>>
  BY DEF Persist, At
<1>5. commit \notin settled /\ commit.id <= count /\ commit \in standing[k]
  BY <1>0, <1>1 DEF Order, Fresh, Pending
<1>6. \A g \in Handlers : Running(g)' <=> Running(g)
  <2>1. handler'[h] # Idle
    BY <1>3 DEF Idle
  <2> QED
    BY <1>1, <1>3, <2>1 DEF Running
<1>7. \A g \in Handlers : /\ handler'[g].commit = handler[g].commit
                          /\ handler'[g].before = handler[g].before
                          /\ handler'[g].key = handler[g].key
  BY <1>3
<1> HIDE DEF k, commit
<1>8. Fresh' /\ Distinct'
  BY <1>0, <1>4, <1>6, <1>7 DEF Order, Fresh, Distinct
<1>9. Numbered'
  BY <1>0, <1>2, <1>4, <1>5 DEF Order, Numbered
<1>10. Unwritten'
  <2>1. ASSUME NEW g \in Handlers, g # h, handler[g].pc = "persist"  PROVE handler[g].commit # commit
    BY <1>0, <1>1, <2>1, HandlerFields DEF Order, Distinct, commit
  <2> QED
    BY <1>0, <1>2, <1>3, <1>4, <2>1 DEF Order, Unwritten
<1>11. Pending'
  BY <1>0, <1>3, <1>4, <1>5 DEF Order, Pending
<1>12. NewerInDb'
  <2>1. ASSUME NEW g \in Handlers, Running(g)  PROVE commit \notin handler[g].before
    BY <1>0, <1>5, <2>1 DEF Order, Fresh
  <2>2. ASSUME NEW g \in Handlers, handler'[g].pc \in {"cache", "latest", "gauge"}
        PROVE  db'[handler'[g].key] \notin handler'[g].before
    <3>1. CASE g = h
      BY <1>1, <1>2, <1>3, <2>1, <3>1
    <3>2. CASE g # h
      <4>1. handler[g].pc \in {"cache", "latest", "gauge"} /\ handler[g].key \in Keys /\ Running(g)
        BY <1>0, <1>3, <2>2, <3>2, HandlerFields
      <4> QED
        BY <1>0, <1>2, <1>3, <2>1, <3>2, <4>1 DEF Order, NewerInDb
    <3> QED
      BY <3>1, <3>2
  <2> QED
    BY <2>2 DEF NewerInDb
<1>13. NewerInCache'
  BY <1>0, <1>3, <1>4 DEF Order, NewerInCache
<1>14. DownIdle' /\ StandingCommit'
  BY <1>0, <1>2, <1>4, <1>5 DEF Order, DownIdle, StandingCommit
<1> QED
  BY <1>8, <1>9, <1>10, <1>11, <1>12, <1>13, <1>14 DEF Order

\* The cache is written like the database.
LEMMA UpdateCacheStep ==
  ASSUME Inv, NEW h \in Handlers, UpdateCache(h)
  PROVE  Order'
<1>0. TypeOK /\ Order
  BY DEF Inv
<1> DEFINE k == handler[h].key  commit == handler[h].commit
<1>1. k \in Keys /\ Running(h) /\ handler[h].pc = "cache"
  BY <1>0, HandlerFields DEF UpdateCache, At
<1>2. /\ cache'[k] = commit
      /\ \A j \in Keys \ {k} : cache'[j] = cache[j]
  BY <1>0, <1>1 DEF UpdateCache, TypeOK
<1>3. /\ handler'[h].pc = "latest" /\ handler'[h].key = k /\ handler'[h].commit = commit
      /\ handler'[h].before = handler[h].before
      /\ \A g \in Handlers \ {h} : handler'[g] = handler[g]
  BY <1>0, <1>1 DEF UpdateCache, TypeOK, Busy, Idle
<1>4. up /\ UNCHANGED <<up, db, count, standing, settled>>
  BY DEF UpdateCache, At
<1>5. commit \notin settled /\ commit.id <= count /\ commit \in standing[k]
  BY <1>0, <1>1 DEF Order, Fresh, Pending
<1>6. \A g \in Handlers : Running(g)' <=> Running(g)
  <2>1. handler'[h] # Idle
    BY <1>3 DEF Idle
  <2> QED
    BY <1>1, <1>3, <2>1 DEF Running
<1>7. \A g \in Handlers : /\ handler'[g].commit = handler[g].commit
                          /\ handler'[g].before = handler[g].before
                          /\ handler'[g].key = handler[g].key
  BY <1>3
<1> HIDE DEF k, commit
<1>8. Fresh' /\ Distinct'
  BY <1>0, <1>4, <1>6, <1>7 DEF Order, Fresh, Distinct
<1>9. Numbered'
  BY <1>0, <1>2, <1>4, <1>5 DEF Order, Numbered
<1>10. Unwritten'
  <2>1. ASSUME NEW g \in Handlers, g # h, handler[g].pc = "persist"  PROVE handler[g].commit # commit
    BY <1>0, <1>1, <2>1, HandlerFields DEF Order, Distinct, commit
  <2> QED
    BY <1>0, <1>2, <1>3, <1>4, <2>1 DEF Order, Unwritten
<1>11. Pending'
  BY <1>0, <1>3, <1>4 DEF Order, Pending
<1>12. NewerInDb'
  BY <1>0, <1>1, <1>3, <1>4 DEF Order, NewerInDb, k
<1>13. NewerInCache'
  <2>1. ASSUME NEW g \in Handlers, Running(g)  PROVE commit \notin handler[g].before
    BY <1>0, <1>5, <2>1 DEF Order, Fresh
  <2>2. ASSUME NEW g \in Handlers, handler'[g].pc \in {"latest", "gauge"}
        PROVE  cache'[handler'[g].key] \notin handler'[g].before
    <3>1. CASE g = h
      BY <1>1, <1>2, <1>3, <2>1, <3>1
    <3>2. CASE g # h
      <4>1. handler[g].pc \in {"latest", "gauge"} /\ handler[g].key \in Keys /\ Running(g)
        BY <1>0, <1>3, <2>2, <3>2, HandlerFields
      <4> QED
        BY <1>0, <1>2, <1>3, <2>1, <3>2, <4>1 DEF Order, NewerInCache
    <3> QED
      BY <3>1, <3>2
  <2> QED
    BY <2>2 DEF NewerInCache
<1>14. DownIdle' /\ StandingCommit'
  BY <1>0, <1>2, <1>4, <1>5 DEF Order, DownIdle, StandingCommit
<1> QED
  BY <1>8, <1>9, <1>10, <1>11, <1>12, <1>13, <1>14 DEF Order

\* Reading the latest offset leaves the commits alone.
LEMMA ReadLatestStep ==
  ASSUME Inv, NEW h \in Handlers, ReadLatest(h)
  PROVE  Order'
<1>0. TypeOK /\ Order
  BY DEF Inv
<1>1. Running(h) /\ handler[h].pc = "latest"
  BY <1>0, HandlerFields DEF ReadLatest, At
<1>2. /\ handler'[h].pc = "gauge" /\ handler'[h].key = handler[h].key
      /\ handler'[h].commit = handler[h].commit /\ handler'[h].before = handler[h].before
      /\ \A g \in Handlers \ {h} : handler'[g] = handler[g]
  BY <1>0 DEF ReadLatest, TypeOK
<1>3. up /\ UNCHANGED <<up, db, cache, count, standing, settled>>
  BY DEF ReadLatest, At
<1>4. \A g \in Handlers : Running(g)' <=> Running(g)
  <2>1. handler'[h] # Idle
    BY <1>2 DEF Idle
  <2> QED
    BY <1>1, <1>2, <2>1 DEF Running
<1>5. \A g \in Handlers : /\ handler'[g].commit = handler[g].commit
                          /\ handler'[g].before = handler[g].before
                          /\ handler'[g].key = handler[g].key
  BY <1>2
<1>6. Fresh' /\ Distinct'
  BY <1>0, <1>3, <1>4, <1>5 DEF Order, Fresh, Distinct
<1>7. Numbered' /\ Unwritten' /\ Pending'
  BY <1>0, <1>2, <1>3 DEF Order, Numbered, Unwritten, Pending
<1>8. NewerInDb' /\ NewerInCache'
  BY <1>0, <1>1, <1>2, <1>3 DEF Order, NewerInDb, NewerInCache
<1>9. DownIdle' /\ StandingCommit'
  BY <1>0, <1>3 DEF Order, DownIdle, StandingCommit
<1> QED
  BY <1>6, <1>7, <1>8, <1>9 DEF Order

\* A handler that returns settles its commit and replaces old ones: those it had
\* found settled, or its own that failed.  None of them is what the database or
\* the cache holds, nor what another handler is about to write.
LEMMA ReturnStep ==
  ASSUME Inv, NEW h \in Handlers, PersistFails(h) \/ Respond(h) \/ RespondWithoutLag(h)
  PROVE  Order'
<1>0. TypeOK /\ Order
  BY DEF Inv
<1> DEFINE k == handler[h].key  commit == handler[h].commit
           gone == IF handler[h].pc = "persist" THEN {commit} ELSE handler[h].before
<1>1. /\ k \in Keys /\ Running(h)
      /\ \/ PersistFails(h) /\ handler[h].pc = "persist"
         \/ /\ Answer(h) /\ handler[h].pc \in {"latest", "gauge"}
            /\ up /\ UNCHANGED <<up, db, cache, count>>
  BY <1>0, HandlerFields DEF PersistFails, Respond, RespondWithoutLag, At
<1>2. standing' = [standing EXCEPT ![k] = @ \ gone]
  BY <1>1 DEF PersistFails, Answer
<1>3. /\ handler' = [handler EXCEPT ![h] = Idle] /\ settled' = settled \cup {commit}
      /\ up /\ UNCHANGED <<up, db, cache, count>>
  BY <1>1 DEF PersistFails, Answer, At
<1>4. /\ handler'[h] = Idle
      /\ \A g \in Handlers \ {h} : handler'[g] = handler[g]
  BY <1>0, <1>3 DEF TypeOK
<1>5. handler'[h].pc = "idle"
  BY <1>4 DEF Idle
<1>6. \A g \in Handlers : Running(g)' => Running(g) /\ g # h
  BY <1>4 DEF Running
<1>7. commit.id <= count
  BY <1>0, <1>1 DEF Order, Fresh
<1>8. ASSUME NEW g \in Handlers, Running(g), g # h
      PROVE  handler[g].commit # commit /\ handler[g].commit \notin gone
  <2>1. handler[g].commit # commit /\ handler[g].commit \notin settled
    BY <1>0, <1>1, <1>8 DEF Order, Distinct, Fresh
  <2>2. handler[h].before \subseteq settled
    BY <1>0, <1>1 DEF Order, Fresh
  <2> QED
    BY <2>1, <2>2
<1>9. db[k] \notin gone /\ cache[k] \notin gone
  <2>1. CASE handler[h].pc = "persist"
    BY <1>0, <1>1, <2>1 DEF Order, Unwritten
  <2>2. CASE handler[h].pc \in {"latest", "gauge"}
    BY <1>0, <1>1, <2>2 DEF Order, NewerInDb, NewerInCache
  <2> QED
    BY <1>1, <2>1, <2>2
<1> HIDE DEF gone
<1>10. \A j \in Keys : standing'[j] = IF j = k THEN standing[j] \ gone ELSE standing[j]
  BY <1>0, <1>1, <1>2 DEF TypeOK
<1>11. Fresh'
  BY <1>0, <1>3, <1>4, <1>6, <1>8 DEF Order, Fresh
<1>12. Distinct'
  BY <1>0, <1>4, <1>6 DEF Order, Distinct
<1>13. Numbered'
  BY <1>0, <1>3, <1>7 DEF Order, Numbered
<1>14. Unwritten'
  BY <1>0, <1>3, <1>4, <1>5 DEF Order, Unwritten
<1>15. Pending'
  <2>1. ASSUME NEW g \in Handlers, handler'[g].pc \in {"persist", "cache"}
        PROVE  handler'[g].commit \in standing'[handler'[g].key]
    <3>1. g # h /\ handler'[g] = handler[g]
      BY <1>4, <1>5, <2>1
    <3>2. Running(g) /\ handler[g].key \in Keys
      BY <1>0, <2>1, <3>1, HandlerFields
    <3>3. handler[g].commit \notin gone
      BY <1>8, <3>1, <3>2
    <3>4. handler[g].commit \in standing[handler[g].key]
      BY <1>0, <2>1, <3>1 DEF Order, Pending
    <3> QED
      BY <1>10, <3>1, <3>2, <3>3, <3>4
  <2> QED
    BY <2>1 DEF Pending
<1>16. NewerInDb' /\ NewerInCache'
  BY <1>0, <1>3, <1>4, <1>5 DEF Order, NewerInDb, NewerInCache
<1>17. DownIdle'
  BY <1>3 DEF DownIdle
<1>18. StandingCommit'
  BY <1>0, <1>3, <1>9, <1>10 DEF Order, StandingCommit
<1> QED
  BY <1>11, <1>12, <1>13, <1>14, <1>15, <1>16, <1>17, <1>18 DEF Order

\* A crash settles what was running and leaves the database.
LEMMA CrashStep ==
  ASSUME Inv, Crash
  PROVE  Order'
<1>0. TypeOK /\ Order
  BY DEF Inv
<1>1. \A h \in Handlers : handler'[h] = Idle
  BY DEF Crash
<1>2. \A h \in Handlers : ~Running(h)' /\ handler'[h].pc = "idle"
  BY <1>1 DEF Running, Idle
<1>3. \A s \in InFlight : s.id <= count
  BY <1>0 DEF InFlight, Order, Fresh, Running
<1>4. \A k \in Keys : cache'[k].id <= count
  <2>1. None.id = 0 /\ count \in Nat
    BY <1>0 DEF None, TypeOK
  <2> QED
    BY <2>1 DEF Crash
<1>5. Numbered'
  BY <1>0, <1>3, <1>4 DEF Crash, Order, Numbered
<1>6. /\ Fresh' /\ Distinct' /\ Unwritten' /\ Pending' /\ NewerInDb' /\ NewerInCache'
      /\ DownIdle'
  BY <1>2 DEF Fresh, Distinct, Unwritten, Pending, NewerInDb, NewerInCache, DownIdle
<1>7. StandingCommit'
  BY <1>0 DEF Crash, Order, StandingCommit
<1> QED
  BY <1>5, <1>6, <1>7 DEF Order

\* The database that is loaded holds standing commits.
LEMMA RestartStep ==
  ASSUME Inv, Restart
  PROVE  Order'
<1>0. TypeOK /\ Order
  BY DEF Inv
<1>1. \A h \in Handlers : handler'[h] = handler[h] /\ ~Running(h)
  BY <1>0 DEF Restart, Order, DownIdle
<1>2. \A h \in Handlers : ~Running(h)' /\ handler'[h].pc = "idle"
  BY <1>1 DEF Running, Idle
<1>3. Fresh' /\ Distinct' /\ Unwritten' /\ Pending' /\ NewerInDb' /\ NewerInCache' /\ DownIdle'
  BY <1>2 DEF Fresh, Distinct, Unwritten, Pending, NewerInDb, NewerInCache, DownIdle
<1>4. Numbered' /\ StandingCommit'
  BY <1>0 DEF Restart, Order, Numbered, StandingCommit
<1> QED
  BY <1>3, <1>4 DEF Order

\* Inv holds at the start: no commit was received.
LEMMA InvInit == Init => Inv
<1> SUFFICES ASSUME Init PROVE Inv
  OBVIOUS
<1>1. None \in Commit /\ None.id = 0
  BY DEF None, Commit
<1>2. NoSweep \in [todo : SUBSET Entry, latest : Nat \cup {Absent}]
  BY DEF NoSweep
<1>3. /\ db \in [Keys -> Commit] /\ cache \in [Keys -> Commit]
      /\ gauge \in [Keys -> Nat \cup {Absent}]
      /\ handler \in [Handlers -> Busy \cup {Idle}]
      /\ standing \in [Keys -> SUBSET Commit]
  BY <1>1 DEF Init
<1>4. TypeOK
  BY <1>1, <1>2, <1>3 DEF Init, TypeOK
<1>5. \A h \in Handlers : ~Running(h) /\ handler[h].pc = "idle"
  BY DEF Init, Running, Idle
<1>6. Fresh /\ Distinct /\ Unwritten /\ Pending /\ NewerInDb /\ NewerInCache /\ DownIdle
  BY <1>5 DEF Fresh, Distinct, Unwritten, Pending, NewerInDb, NewerInCache, DownIdle
<1>7. Numbered /\ StandingCommit
  BY <1>1 DEF Init, Numbered, StandingCommit
<1> QED
  BY <1>4, <1>6, <1>7 DEF Inv, Order

\* The order of commits is an invariant of the store and its handlers.
THEOREM Invariance == Spec => []Inv
<1>1. ASSUME Inv, [Next]_vars  PROVE Inv'
  <2>0. TypeOK' /\ Order
    BY <1>1, TypeStep DEF Inv
  <2>1. CASE OpenTopic \/ Produce \/ SweepStarts \/ SweepReads \/ UNCHANGED vars
    BY <2>0, <2>1, OrderUnchanged DEF Inv, OpenTopic, Produce, SweepStarts, SweepReads, vars
  <2>2. ASSUME NEW e \in sweep.todo, SweepSkips(e) \/ SweepSets(e)  PROVE Inv'
    BY <2>0, <2>2, OrderUnchanged DEF Inv, SweepSkips, SweepSets
  <2>3. ASSUME NEW h \in Handlers, NEW k \in Keys, NEW offset \in Offsets, Receive(h, k, offset)
        PROVE  Inv'
    BY <1>1, <2>0, <2>3, ReceiveStep DEF Inv
  <2>4. ASSUME NEW h \in Handlers, Serve(h)  PROVE Inv'
    BY <1>1, <2>0, <2>4, PersistStep, UpdateCacheStep, ReadLatestStep, ReturnStep DEF Inv, Serve
  <2>5. CASE Crash \/ Restart
    BY <1>1, <2>0, <2>5, CrashStep, RestartStep DEF Inv
  <2> QED
    BY <1>1, <2>1, <2>2, <2>3, <2>4, <2>5 DEF Next, Sweep
<1> QED
  BY <1>1, InvInit, PTL DEF Spec

\* The store, the gauges and the handlers keep their types; the lag never
\* becomes negative, whatever a client commits.
THEOREM TypeCorrect == Spec => []TypeOK
<1>1. Inv => TypeOK
  BY DEF Inv
<1> QED
  BY <1>1, Invariance, PTL

\* No group goes back: the database and the cache hold a commit that no later
\* acknowledged one replaced and that was not refused.
THEOREM NeverGoesBack == Spec => []StandingCommit
<1>1. Inv => StandingCommit
  BY DEF Inv, Order
<1> QED
  BY <1>1, Invariance, PTL

=============================================================================
