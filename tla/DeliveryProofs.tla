--------------------------- MODULE DeliveryProofs ---------------------------
(***************************************************************************)
(* What a consumer group gets, for any number of clients, records, faults  *)
(* and configuration changes.                                              *)
(*                                                                         *)
(* At least once rests on one fact about every offset that is anywhere on  *)
(* its way, in the database, in the cache or in a call: all records below  *)
(* it were printed.  Exactly once rests on Calm, which says how far the    *)
(* only client of an undisturbed group has got.                            *)
(***************************************************************************)
EXTENDS Delivery, TLAPS

Below(S, n) == \A o \in Nat : o < n => o \in S

OffsetsPrinted ==
  /\ Below(printed, db) /\ Below(printed, cache)
  /\ \A r \in requests : Below(printed, r.offset)

Inv == TypeOK /\ OffsetsPrinted

-----------------------------------------------------------------------------
(***************************************************************************)
(* Types.                                                                  *)
(***************************************************************************)
Types ==
  /\ compressed \in BOOLEAN
  /\ up \in BOOLEAN /\ topicOpen \in BOOLEAN /\ sweeping \in BOOLEAN
  /\ config \in Config
  /\ client \in [Clients -> {"exit", "fetch", "wait"}]
  /\ printed \subseteq Nat
  /\ shared \in BOOLEAN
  /\ changes \in Nat /\ faults \in Nat

LogTypes == first \in Nat /\ content \in Seq(BOOLEAN)

OffsetTypes == db \in Nat /\ cache \in Nat /\ requests \subseteq Request

\* TypeOK in parts that different actions disturb.
LEMMA TypeParts == TypeOK <=> Types /\ LogTypes /\ OffsetTypes
  BY DEF TypeOK, Types, LogTypes, OffsetTypes

\* Where a client may be after a round.
LEMMA NextRoundType == \A c : NextRound(c) \in {"exit", "fetch"}
  BY DEF NextRound

\* A client that is told the end of its round is somewhere in its loop.
LEMMA EndRoundType ==
  ASSUME Types, NEW c \in Clients \cup {NoClient}, EndRound(c)
  PROVE  client' \in [Clients -> {"exit", "fetch", "wait"}]
  BY NextRoundType DEF Types, EndRound

\* The log of a partition grows and shrinks as a sequence.
LEMMA LogStep ==
  ASSUME LogTypes, \/ UNCHANGED log
                   \/ Log!Extend(1)
                   \/ \E n \in 1..Len(content) : Log!Trim(n)
  PROVE  LogTypes'
<1>1. CASE UNCHANGED log
  BY <1>1 DEF LogTypes, log
<1>2. CASE Log!Extend(1)
  <2>1. Len(content) + 1 \in Nat
    BY DEF LogTypes
  <2>2. content' \in [1..(Len(content) + 1) -> BOOLEAN]
    BY <1>2 DEF Log!Extend
  <2>3. content' \in Seq(BOOLEAN)
    BY <2>1, <2>2
  <2> QED
    BY <1>2, <2>3 DEF LogTypes, Log!Extend
<1>3. CASE \E n \in 1..Len(content) : Log!Trim(n)
  <2>1. PICK n \in 1..Len(content) : Log!Trim(n)
    BY <1>3
  <2>2. first' \in Nat
    BY <2>1 DEF LogTypes, Log!Trim
  <2>3. content' \in Seq(BOOLEAN)
    BY <2>1 DEF LogTypes, Log!Trim
  <2> QED
    BY <2>2, <2>3 DEF LogTypes
<1> QED
  BY <1>1, <1>2, <1>3

\* The fields of a call in its handler.
LEMMA RequestFields ==
  ASSUME OffsetTypes, NEW r \in requests
  PROVE  /\ r \in Request
         /\ r.from \in Clients \cup {NoClient}
         /\ r.offset \in Nat
         /\ r.zip \in BOOLEAN
         /\ r.for \in {"consume", "commit", "apply", "other"}
         /\ r.at \in {"lookup", "configure", "use", "persist", "cache"}
  BY DEF OffsetTypes, Request

\* A step of a handler leaves a call of the right type, or none.
LEMMA BecomesType ==
  ASSUME OffsetTypes, NEW r \in requests, NEW s \in Request, Becomes(r, s)
  PROVE  requests' \subseteq Request
  BY DEF OffsetTypes, Becomes

\* A call of the broker's own is a call.
LEMMA InternalType ==
  ASSUME NEW purpose \in {"apply", "other"}
  PROVE  Internal(purpose) \in Request /\ Internal(purpose).offset = 0
  BY DEF Internal, Request

\* A call that ends leaves the others.
LEMMA FinishType ==
  ASSUME Types, OffsetTypes, NEW r \in requests, Finish(r)
  PROVE  /\ requests' \subseteq Request
         /\ client' \in [Clients -> {"exit", "fetch", "wait"}]
  BY RequestFields, EndRoundType DEF OffsetTypes, Finish

\* A call that has lost its client is a call.
LEMMA OrphanType ==
  ASSUME OffsetTypes, NEW r \in requests
  PROVE  /\ WithoutClient(r) \in Request
         /\ WithoutClient(r).offset \in {0, r.offset}
  BY RequestFields DEF WithoutClient, Request

\* What a client leaves behind in the broker.
LEMMA AbandonedType ==
  ASSUME OffsetTypes, NEW c, Abandoned(Of(c))
  PROVE  requests' \subseteq Request
<1>1. requests \ Of(c) \subseteq Request
  BY DEF OffsetTypes
<1>2. {WithoutClient(r) : r \in {s \in Of(c) : s.at # "use"}} \subseteq Request
  BY OrphanType DEF Of
<1> QED
  BY <1>1, <1>2 DEF Abandoned

-----------------------------------------------------------------------------
(***************************************************************************)
(* Types are kept.                                                         *)
(***************************************************************************)

\* Every variable keeps its type, for every set of clients and every bound.
LEMMA TypeStep == TypeOK /\ [Next]_vars => TypeOK'
<1> SUFFICES ASSUME TypeOK, [Next]_vars PROVE TypeOK'
  OBVIOUS
<1> USE DeliveryAssumption
<1>0. Types /\ LogTypes /\ OffsetTypes
  BY TypeParts
<1>q. SUFFICES Types' /\ LogTypes' /\ OffsetTypes'
  BY TypeParts DEF TypeOK, Types, LogTypes, OffsetTypes
<1>1. ASSUME NEW c \in Clients, Start(c)  PROVE Types' /\ LogTypes' /\ OffsetTypes'
  BY <1>0, <1>1 DEF Start, Types, LogTypes, OffsetTypes, log, broker, offsets
<1>2. ASSUME NEW c \in Clients, Fetch(c)  PROVE Types' /\ LogTypes' /\ OffsetTypes'
  <2>1. [for |-> "consume", from |-> c, at |-> "lookup", offset |-> FetchOffset, zip |-> FALSE]
          \in Request
    BY <1>0 DEF Request, FetchOffset, OffsetTypes
  <2>2. requests' \subseteq Request
    BY <1>0, <1>2, <2>1 DEF Fetch, OffsetTypes
  <2> QED
    BY <1>0, <1>2, <2>2 DEF Fetch, Types, LogTypes, OffsetTypes, log, broker, offsets
<1>3. ASSUME NEW c \in Clients, FetchRefused(c)  PROVE Types' /\ LogTypes' /\ OffsetTypes'
  BY <1>0, <1>3, EndRoundType
     DEF FetchRefused, Types, LogTypes, OffsetTypes, log, broker, offsets
<1>4. ASSUME NEW c \in Clients, Disconnect(c)  PROVE Types' /\ LogTypes' /\ OffsetTypes'
  BY <1>0, <1>4, EndRoundType, AbandonedType
     DEF Disconnect, Fault, Types, LogTypes, OffsetTypes, log, broker, offsets
<1>5. ASSUME NEW c \in Clients, Kill(c)  PROVE Types' /\ LogTypes' /\ OffsetTypes'
  BY <1>0, <1>5, AbandonedType
     DEF Kill, Fault, Types, LogTypes, OffsetTypes, log, broker, offsets
<1>6. ASSUME NEW r \in requests, TopicConfig(r)  PROVE Types' /\ LogTypes' /\ OffsetTypes'
  <2>0. r \in Request
    BY <1>0, RequestFields
  <2>1. [r EXCEPT !.at = "configure", !.zip = config.compressed] \in Request
    BY <1>0, <2>0 DEF Request, Types, Config
  <2>2. requests' \subseteq Request
    BY <1>0, <1>6, <2>1, BecomesType DEF TopicConfig
  <2>3. Types'
    BY <1>0, <1>6 DEF TopicConfig, Types
  <2> QED
    BY <1>0, <1>6, <2>2, <2>3 DEF TopicConfig, LogTypes, OffsetTypes, log, offsets
<1>7. ASSUME NEW r \in requests, SetCompressed(r)  PROVE Types' /\ LogTypes' /\ OffsetTypes'
  <2>0. r \in Request
    BY <1>0, RequestFields
  <2>1. [r EXCEPT !.at = "use", !.zip = FALSE] \in Request
    BY <2>0 DEF Request
  <2>2. requests' \subseteq Request /\ client' \in [Clients -> {"exit", "fetch", "wait"}]
    <3>1. CASE r.for \in {"consume", "apply"}
      BY <1>0, <1>7, <2>1, <3>1, BecomesType DEF SetCompressed, Types
    <3>2. CASE r.for \notin {"consume", "apply"}
      BY <1>0, <1>7, <3>2, FinishType DEF SetCompressed
    <3> QED
      BY <3>1, <3>2
  <2>3. compressed' \in BOOLEAN
    BY <1>0, <1>7, RequestFields DEF SetCompressed
  <2> QED
    BY <1>0, <1>7, <2>2, <2>3
       DEF SetCompressed, Types, LogTypes, OffsetTypes, log, broker, offsets
<1>8. ASSUME NEW r \in requests, Consume(r)  PROVE Types' /\ LogTypes' /\ OffsetTypes'
  <2>0. r \in Request
    BY <1>0, RequestFields
  <2>1. CommitOf(r) \in Request
    <3>1. r.offset + 1 \in Nat
      BY <2>0 DEF Request
    <3> QED
      BY <2>0, <3>1 DEF Request, CommitOf
  <2>2. requests' \subseteq Request
    BY <1>0, <1>8, <2>1, BecomesType DEF Consume
  <2>3. printed' \subseteq Nat
    BY <1>0, <1>8, RequestFields DEF Consume, Types
  <2> QED
    BY <1>0, <1>8, <2>2, <2>3 DEF Consume, Types, LogTypes, OffsetTypes, log, broker, offsets
<1>9. ASSUME NEW r \in requests, ConsumeFails(r)  PROVE Types' /\ LogTypes' /\ OffsetTypes'
  BY <1>0, <1>9, FinishType
     DEF ConsumeFails, Types, LogTypes, OffsetTypes, log, broker, offsets
<1>10. ASSUME NEW r \in requests, Persist(r)  PROVE Types' /\ LogTypes' /\ OffsetTypes'
  <2>0. r \in Request
    BY <1>0, RequestFields
  <2>1. [r EXCEPT !.at = "cache"] \in Request
    BY <2>0 DEF Request
  <2>2. requests' \subseteq Request
    BY <1>0, <1>10, <2>1, BecomesType DEF Persist
  <2>3. db' \in Nat
    BY <1>0, <1>10, RequestFields DEF Persist
  <2> QED
    BY <1>0, <1>10, <2>2, <2>3 DEF Persist, Types, LogTypes, OffsetTypes, log, broker
<1>11. ASSUME NEW r \in requests, PersistFails(r)  PROVE Types' /\ LogTypes' /\ OffsetTypes'
  BY <1>0, <1>11, FinishType
     DEF PersistFails, Fault, Types, LogTypes, OffsetTypes, log, broker, offsets
<1>12. ASSUME NEW r \in requests, UpdateCache(r)  PROVE Types' /\ LogTypes' /\ OffsetTypes'
  <2>0. r \in Request
    BY <1>0, RequestFields
  <2>1. [r EXCEPT !.at = "lookup"] \in Request
    BY <2>0 DEF Request
  <2>2. requests' \subseteq Request
    BY <1>0, <1>12, <2>1, BecomesType, InternalType DEF UpdateCache
  <2>3. cache' \in Nat
    BY <1>0, <1>12, RequestFields DEF UpdateCache
  <2> QED
    BY <1>0, <1>12, <2>2, <2>3 DEF UpdateCache, Types, LogTypes, OffsetTypes, log, broker
<1>13. ASSUME Apply \/ OtherCall  PROVE Types' /\ LogTypes' /\ OffsetTypes'
  <2>1. requests' \subseteq Request
    BY <1>0, <1>13, InternalType DEF Apply, OtherCall, OffsetTypes
  <2> QED
    BY <1>0, <1>13, <2>1
       DEF Apply, OtherCall, Types, LogTypes, OffsetTypes, log, broker, offsets
<1>14. ASSUME NEW r \in requests, AppendRecord(r)  PROVE Types' /\ LogTypes' /\ OffsetTypes'
  BY <1>0, <1>14, LogStep DEF AppendRecord, Types, OffsetTypes, broker, offsets
<1>15. ASSUME NEW new \in Config, SetTopicConfig(new)
       PROVE  Types' /\ LogTypes' /\ OffsetTypes'
  <2>1. requests' \subseteq Request
    BY <1>0, <1>15, InternalType DEF SetTopicConfig, OffsetTypes
  <2> QED
    BY <1>0, <1>15, <2>1 DEF SetTopicConfig, Types, LogTypes, OffsetTypes, log, offsets
<1>21. ASSUME NEW r \in requests, GetPartitionFails(r)  PROVE Types' /\ LogTypes' /\ OffsetTypes'
  BY <1>0, <1>21, FinishType
     DEF GetPartitionFails, Fault, Types, LogTypes, OffsetTypes, log, broker, offsets
<1>16. ASSUME RetentionStarts  PROVE Types' /\ LogTypes' /\ OffsetTypes'
  BY <1>0, <1>16 DEF RetentionStarts, Types, LogTypes, OffsetTypes, log, offsets
<1>17. ASSUME EnforceRetention  PROVE Types' /\ LogTypes' /\ OffsetTypes'
  BY <1>0, <1>17, LogStep DEF EnforceRetention, Types, OffsetTypes, offsets
<1>18. ASSUME Crash  PROVE Types' /\ LogTypes' /\ OffsetTypes'
  <2>1. client' \in [Clients -> {"exit", "fetch", "wait"}]
    <3>1. \A c \in Clients : NextRound(c) \in {"exit", "fetch", "wait"}
      BY NextRoundType
    <3>2. \A c \in Clients : client[c] \in {"exit", "fetch", "wait"}
      BY <1>0 DEF Types
    <3> QED
      BY <1>18, <3>1, <3>2 DEF Crash
  <2>2. config' \in Config
    <3>1. NoConfig \in Config
      BY DEF NoConfig, Config
    <3> QED
      BY <1>18, <3>1 DEF Crash
  <2>3. faults' \in Nat
    BY <1>0, <1>18 DEF Crash, Fault, Types
  <2>4. Types'
    BY <1>0, <1>18, <2>1, <2>2, <2>3 DEF Crash, Types
  <2> QED
    BY <1>0, <1>18, <2>4 DEF Crash, LogTypes, OffsetTypes, log
<1>19. ASSUME Restart  PROVE Types' /\ LogTypes' /\ OffsetTypes'
  BY <1>0, <1>19 DEF Restart, Types, LogTypes, OffsetTypes, log
<1>20. CASE UNCHANGED vars
  BY <1>0, <1>20 DEF vars, Types, LogTypes, OffsetTypes
<1> QED
  BY <1>1, <1>2, <1>3, <1>4, <1>5, <1>6, <1>7, <1>8, <1>9, <1>10, <1>11, <1>12, <1>13, <1>14,
     <1>15, <1>16, <1>17, <1>18, <1>19, <1>20, <1>21 DEF Next, Serve

-----------------------------------------------------------------------------
(***************************************************************************)
(* At least once.                                                          *)
(***************************************************************************)

\* What was printed below an offset stays printed.
LEMMA BelowGrows ==
  ASSUME NEW S, NEW T, S \subseteq T, NEW n, Below(S, n)
  PROVE  Below(T, n)
  BY DEF Below

\* Calls that are dropped or lose their client bring no new offset.
LEMMA AbandonedOffsets ==
  ASSUME OffsetTypes, OffsetsPrinted, NEW c, Abandoned(Of(c))
  PROVE  \A r \in requests' : Below(printed, r.offset)
<1>1. Below(printed, 0)
  BY DEF Below
<1>2. \A r \in requests : Below(printed, r.offset)
  BY DEF OffsetsPrinted
<1> SUFFICES ASSUME NEW r \in requests' PROVE Below(printed, r.offset)
  OBVIOUS
<1>3. CASE r \in requests
  BY <1>2, <1>3
<1>4. CASE r \notin requests
  <2>1. PICK s \in Of(c) : r = WithoutClient(s)
    BY <1>4 DEF Abandoned
  <2>2. s \in requests
    BY DEF Of
  <2>3. r.offset \in {0, s.offset}
    BY <2>1, <2>2, OrphanType
  <2> QED
    BY <1>1, <1>2, <2>2, <2>3
<1> QED
  BY <1>3, <1>4

\* A call whose offset does not change brings none either.
LEMMA BecomesOffsets ==
  ASSUME OffsetsPrinted, NEW r \in requests, NEW s, s.offset = r.offset, Becomes(r, s)
  PROVE  \A q \in requests' : Below(printed, q.offset)
  BY DEF OffsetsPrinted, Becomes

\* Every step keeps the records below every offset on its way printed.
LEMMA PrintedStep == Inv /\ [Next]_vars => OffsetsPrinted'
<1> SUFFICES ASSUME Inv, [Next]_vars PROVE OffsetsPrinted'
  OBVIOUS
<1>0. OffsetTypes /\ OffsetsPrinted
  BY TypeParts DEF Inv
<1>1. ASSUME UNCHANGED <<printed, db, cache>>, \A r \in requests' : Below(printed, r.offset)
      PROVE  OffsetsPrinted'
  BY <1>0, <1>1 DEF OffsetsPrinted
<1>2. ASSUME UNCHANGED <<printed, db, cache>>, requests' \subseteq requests
      PROVE  OffsetsPrinted'
  BY <1>0, <1>2 DEF OffsetsPrinted
<1>3. ASSUME NEW c \in Clients, Start(c) \/ FetchRefused(c)  PROVE OffsetsPrinted'
  BY <1>2, <1>3 DEF Start, FetchRefused, offsets
<1>4. ASSUME NEW c \in Clients, Fetch(c)  PROVE OffsetsPrinted'
  <2>1. \A r \in requests' : r \in requests \/ r.offset = cache
    BY <1>4 DEF Fetch, FetchOffset
  <2> QED
    BY <1>0, <1>1, <1>4, <2>1 DEF Fetch, OffsetsPrinted, offsets
<1>5. ASSUME NEW c \in Clients, Disconnect(c) \/ Kill(c)  PROVE OffsetsPrinted'
  BY <1>0, <1>1, <1>5, AbandonedOffsets DEF Disconnect, Kill, offsets
<1>6. ASSUME NEW r \in requests, TopicConfig(r)  PROVE OffsetsPrinted'
  <2>1. r \in Request
    BY <1>0, RequestFields
  <2>2. [r EXCEPT !.at = "configure", !.zip = config.compressed].offset = r.offset
    BY <2>1 DEF Request
  <2> QED
    BY <1>0, <1>1, <1>6, <2>2, BecomesOffsets DEF TopicConfig, offsets
<1>7. ASSUME NEW r \in requests, SetCompressed(r)  PROVE OffsetsPrinted'
  <2>1. r \in Request
    BY <1>0, RequestFields
  <2>2. [r EXCEPT !.at = "use", !.zip = FALSE].offset = r.offset
    BY <2>1 DEF Request
  <2>3. CASE r.for \in {"consume", "apply"}
    BY <1>0, <1>1, <1>7, <2>2, <2>3, BecomesOffsets DEF SetCompressed, offsets
  <2>4. CASE r.for \notin {"consume", "apply"}
    BY <1>2, <1>7, <2>4 DEF SetCompressed, Finish, offsets
  <2> QED
    BY <2>3, <2>4
<1>8. ASSUME NEW r \in requests, Consume(r)  PROVE OffsetsPrinted'
  <2>1. r \in Request
    BY <1>0, RequestFields
  <2>2. CommitOf(r).offset = r.offset + 1 /\ r.offset \in Nat
    BY <2>1 DEF CommitOf, Request
  <2>3. printed' = printed \cup {r.offset}
    BY <1>8 DEF Consume
  <2>4. Below(printed', r.offset + 1)
    BY <1>0, <2>2, <2>3 DEF OffsetsPrinted, Below
  <2>5. \A q \in requests' : q \in requests \/ q = CommitOf(r)
    BY <1>8 DEF Consume, Becomes
  <2>6. \A q \in requests' : Below(printed', q.offset)
    BY <1>0, <2>2, <2>3, <2>4, <2>5, BelowGrows DEF OffsetsPrinted
  <2>7. Below(printed', db) /\ Below(printed', cache)
    BY <1>0, <2>3, BelowGrows DEF OffsetsPrinted
  <2> QED
    BY <1>8, <2>6, <2>7 DEF Consume, OffsetsPrinted, offsets
<1>9. ASSUME NEW r \in requests,
             ConsumeFails(r) \/ PersistFails(r) \/ GetPartitionFails(r) \/ AppendRecord(r)
      PROVE  OffsetsPrinted'
  BY <1>2, <1>9
     DEF ConsumeFails, PersistFails, GetPartitionFails, AppendRecord, Finish, offsets
<1>10. ASSUME NEW r \in requests, Persist(r)  PROVE OffsetsPrinted'
  <2>1. r \in Request
    BY <1>0, RequestFields
  <2>2. [r EXCEPT !.at = "cache"].offset = r.offset
    BY <2>1 DEF Request
  <2>3. \A q \in requests' : Below(printed, q.offset)
    BY <1>0, <1>10, <2>2, BecomesOffsets DEF Persist
  <2> QED
    BY <1>0, <1>10, <2>3 DEF Persist, OffsetsPrinted
<1>11. ASSUME NEW r \in requests, UpdateCache(r)  PROVE OffsetsPrinted'
  <2>1. r \in Request
    BY <1>0, RequestFields
  <2>2. [r EXCEPT !.at = "lookup"].offset = r.offset
    BY <2>1 DEF Request
  <2>3. \A q \in requests' : q \in requests \/ q.offset \in {0, r.offset}
    BY <1>11, <2>2, InternalType DEF UpdateCache, Becomes
  <2>4. \A q \in requests' : Below(printed, q.offset)
    BY <1>0, <2>3 DEF OffsetsPrinted, Below
  <2> QED
    BY <1>0, <1>11, <2>4 DEF UpdateCache, OffsetsPrinted
<1>12. ASSUME RetentionStarts \/ EnforceRetention  PROVE OffsetsPrinted'
  BY <1>2, <1>12 DEF RetentionStarts, EnforceRetention, offsets
<1>13. ASSUME Apply \/ OtherCall \/ \E new \in Config : SetTopicConfig(new)
       PROVE  OffsetsPrinted'
  <2>1. Below(printed, 0)
    BY DEF Below
  <2>2. \A q \in requests' : q \in requests \/ q.offset = 0
    BY <1>13, InternalType DEF Apply, OtherCall, SetTopicConfig
  <2>3. \A q \in requests' : Below(printed, q.offset)
    BY <1>0, <2>1, <2>2 DEF OffsetsPrinted
  <2> QED
    BY <1>1, <1>13, <2>3 DEF Apply, OtherCall, SetTopicConfig, offsets
<1>14. ASSUME Crash  PROVE OffsetsPrinted'
  <2>1. Below(printed, 0)
    BY DEF Below
  <2> QED
    BY <1>0, <1>14, <2>1 DEF Crash, OffsetsPrinted
<1>15. ASSUME Restart  PROVE OffsetsPrinted'
  BY <1>0, <1>15 DEF Restart, OffsetsPrinted
<1>16. CASE UNCHANGED vars
  BY <1>2, <1>16 DEF vars
<1> QED
  BY <1>3, <1>4, <1>5, <1>6, <1>7, <1>8, <1>9, <1>10, <1>11, <1>12, <1>13, <1>14, <1>15, <1>16
     DEF Next, Serve

\* Inv holds at the start.
LEMMA InvInit == Init => Inv
<1> SUFFICES ASSUME Init PROVE Inv
  OBVIOUS
<1>1. NoConfig \in Config
  BY DEF NoConfig, Config
<1>2. client \in [Clients -> {"exit", "fetch", "wait"}]
  BY DEF Init
<1>3. TypeOK
  <2>1. LogTypes
    BY DEF Init, Log!Init, LogTypes
  <2>2. OffsetTypes
    BY DEF Init, OffsetTypes
  <2>3. Types
    BY <1>1, <1>2, Zenon DEF Init, Types
  <2> QED
    BY <2>1, <2>2, <2>3, TypeParts
<1>4. OffsetsPrinted
  BY DEF Init, OffsetsPrinted, Below
<1> QED
  BY <1>3, <1>4 DEF Inv

\* Inv is an invariant of every behaviour: whatever clients overlap, die or
\* lose their answers, every offset on its way has only printed records below.
THEOREM Invariance == Spec => []Inv
<1>1. Inv /\ [Next]_vars => Inv'
  BY TypeStep, PrintedStep DEF Inv
<1> QED
  BY <1>1, InvInit, PTL DEF Spec

\* The types of Delivery, of the broker's and the clients' variables alike.
THEOREM TypeCorrect == Spec => []TypeOK
<1>1. Inv => TypeOK
  BY DEF Inv
<1> QED
  BY <1>1, Invariance, PTL

\* At least once: a committed offset, persisted or cached, never passes a record
\* that no client of the group has printed.
THEOREM AtLeastOnce == Spec => []CommittedWasPrinted
<1>1. Inv => CommittedWasPrinted
  BY DEF Inv, TypeOK, OffsetsPrinted, Below, CommittedWasPrinted
<1> QED
  BY <1>1, Invariance, PTL

\* In order: a record that is printed for the first time comes after all
\* earlier ones, although fetch, print and commit of the clients interleave.
THEOREM InOrder == Spec => FirstPrintsInOrder
<1>1. ASSUME Inv, [Next]_vars
      PROVE  [\A o \in printed' \ printed : \A p \in 0..(o - 1) : p \in printed]_vars
  <2>0. OffsetTypes /\ OffsetsPrinted
    BY <1>1, TypeParts DEF Inv
  <2>1. ASSUME NEW r \in requests, Consume(r), NEW o \in printed' \ printed
        PROVE  \A p \in 0..(o - 1) : p \in printed
    <3>1. o = r.offset
      BY <2>1 DEF Consume
    <3>2. r.offset \in Nat
      BY <2>0, RequestFields
    <3> QED
      BY <2>0, <3>1, <3>2 DEF OffsetsPrinted, Below
  <2>2. CASE UNCHANGED printed
    BY <2>2
  <2>3. UNCHANGED printed \/ \E r \in requests : Consume(r)
    BY <1>1, Zenon DEF Next, Serve, vars, Start, Fetch, FetchRefused, Disconnect, Kill,
                TopicConfig, SetCompressed, ConsumeFails, Persist, PersistFails, UpdateCache,
                GetPartitionFails, Apply, OtherCall, AppendRecord, SetTopicConfig, RetentionStarts,
                EnforceRetention, Crash, Restart
  <2> QED
    BY <2>1, <2>2, <2>3
<1> QED
  BY <1>1, Invariance, PTL DEF Spec, FirstPrintsInOrder

-----------------------------------------------------------------------------
(***************************************************************************)
(* Exactly once, in a group that was never shared and met no fault.        *)
(***************************************************************************)
\* The calls of a consume-group command; the broker's own have no client.
IsMine(r) == r.for \in {"consume", "commit"}

Mine == {r \in requests : IsMine(r)}

Strangers == \A r \in requests : ~IsMine(r) => r.from = NoClient

\* One client at most, with one call at most; the call starts from the committed
\* offset, and it commits behind everything that was printed.
OneClient ==
  /\ \A c, d \in Clients : client[c] # "exit" /\ client[d] # "exit" => c = d
  /\ \A r \in Mine : r.from \in Clients /\ client[r.from] = "wait"
  /\ \A r, s \in Mine : r = s
  /\ Strangers

Position ==
  /\ \A r \in Mine : r.for = "consume" => r.offset = cache
  /\ (\A r \in Mine : r.for = "consume") => \A o \in printed : o < cache
  /\ \A r \in Mine : r.for = "commit" => \A o \in printed : o < r.offset
  /\ \A r \in Mine : r.for = "commit" /\ r.at \in {"lookup", "configure"} => r.offset = cache

Undisturbed == ~shared /\ faults = 0

Quiet == up /\ OneClient /\ Position

Calm == Undisturbed => Quiet

\* A group that is undisturbed after a step was so before, and the step is none
\* of those that need a fault.
LEMMA StaysUndisturbed ==
  ASSUME TypeOK, [Next]_vars, Undisturbed'
  PROVE  Undisturbed /\ faults' = faults
<1>1. UNCHANGED faults \/ Fault
  BY Zenon DEF Next, Serve, vars, Start, Fetch, FetchRefused, Disconnect, Kill,
            TopicConfig, SetCompressed, Consume, ConsumeFails, Persist, PersistFails, UpdateCache,
            GetPartitionFails, Apply, OtherCall, AppendRecord, SetTopicConfig, RetentionStarts,
            EnforceRetention, Crash, Restart
<1>2. UNCHANGED shared \/ \E c \in Clients : Start(c)
  BY Zenon DEF Next, Serve, vars, Fetch, FetchRefused, Disconnect, Kill,
            TopicConfig, SetCompressed, Consume, ConsumeFails, Persist, PersistFails, UpdateCache,
            GetPartitionFails, Apply, OtherCall, AppendRecord, SetTopicConfig, RetentionStarts,
            EnforceRetention, Crash, Restart
<1>3. shared => shared'
  BY <1>2 DEF Start
<1>4. faults' = 0 => faults' = faults
  BY <1>1 DEF Fault, TypeOK
<1> QED
  BY <1>3, <1>4 DEF Undisturbed

\* A handler's step that does not change who asks.
LEMMA BecomesAlike ==
  ASSUME OneClient, NEW r \in Mine, NEW s, IsMine(s), Becomes(r, s), s.from = r.from,
         UNCHANGED client
  PROVE  OneClient' /\ Mine' = {s}
<1>1. Mine = {r}
  BY DEF OneClient
<1>2. Mine' = {s}
  BY <1>1 DEF Becomes, Mine
<1>3. Strangers'
  BY DEF Becomes, OneClient, Strangers
<1> QED
  BY <1>2, <1>3 DEF OneClient

\* The end of a round leaves no call of a client.
LEMMA RoundEnds ==
  ASSUME Types, OneClient, NEW r \in Mine, Finish(r)
  PROVE  OneClient' /\ Mine' = {}
<1>1. Mine' = {}
  BY DEF OneClient, Mine, Finish
<1>2. r.from \in Clients /\ r.from # NoClient
  BY DeliveryAssumption DEF OneClient
<1>3. client' = [client EXCEPT ![r.from] = NextRound(r.from)]
  BY <1>2 DEF EndRound, Finish
<1>4. \A c \in Clients : client'[c] # "exit" => client[c] # "exit"
  BY <1>2, <1>3 DEF Types, OneClient
<1>5. Strangers'
  BY DEF Finish, OneClient, Strangers
<1> QED
  BY <1>1, <1>4, <1>5 DEF OneClient

\* The broker's own calls begin, go on and end without the clients.
LEMMA InternalBegins ==
  ASSUME OneClient, NEW purpose \in {"apply", "other"},
         requests' = requests \cup {Internal(purpose)}
  PROVE  Mine' = Mine /\ Strangers'
<1>1. ~IsMine(Internal(purpose)) /\ Internal(purpose).from = NoClient
  BY DEF Internal, IsMine
<1> QED
  BY <1>1 DEF OneClient, Strangers, Mine

LEMMA InternalGoesOn ==
  ASSUME OneClient, NEW r \in requests, ~IsMine(r), NEW s, ~IsMine(s), s.from = r.from,
         Becomes(r, s)
  PROVE  Mine' = Mine /\ Strangers'
  BY DEF OneClient, Strangers, Mine, Becomes

LEMMA InternalEnds ==
  ASSUME OneClient, NEW r \in requests, ~IsMine(r), requests' = requests \ {r}
  PROVE  Mine' = Mine /\ Strangers'
  BY DEF OneClient, Strangers, Mine

\* Calm is kept by every step.
LEMMA CalmStep == TypeOK /\ Calm /\ [Next]_vars => Calm'
<1> SUFFICES ASSUME TypeOK, Calm, [Next]_vars, Undisturbed'
             PROVE  Quiet'
  BY DEF Calm
<1>0. Types /\ OffsetTypes /\ up /\ OneClient /\ Position /\ faults' = faults
  BY StaysUndisturbed, TypeParts DEF Calm, Quiet
<1>1. ASSUME UNCHANGED <<up, client, cache, printed>>, Mine' = Mine, Strangers'
      PROVE  Quiet'
  BY <1>0, <1>1 DEF Quiet, OneClient, Position
<1>2. ~Fault /\ up
  BY <1>0 DEF Fault, Types
<1>3. ASSUME NEW c \in Clients, Start(c)  PROVE Quiet'
  <2>1. \A d \in Clients \ {c} : client[d] = "exit"
    BY <1>3 DEF Start, Undisturbed
  <2>2. \A d \in Clients : client'[d] # "exit" => d = c
    BY <1>0, <1>3, <2>1 DEF Start, Types
  <2>3. Mine = {}
    BY <1>0, <1>3, <2>1 DEF Start, OneClient
  <2>4. Mine' = {} /\ Strangers'
    BY <1>0, <1>3, <2>3 DEF Start, OneClient, Mine, Strangers
  <2>5. OneClient'
    BY <2>2, <2>4 DEF OneClient
  <2> QED
    BY <1>0, <1>3, <2>3, <2>4, <2>5 DEF Quiet, Start, Position, broker, offsets
<1>4. ASSUME NEW c \in Clients, Fetch(c)  PROVE Quiet'
  <2> DEFINE q == [for |-> "consume", from |-> c, at |-> "lookup", offset |-> FetchOffset,
                   zip |-> FALSE]
  <2>1. Mine = {}
    BY <1>0, <1>4 DEF Fetch, OneClient
  <2>2. q.for = "consume" /\ q.from = c /\ q.offset = cache /\ IsMine(q)
    BY DEF FetchOffset, IsMine
  <2>3. requests' = requests \cup {q}
    BY <1>4 DEF Fetch
  <2> HIDE DEF q
  <2>4. Mine' = {q} /\ Strangers'
    BY <1>0, <2>1, <2>2, <2>3 DEF Mine, OneClient, Strangers
  <2>5. client'[c] = "wait" /\ \A d \in Clients : client'[d] # "exit" => client[d] # "exit"
    BY <1>0, <1>4 DEF Fetch, Types
  <2>6. OneClient'
    BY <1>0, <2>2, <2>4, <2>5 DEF OneClient
  <2>7. Position'
    BY <1>0, <1>4, <2>1, <2>2, <2>4 DEF Fetch, Position, offsets
  <2> QED
    BY <1>0, <1>4, <2>6, <2>7 DEF Quiet, Fetch, broker
<1>5. ASSUME NEW r \in requests, TopicConfig(r)  PROVE Quiet'
  <2> DEFINE q == [r EXCEPT !.at = "configure", !.zip = config.compressed]
  <2>1. r \in Request
    BY <1>0, RequestFields
  <2>2. q.from = r.from /\ q.offset = r.offset /\ q.for = r.for
    BY <2>1 DEF Request
  <2>3. Becomes(r, q) /\ r.at = "lookup"
    BY <1>5 DEF TopicConfig
  <2> HIDE DEF q
  <2>4. CASE IsMine(r)
    <3>1. r \in Mine /\ IsMine(q)
      BY <2>2, <2>4 DEF Mine, IsMine
    <3>2. OneClient' /\ Mine' = {q}
      BY <1>0, <1>5, <2>2, <2>3, <3>1, BecomesAlike DEF TopicConfig
    <3>3. Position'
      BY <1>0, <1>5, <2>2, <2>3, <3>1, <3>2
         DEF TopicConfig, OneClient, Position, offsets
    <3> QED
      BY <1>0, <1>5, <3>2, <3>3 DEF Quiet, TopicConfig
  <2>5. CASE ~IsMine(r)
    <3>1. Mine' = Mine /\ Strangers'
      BY <1>0, <2>2, <2>3, <2>5, InternalGoesOn DEF IsMine
    <3> QED
      BY <1>1, <1>5, <3>1 DEF TopicConfig, offsets
  <2> QED
    BY <2>4, <2>5
<1>6. ASSUME NEW r \in requests, SetCompressed(r)  PROVE Quiet'
  <2> DEFINE q == [r EXCEPT !.at = "use", !.zip = FALSE]
  <2>1. r \in Request
    BY <1>0, RequestFields
  <2>2. q.from = r.from /\ q.offset = r.offset /\ q.for = r.for
    BY <2>1 DEF Request
  <2>3. /\ r.for \in {"consume", "apply"} => Becomes(r, q) /\ UNCHANGED client
        /\ r.for \notin {"consume", "apply"} => Finish(r)
        /\ r.at = "configure"
    BY <1>6 DEF SetCompressed
  <2> HIDE DEF q
  <2>4. CASE r.for = "consume"
    <3>1. r \in Mine /\ IsMine(q) /\ Becomes(r, q) /\ UNCHANGED client
      BY <2>2, <2>3, <2>4 DEF Mine, IsMine
    <3>2. OneClient' /\ Mine' = {q}
      BY <1>0, <2>2, <3>1, BecomesAlike
    <3>3. Position'
      BY <1>0, <1>6, <2>2, <2>4, <3>1, <3>2
         DEF SetCompressed, OneClient, Position, offsets
    <3> QED
      BY <1>0, <1>6, <3>2, <3>3 DEF Quiet, SetCompressed, broker
  <2>5. CASE r.for = "commit"
    <3>1. r \in Mine /\ Finish(r)
      BY <2>3, <2>5 DEF Mine, IsMine
    <3>2. OneClient' /\ Mine' = {}
      BY <1>0, <3>1, RoundEnds
    <3>3. \A o \in printed : o < cache
      BY <1>0, <2>3, <2>5, <3>1 DEF Position
    <3>4. Position'
      BY <1>6, <3>2, <3>3 DEF SetCompressed, Position, offsets
    <3> QED
      BY <1>0, <1>6, <3>2, <3>4 DEF Quiet, SetCompressed, broker
  <2>6. CASE ~IsMine(r)
    <3>1. r.from = NoClient
      BY <1>0, <2>6 DEF OneClient, Strangers
    <3>2. CASE r.for \in {"consume", "apply"}
      <4>1. Mine' = Mine /\ Strangers'
        BY <1>0, <2>2, <2>3, <2>6, <3>2, InternalGoesOn DEF IsMine
      <4> QED
        BY <1>1, <1>6, <2>3, <3>2, <4>1 DEF SetCompressed, broker, offsets
    <3>3. CASE r.for \notin {"consume", "apply"}
      <4>1. Mine' = Mine /\ Strangers'
        BY <1>0, <2>3, <2>6, <3>3, InternalEnds DEF Finish
      <4>2. UNCHANGED client
        BY <2>3, <3>1, <3>3 DEF Finish, EndRound
      <4> QED
        BY <1>1, <1>6, <4>1, <4>2 DEF SetCompressed, broker, offsets
    <3> QED
      BY <3>2, <3>3
  <2> QED
    BY <2>4, <2>5, <2>6 DEF IsMine
<1>7. ASSUME NEW r \in requests, Consume(r)  PROVE Quiet'
  <2>1. r \in Request /\ r \in Mine /\ r.for = "consume"
    BY <1>0, <1>7, RequestFields DEF Consume, Mine, IsMine
  <2>3. CommitOf(r).from = r.from /\ CommitOf(r).offset = r.offset + 1
          /\ CommitOf(r).for = "commit" /\ CommitOf(r).at = "persist" /\ r.offset \in Nat
    BY <2>1 DEF Request, CommitOf
  <2>4. OneClient' /\ Mine' = {CommitOf(r)}
    <3>1. IsMine(CommitOf(r))
      BY <2>3 DEF IsMine
    <3>2. Becomes(r, CommitOf(r)) /\ UNCHANGED client
      BY <1>7 DEF Consume
    <3> QED
      BY <1>0, <2>1, <2>3, <3>1, <3>2, BecomesAlike
  <2>5. \A o \in printed : o < r.offset
    BY <1>0, <2>1 DEF OneClient, Position
  <2>6. printed' = printed \cup {r.offset}
    BY <1>7 DEF Consume
  <2>8. \A o \in printed' : o < r.offset + 1
    BY <1>0, <2>3, <2>5, <2>6 DEF Types
  <2>9. Position'
    BY <2>3, <2>4, <2>8 DEF Position
  <2> QED
    BY <1>0, <1>7, <2>4, <2>9 DEF Quiet, Consume, broker
<1>8. ASSUME NEW r \in requests, ConsumeFails(r)  PROVE Quiet'
  <2>1. r \in Mine /\ r.for = "consume" /\ Finish(r)
    BY <1>8 DEF ConsumeFails, Mine, IsMine
  <2>2. OneClient' /\ Mine' = {}
    BY <1>0, <2>1, RoundEnds
  <2>3. \A q \in Mine : q.for = "consume"
    BY <1>0, <2>1 DEF OneClient
  <2>4. Position'
    BY <1>0, <1>8, <2>2, <2>3 DEF ConsumeFails, Position, offsets
  <2> QED
    BY <1>0, <1>8, <2>2, <2>4 DEF Quiet, ConsumeFails, broker
<1>9. ASSUME NEW r \in requests, Persist(r)  PROVE Quiet'
  <2> DEFINE q == [r EXCEPT !.at = "cache"]
  <2>1. r \in Request /\ r \in Mine /\ r.for = "commit"
    BY <1>0, <1>9, RequestFields DEF Persist, Mine, IsMine
  <2>2. q.from = r.from /\ q.offset = r.offset /\ q.for = "commit" /\ q.at = "cache"
    BY <2>1 DEF Request
  <2>3. Becomes(r, q)
    BY <1>9 DEF Persist
  <2> HIDE DEF q
  <2>4. IsMine(q)
    BY <2>2 DEF IsMine
  <2>5. OneClient' /\ Mine' = {q}
    BY <1>0, <1>9, <2>1, <2>2, <2>3, <2>4, BecomesAlike DEF Persist
  <2>6. Position'
    BY <1>0, <1>9, <2>1, <2>2, <2>5 DEF Persist, Position
  <2> QED
    BY <1>0, <1>9, <2>5, <2>6 DEF Quiet, Persist, broker
<1>10. ASSUME NEW r \in requests, UpdateCache(r)  PROVE Quiet'
  <2> DEFINE q == [r EXCEPT !.at = "lookup"]
  <2>1. r \in Request /\ r \in Mine /\ r.for = "commit"
    BY <1>0, <1>10, RequestFields DEF UpdateCache, Mine, IsMine
  <2>2. q.from = r.from /\ q.offset = r.offset /\ q.for = "commit"
    BY <2>1 DEF Request
  <2>3. Becomes(r, q)
    <3>1. r.from # NoClient
      BY <1>0, <2>1, DeliveryAssumption DEF OneClient
    <3> QED
      BY <1>10, <3>1 DEF UpdateCache
  <2> HIDE DEF q
  <2>4. IsMine(q)
    BY <2>2 DEF IsMine
  <2>5. OneClient' /\ Mine' = {q}
    BY <1>0, <1>10, <2>1, <2>2, <2>3, <2>4, BecomesAlike DEF UpdateCache
  <2>6. Position'
    BY <1>0, <1>10, <2>1, <2>2, <2>5 DEF UpdateCache, Position
  <2> QED
    BY <1>0, <1>10, <2>5, <2>6 DEF Quiet, UpdateCache, broker
<1>11. ASSUME RetentionStarts \/ EnforceRetention \/ UNCHANGED vars  PROVE Quiet'
  <2>1. UNCHANGED <<up, client, cache, printed, requests>>
    BY <1>11 DEF RetentionStarts, EnforceRetention, offsets, vars
  <2>2. Mine' = Mine /\ Strangers'
    BY <1>0, <2>1 DEF Mine, OneClient, Strangers
  <2> QED
    BY <1>1, <2>1, <2>2
<1>12. ASSUME Apply \/ OtherCall \/ \E new \in Config : SetTopicConfig(new)  PROVE Quiet'
  <2>1. UNCHANGED <<up, client, cache, printed>>
    BY <1>12 DEF Apply, OtherCall, SetTopicConfig, broker, offsets
  <2>2. \/ requests' = requests
        \/ \E purpose \in {"apply", "other"} : requests' = requests \cup {Internal(purpose)}
    BY <1>12 DEF Apply, OtherCall, SetTopicConfig
  <2>3. requests' = requests => Mine' = Mine /\ Strangers'
    BY <1>0 DEF Mine, OneClient, Strangers
  <2>4. Mine' = Mine /\ Strangers'
    BY <1>0, <2>2, <2>3, InternalBegins
  <2> QED
    BY <1>1, <2>1, <2>4
<1>13. ASSUME NEW r \in requests, AppendRecord(r)  PROVE Quiet'
  <2>1. ~IsMine(r)
    BY <1>13 DEF AppendRecord, IsMine
  <2>2. Mine' = Mine /\ Strangers'
    BY <1>0, <1>13, <2>1, InternalEnds DEF AppendRecord
  <2> QED
    BY <1>1, <1>13, <2>2 DEF AppendRecord, broker, offsets
<1>14. /\ ~Crash /\ ~Restart
       /\ \A c \in Clients : ~FetchRefused(c) /\ ~Disconnect(c) /\ ~Kill(c)
       /\ \A r \in requests : ~PersistFails(r) /\ ~GetPartitionFails(r)
  BY <1>0, <1>2
     DEF Crash, Restart, FetchRefused, Disconnect, Kill, PersistFails, GetPartitionFails, Fault,
         Types
<1> QED
  BY <1>3, <1>4, <1>5, <1>6, <1>7, <1>8, <1>9, <1>10, <1>11, <1>12, <1>13, <1>14 DEF Next, Serve

\* Exactly once: a group that one client at a time uses, and that meets no crash,
\* kill, broken connection or failed transaction, prints no record twice.
THEOREM ExactlyOnce == Spec => []OnceUnlessDisturbed
<1>1. Init => Calm
  BY DEF Init, Calm, Quiet, OneClient, Position, Mine, Strangers
<1>2. TypeOK /\ Calm /\ [Next]_vars => Calm'
  BY CalmStep
<1>3. TypeOK /\ Calm => OnceUnlessDisturbed
  <2> SUFFICES ASSUME TypeOK, Calm, ~shared, ~(faults > 0), NEW r \in requests,
                      r.for = "consume", r.offset \in printed
               PROVE  FALSE
    BY DEF OnceUnlessDisturbed
  <2>1. OneClient /\ Position /\ r \in Mine
    BY DEF TypeOK, Calm, Quiet, Undisturbed, Mine, IsMine
  <2>2. r.offset < cache /\ r.offset = cache
    BY <2>1 DEF OneClient, Position
  <2> QED
    BY <2>2 DEF TypeOK
<1> QED
  BY <1>1, <1>2, <1>3, TypeCorrect, PTL DEF Spec

=============================================================================
