------------------------ MODULE CommandFrameProofs ------------------------
(***************************************************************************)
(* The codec of Raft commands, for frames of every length: what FSM.Apply  *)
(* decodes is what was encoded, and it never reads outside its frame.      *)
(***************************************************************************)
EXTENDS MCReplication, SequenceTheorems, WellFoundedInduction, TLAPS

(***************************************************************************)
(* Induction: a set of naturals that is not empty has a least element.     *)
(***************************************************************************)
LEMMA LeastNat ==
  ASSUME NEW T \in SUBSET Nat, T # {}
  PROVE  \E m \in T : \A k \in T : m <= k
<1> DEFINE Less == {ss \in Nat \X Nat : ss[1] < ss[2]}
<1>1. IsWellFoundedOn(Less, Nat)
  BY NatLessThanWellFounded DEF OpToRel
<1> HIDE DEF Less
<1>2. PICK m \in T : \A k \in T : ~(<<k, m>> \in Less)
  BY <1>1, WFMin
<1>3. ASSUME NEW k \in T PROVE m <= k
  <2>1. k \in Nat /\ m \in Nat
    OBVIOUS
  <2>2. <<k, m>> \in Nat \X Nat /\ <<k, m>>[1] = k /\ <<k, m>>[2] = m
    BY <2>1
  <2>3. k < m => <<k, m>> \in Less
    BY <2>2 DEF Less
  <2> QED BY <1>2, <2>1, <2>3
<1> QED BY <1>3

\* A number that fits a field is written as it is.
LEMMA Fits ==
  ASSUME NEW x \in Nat, NEW m \in Nat, x < m
  PROVE  x % m = x
OBVIOUS

(***************************************************************************)
(* The decoder stays inside its frame.                                     *)
(***************************************************************************)
\* What is decoded from numbers without leaving the frame.
CleanRecord == [key : Seq(Nat), value : Seq(Nat)]

CleanRead(here) ==
  here = Malformed
  \/ (here.error = FALSE /\ here.next \in Nat /\ here.next >= 1 /\ here.record \in CleanRecord)

\* A slice that lies inside a frame.
LEMMA SliceInside ==
  ASSUME NEW data \in Seq(Nat), NEW at \in Nat, NEW n \in Nat, at >= 1, at + n - 1 <= Len(data)
  PROVE  Slice(data, at, n) \in Seq(Nat)
<1>1. n # Panic
  BY DEF Panic
<1>2. Slice(data, at, n) = SubSeq(data, at, at + n - 1)
  BY <1>1 DEF Slice
<1>3. \A i \in at..(at + n - 1) : data[i] \in Nat
  <2>1. \A i \in at..(at + n - 1) : i \in 1..Len(data)
    OBVIOUS
  <2> QED BY <2>1, ElementOfSeq
<1>4. at + n - 1 \in Int
  OBVIOUS
<1> QED BY <1>2, <1>3, <1>4, SubSeqProperties

\* One record: the three length checks come before the reads they guard.
LEMMA RecordInside ==
  ASSUME NEW data \in Seq(Nat), NEW at \in Nat, at >= 1
  PROVE  CleanRead(RecordAt(data, at))
<1> DEFINE keyLen == Field(data, at)
           valLen == Field(data, at + 1 + keyLen)
<1>1. Len(data) \in Nat
  OBVIOUS
<1>2. CASE \/ Len(data) < at
           \/ Len(data) < at + keyLen + 1
           \/ Len(data) < at + 1 + keyLen + valLen
  BY <1>2 DEF RecordAt, CleanRead
<1>3. CASE ~(\/ Len(data) < at
             \/ Len(data) < at + keyLen + 1
             \/ Len(data) < at + 1 + keyLen + valLen)
  <2>1. keyLen \in Nat
    <3>1. at \in 1..Len(data)
      BY <1>1, <1>3
    <3>2. data[at] \in Nat
      BY <3>1, ElementOfSeq
    <3>3. at <= Len(data)
      BY <3>1
    <3> QED BY <3>2, <3>3 DEF Field
  <2> HIDE DEF keyLen
  <2>2. valLen \in Nat
    <3>1. at + 1 + keyLen \in 1..Len(data)
      BY <1>1, <1>3, <2>1
    <3>2. data[at + 1 + keyLen] \in Nat
      BY <3>1, ElementOfSeq
    <3>3. at + 1 + keyLen <= Len(data)
      BY <1>1, <2>1, <3>1
    <3> QED BY <3>2, <3>3 DEF Field
  <2> HIDE DEF valLen
  <2> DEFINE k == Slice(data, at + 1, keyLen)
             v == Slice(data, at + 2 + keyLen, valLen)
             next == at + 2 + keyLen + valLen
  <2>3. k \in Seq(Nat)
    <3>1. at + 1 \in Nat /\ at + 1 >= 1 /\ (at + 1) + keyLen - 1 <= Len(data)
      BY <1>1, <1>3, <2>1
    <3> QED BY <2>1, <3>1, SliceInside
  <2>4. v \in Seq(Nat)
    <3>1. /\ at + 2 + keyLen \in Nat /\ at + 2 + keyLen >= 1
          /\ (at + 2 + keyLen) + valLen - 1 <= Len(data)
      BY <1>1, <1>3, <2>1, <2>2
    <3> QED BY <2>2, <3>1, SliceInside
  <2>5. RecordAt(data, at) = [error |-> FALSE, next |-> next, record |-> FrameRecord(k, v)]
    BY <1>3 DEF RecordAt, keyLen, valLen
  <2>6. next \in Nat /\ next >= 1
    BY <2>1, <2>2
  <2> HIDE DEF k, v, next
  <2>7. FrameRecord(k, v) \in CleanRecord
    BY <2>3, <2>4 DEF FrameRecord, CleanRecord
  <2> HIDE DEF FrameRecord
  <2> QED BY <2>5, <2>6, <2>7 DEF CleanRead
<1> QED BY <1>2, <1>3

(***************************************************************************)
(* The loop over the records of a batch.                                   *)
(***************************************************************************)
ParseStart(at) == [error |-> FALSE, next |-> at, records |-> << >>]

ParseTurn(before, data) ==
  LET here == RecordAt(data, before.next)
  IN  IF before.error \/ here.error THEN Malformed
      ELSE [error |-> FALSE, next |-> here.next, records |-> Append(before.records, here.record)]

IsParse(f, data, at, n) ==
  f = [i \in 0..n |-> IF i = 0 THEN ParseStart(at) ELSE ParseTurn(f[i-1], data)]

\* The loop is a function that satisfies its own definition.
LEMMA ParseExists ==
  ASSUME NEW data, NEW at, NEW n \in Nat
  PROVE  \E f : IsParse(f, data, at, n)
<1> DEFINE Par(f, m) == f = [i \in 0..m |-> IF i = 0 THEN ParseStart(at) ELSE ParseTurn(f[i-1], data)]
           T == {m \in Nat : ~(\E f : Par(f, m))}
<1>1. SUFFICES ASSUME T # {} PROVE FALSE
  BY <1>1 DEF IsParse
<1>2. PICK m \in T : \A k \in T : m <= k
  BY <1>1, LeastNat
<1>3. m # 0
  <2>1. Par([i \in 0..0 |-> ParseStart(at)], 0)
    OBVIOUS
  <2> QED BY <2>1
<1>4. PICK f : Par(f, m - 1)
  <2>1. m - 1 \in Nat /\ ~(m <= m - 1)
    BY <1>3
  <2> QED BY <1>2, <2>1, Zenon
<1> DEFINE g == [i \in 0..m |-> IF i = m THEN ParseTurn(f[m-1], data) ELSE f[i]]
<1>5. Par(g, m)
  <2>1. ASSUME NEW i \in 0..m PROVE g[i] = IF i = 0 THEN ParseStart(at) ELSE ParseTurn(g[i-1], data)
    <3>1. g[i] = IF i = m THEN ParseTurn(f[m-1], data) ELSE f[i]
      BY Zenon
    <3>2. m \in Nat /\ i \in Nat /\ i <= m
      OBVIOUS
    <3>3. ASSUME i # 0 PROVE g[i-1] = f[i-1]
      <4>1. i - 1 \in 0..m /\ i - 1 # m
        BY <3>2, <3>3
      <4> QED BY <4>1, Zenon
    <3>4. ASSUME i # m PROVE f[i] = IF i = 0 THEN ParseStart(at) ELSE ParseTurn(f[i-1], data)
      <4>1. i \in 0..(m-1)
        BY <3>2, <3>4
      <4> QED BY <1>4, <4>1, Zenon
    <3>5. CASE i = m
      BY <1>3, <3>1, <3>3, <3>5, Zenon
    <3>6. CASE i # m
      BY <3>1, <3>3, <3>4, <3>6, Zenon
    <3> QED BY <3>5, <3>6
  <2> QED BY <2>1, Zenon
<1> QED BY <1>2, <1>5

\* RecordsAt is the end of that loop.
LEMMA RecordsAtIs ==
  ASSUME NEW data, NEW at, NEW n \in Nat
  PROVE  \E f : IsParse(f, data, at, n) /\ RecordsAt(data, at, n) = f[n]
<1> DEFINE Body(f, i) ==
             IF i = 0 THEN [error |-> FALSE, next |-> at, records |-> << >>]
             ELSE LET before == f[i-1]
                      here == RecordAt(data, before.next)
                  IN  IF before.error \/ here.error THEN Malformed
                      ELSE [error |-> FALSE, next |-> here.next,
                            records |-> Append(before.records, here.record)]
           Loop(f) == f = [i \in 0..n |-> Body(f, i)]
<1>1. ASSUME NEW f PROVE IsParse(f, data, at, n) <=> Loop(f)
  BY Zenon DEF IsParse, ParseStart, ParseTurn
<1>2. RecordsAt(data, at, n) = (CHOOSE f : Loop(f))[n]
  BY DEF RecordsAt
<1> HIDE DEF Loop
<1>3. \E f : IsParse(f, data, at, n)
  BY ParseExists, Zenon
<1>4. Loop(CHOOSE f : Loop(f))
  BY <1>1, <1>3, Zenon
<1>5. IsParse(CHOOSE f : Loop(f), data, at, n)
  BY <1>1, <1>4, Zenon
<1> QED BY <1>2, <1>5, Zenon

\* The records read so far, all of them inside the frame.
CleanParse(here) ==
  here = Malformed
  \/ (here.error = FALSE /\ here.next \in Nat /\ here.next >= 1 /\ here.records \in Seq(CleanRecord))

\* One turn of the loop keeps it inside.
LEMMA TurnInside ==
  ASSUME NEW data \in Seq(Nat), NEW before, CleanParse(before)
  PROVE  CleanParse(ParseTurn(before, data))
<1> DEFINE here == RecordAt(data, before.next)
<1>1. CASE before = Malformed
  <2>1. before.error = TRUE
    BY <1>1 DEF Malformed
  <2> QED BY <2>1 DEF ParseTurn, CleanParse
<1>2. CASE before # Malformed
  <2>1. /\ before.error = FALSE /\ before.next \in Nat /\ before.next >= 1
        /\ before.records \in Seq(CleanRecord)
    BY <1>2 DEF CleanParse
  <2>2. CleanRead(here)
    BY <2>1, RecordInside
  <2>3. ParseTurn(before, data)
          = IF before.error \/ here.error THEN Malformed
            ELSE [error |-> FALSE, next |-> here.next,
                  records |-> Append(before.records, here.record)]
    BY DEF ParseTurn
  <2> HIDE DEF here
  <2>4. CASE here = Malformed
    <3>1. here.error = TRUE
      BY <2>4 DEF Malformed
    <3> QED BY <2>3, <3>1 DEF CleanParse
  <2>5. CASE here # Malformed
    <3>1. here.error = FALSE /\ here.next \in Nat /\ here.next >= 1 /\ here.record \in CleanRecord
      BY <2>2, <2>5 DEF CleanRead
    <3> DEFINE recs == Append(before.records, here.record)
    <3>2. recs \in Seq(CleanRecord)
      BY <2>1, <3>1, AppendProperties
    <3> HIDE DEF recs
    <3>3. ParseTurn(before, data) = [error |-> FALSE, next |-> here.next, records |-> recs]
      BY <2>1, <2>3, <3>1 DEF recs
    <3> QED BY <3>1, <3>2, <3>3 DEF CleanParse
  <2> QED BY <2>4, <2>5
<1> QED BY <1>1, <1>2

\* So do all of them.
LEMMA ParseInside ==
  ASSUME NEW data \in Seq(Nat), NEW at \in Nat, at >= 1, NEW n \in Nat,
         NEW f, IsParse(f, data, at, n)
  PROVE  \A i \in 0..n : CleanParse(f[i])
<1> DEFINE T == {i \in 0..n : ~CleanParse(f[i])}
<1>1. SUFFICES ASSUME T # {} PROVE FALSE
  OBVIOUS
<1>2. PICK m \in T : \A k \in T : m <= k
  <2>1. T \in SUBSET Nat
    OBVIOUS
  <2> HIDE DEF T
  <2> QED BY <1>1, <2>1, LeastNat
<1>3. m \in 0..n /\ ~CleanParse(f[m])
  OBVIOUS
<1>4. f[m] = IF m = 0 THEN ParseStart(at) ELSE ParseTurn(f[m-1], data)
  BY <1>3, Zenon DEF IsParse
<1>5. m # 0
  <2>1. CleanParse(ParseStart(at))
    BY DEF CleanParse, ParseStart
  <2> QED BY <1>3, <1>4, <2>1
<1>6. m - 1 \in 0..n /\ ~(m <= m - 1)
  BY <1>3, <1>5
<1>7. CleanParse(f[m-1])
  BY <1>2, <1>6, Zenon
<1>8. CleanParse(ParseTurn(f[m-1], data))
  BY <1>7, TurnInside
<1> QED BY <1>3, <1>4, <1>5, <1>8

\* What the decoder hands on, read inside the frame.
CleanResult(result) ==
  \/ result.error
  \/ /\ result.topic \in Seq(Nat) /\ result.partition \in Nat
     /\ result.records \in Seq(CleanRecord)

\* The head is read after the check that the frame is long enough for it.
LEMMA HeadInside ==
  ASSUME NEW data \in Seq(Nat), ~(Len(data) < 3 \/ Len(data) < 3 + Field(data, 2)),
         NEW records \in Seq(CleanRecord)
  PROVE  Field(data, 2) \in Nat /\ CleanResult(Decoded(data, Field(data, 2), records))
<1> DEFINE t == Field(data, 2)
<1>1. Len(data) \in Nat
  OBVIOUS
<1>2. t \in Nat
  <2>1. 2 \in 1..Len(data) /\ 2 <= Len(data)
    BY <1>1
  <2>2. data[2] \in Nat
    BY <2>1, ElementOfSeq
  <2> QED BY <2>1, <2>2 DEF Field
<1>3. Len(data) >= 3 + t
  BY <1>1, <1>2
<1> HIDE DEF t
<1>4. Slice(data, 3, t) \in Seq(Nat)
  <2>1. 3 \in Nat /\ 3 >= 1 /\ 3 + t - 1 <= Len(data)
    BY <1>1, <1>2, <1>3
  <2> QED BY <1>2, <2>1, SliceInside
<1>5. Field(data, 3 + t) \in Nat
  <2>1. 3 + t \in 1..Len(data) /\ 3 + t <= Len(data)
    BY <1>1, <1>2, <1>3
  <2>2. data[3 + t] \in Nat
    BY <2>1, ElementOfSeq
  <2> QED BY <2>1, <2>2 DEF Field
<1>6. CleanResult(Decoded(data, t, records))
  BY <1>4, <1>5 DEF CleanResult, Decoded
<1> QED BY <1>2, <1>6 DEF t

\* Whatever the frame holds, Decode answers from what is inside it.
LEMMA DecodeInside ==
  ASSUME NEW data \in Seq(Nat)
  PROVE  CleanResult(Decode(data))
<1> DEFINE t == Field(data, 2)
           body == 4 + t
           single == RecordAt(data, body)
           batch == RecordsAt(data, body + 1, Field(data, body))
           short == Len(data) < 3 \/ Len(data) < 3 + t
<1>1. CleanResult(Malformed)
  BY DEF CleanResult, Malformed
<1>2. CASE short
  BY <1>1, <1>2 DEF Decode
<1>3. CASE ~short
  <2>1. Len(data) \in Nat
    OBVIOUS
  <2>2. t \in Nat /\ \A records \in Seq(CleanRecord) : CleanResult(Decoded(data, t, records))
    <3>1. << >> \in Seq(CleanRecord)
      OBVIOUS
    <3> QED BY <1>3, <3>1, HeadInside
  <2>3. body \in Nat /\ body >= 1 /\ body + 1 \in Nat /\ body + 1 >= 1
    BY <2>2
  <2>4. CASE data[1] = CmdTypeSingle
    <3>1. Decode(data) = IF single.error THEN Malformed ELSE Decoded(data, t, <<single.record>>)
      BY <1>3, <2>4 DEF Decode, CmdTypeSingle, CmdTypeBatch
    <3>2. CleanRead(single)
      BY <2>3, RecordInside
    <3> HIDE DEF single, t
    <3>3. ASSUME ~single.error PROVE <<single.record>> \in Seq(CleanRecord)
      <4>1. single # Malformed
        BY <3>3 DEF Malformed
      <4>2. single.record \in CleanRecord
        BY <3>2, <4>1 DEF CleanRead
      <4> QED BY <4>2
    <3> QED BY <1>1, <2>2, <3>1, <3>3
  <2>5. CASE data[1] = CmdTypeBatch
    <3>1. Decode(data) = IF Len(data) < body \/ batch.error THEN Malformed
                         ELSE Decoded(data, t, batch.records)
      BY <1>3, <2>5 DEF Decode, CmdTypeSingle, CmdTypeBatch
    <3>2. ASSUME ~(Len(data) < body) PROVE CleanParse(batch)
      <4>1. Field(data, body) \in Nat
        <5>1. body \in 1..Len(data) /\ body <= Len(data)
          BY <2>1, <2>3, <3>2
        <5> HIDE DEF body
        <5>2. data[body] \in Nat
          BY <5>1, ElementOfSeq
        <5> QED BY <5>1, <5>2 DEF Field
      <4> DEFINE c == Field(data, body)
      <4> HIDE DEF c, body
      <4>2. c \in Nat
        BY <4>1 DEF c
      <4>3. PICK f : IsParse(f, data, body + 1, c) /\ RecordsAt(data, body + 1, c) = f[c]
        BY <4>2, RecordsAtIs
      <4>4. \A i \in 0..c : CleanParse(f[i])
        BY <2>3, <4>2, <4>3, ParseInside
      <4>5. c \in 0..c
        BY <4>2
      <4>6. CleanParse(RecordsAt(data, body + 1, c))
        BY <4>3, <4>4, <4>5, Zenon
      <4> QED BY <4>6 DEF c
    <3> HIDE DEF batch, t, body
    <3>3. ASSUME ~(Len(data) < body), ~batch.error PROVE batch.records \in Seq(CleanRecord)
      <4>1. batch # Malformed
        BY <3>3 DEF Malformed
      <4> QED BY <3>2, <3>3, <4>1 DEF CleanParse
    <3> QED BY <1>1, <2>2, <3>1, <3>3
  <2>6. CASE data[1] # CmdTypeSingle /\ data[1] # CmdTypeBatch
    BY <1>1, <1>3, <2>6 DEF Decode
  <2> QED BY <2>4, <2>5, <2>6
<1> QED BY <1>2, <1>3

\* Nothing read inside a frame of numbers is the mark of a read outside it.
LEMMA CleanContent ==
  ASSUME NEW result, CleanResult(result)
  PROVE  result.error \/ Panic \notin ContentOf(result)
<1> SUFFICES ASSUME ~result.error PROVE Panic \notin ContentOf(result)
  OBVIOUS
<1>1. /\ result.topic \in Seq(Nat) /\ result.partition \in Nat
      /\ result.records \in Seq(CleanRecord)
  BY DEF CleanResult
<1>2. ASSUME NEW s \in Seq(Nat) PROVE Panic \notin ToSet(s)
  <2>1. \A i \in DOMAIN s : s[i] \in Nat
    BY <1>2
  <2>2. Panic \notin Nat
    BY DEF Panic
  <2> QED BY <2>1, <2>2, Zenon DEF ToSet
<1>3. Panic # result.partition
  BY <1>1 DEF Panic
<1>4. ASSUME NEW i \in DOMAIN result.records
      PROVE  Panic \notin ToSet(result.records[i].key) \cup ToSet(result.records[i].value)
  <2>1. result.records[i] \in CleanRecord
    BY <1>1
  <2>2. result.records[i].key \in Seq(Nat) /\ result.records[i].value \in Seq(Nat)
    BY <2>1 DEF CleanRecord
  <2> QED BY <1>2, <2>2, Zenon
<1> QED BY <1>1, <1>2, <1>3, <1>4, Zenon DEF ContentOf

\* Whatever bytes a Raft entry holds, FSM.Apply answers with records or with
\* an error and never reads outside them (fsm.go, the decoder of Apply).
THEOREM DecodeNeverPanics ==
  /\ \A data \in Seq(Nat) : Decode(data).error \/ Panic \notin ContentOf(Decode(data))
  /\ DecodeStaysInside
<1>0. \A data \in Seq(Nat) : Decode(data).error \/ Panic \notin ContentOf(Decode(data))
  BY DecodeInside, CleanContent
<1> SUFFICES ASSUME NEW n \in 0..(6 + NameMax), NEW data \in [1..n -> 0..2]
             PROVE  Decode(data).error \/ Panic \notin ContentOf(Decode(data))
  BY <1>0, Zenon DEF DecodeStaysInside, DecodesInside
<1>1. data \in Seq(Nat)
  <2>1. n \in Nat
    BY CommandFrameAssumption
  <2>2. \A i \in 1..n : data[i] \in Nat
    OBVIOUS
  <2>3. data \in [1..n -> Nat]
    BY <2>2
  <2> QED BY <2>1, <2>3
<1> QED BY <1>0, <1>1

(***************************************************************************)
(* What is written stands where the decoder looks for it.                  *)
(***************************************************************************)
\* The sequence s stands in the frame from position "at" on.
Placed(data, at, s) ==
  /\ data \in Seq(Nat) /\ s \in Seq(Nat) /\ at \in Nat /\ at >= 1
  /\ at + Len(s) <= Len(data) + 1
  /\ \A i \in 1..Len(s) : data[(at + i) - 1] = s[i]

\* A frame stands in itself.
LEMMA PlacedWhole ==
  ASSUME NEW data \in Seq(Nat)
  PROVE  Placed(data, 1, data)
<1>1. \A i \in 1..Len(data) : (1 + i) - 1 = i
  OBVIOUS
<1>2. Len(data) \in Nat
  OBVIOUS
<1> QED BY <1>1, <1>2 DEF Placed

\* Concatenation of frames.
LEMMA Joined ==
  ASSUME NEW a \in Seq(Nat), NEW b \in Seq(Nat)
  PROVE  a \o b \in Seq(Nat) /\ Len(a \o b) = Len(a) + Len(b)
BY ConcatProperties

\* The halves of what stands in a frame stand there one after the other.
LEMMA PlacedSplit ==
  ASSUME NEW data, NEW at, NEW a \in Seq(Nat), NEW b \in Seq(Nat), Placed(data, at, a \o b)
  PROVE  Placed(data, at, a) /\ Placed(data, at + Len(a), b)
<1> DEFINE ab == a \o b
<1>1. /\ ab \in Seq(Nat) /\ Len(ab) = Len(a) + Len(b)
      /\ \A i \in 1..(Len(a) + Len(b)) : ab[i] = IF i <= Len(a) THEN a[i] ELSE b[i - Len(a)]
  BY ConcatProperties
<1> HIDE DEF ab
<1>2. /\ data \in Seq(Nat) /\ at \in Nat /\ at >= 1 /\ at + Len(ab) <= Len(data) + 1
      /\ \A i \in 1..Len(ab) : data[(at + i) - 1] = ab[i]
  BY DEF Placed, ab
<1>3. Len(a) \in Nat /\ Len(b) \in Nat /\ Len(data) \in Nat
  BY <1>2
<1>4. ASSUME NEW i \in 1..Len(a) PROVE data[(at + i) - 1] = a[i]
  <2>1. i \in 1..Len(ab) /\ i \in 1..(Len(a) + Len(b)) /\ i <= Len(a)
    BY <1>1, <1>3
  <2> QED BY <1>1, <1>2, <2>1, Zenon
<1>5. ASSUME NEW i \in 1..Len(b) PROVE data[((at + Len(a)) + i) - 1] = b[i]
  <2> DEFINE j == Len(a) + i
  <2>0. \A x, y, z \in Nat : \A l \in 1..z :
          /\ y + l \in 1..(y + z) /\ ~(y + l <= y) /\ (y + l) - y = l
          /\ (x + (y + l)) - 1 = ((x + y) + l) - 1
    OBVIOUS
  <2>1. /\ j \in 1..Len(ab) /\ j \in 1..(Len(a) + Len(b)) /\ ~(j <= Len(a)) /\ j - Len(a) = i
        /\ (at + j) - 1 = ((at + Len(a)) + i) - 1
    <3>1. Len(ab) = Len(a) + Len(b) /\ at \in Nat
      BY <1>1, <1>2
    <3>2. /\ j \in 1..(Len(a) + Len(b)) /\ ~(j <= Len(a)) /\ j - Len(a) = i
          /\ (at + j) - 1 = ((at + Len(a)) + i) - 1
      BY <1>3, <2>0, <3>1, Zenon
    <3> QED BY <3>1, <3>2, Zenon
  <2> HIDE DEF j
  <2>2. data[(at + j) - 1] = ab[j]
    BY <1>2, <2>1, Zenon
  <2>3. ab[j] = b[j - Len(a)]
    BY <1>1, <2>1, Zenon
  <2> QED BY <2>1, <2>2, <2>3, Zenon
<1>6. /\ at + Len(a) \in Nat /\ at + Len(a) >= 1 /\ at + Len(a) <= Len(data) + 1
      /\ (at + Len(a)) + Len(b) <= Len(data) + 1
  BY <1>1, <1>2, <1>3
<1>7. Placed(data, at, a)
  BY <1>2, <1>4, <1>6, Zenon DEF Placed
<1>8. Placed(data, at + Len(a), b)
  BY <1>2, <1>5, <1>6, Zenon DEF Placed
<1> QED BY <1>7, <1>8

\* A field that stands in the frame is read.
LEMMA PlacedField ==
  ASSUME NEW data, NEW at, NEW x \in Nat, Placed(data, at, <<x>>)
  PROVE  Field(data, at) = x /\ at <= Len(data) /\ data[at] = x
<1>1. Len(<<x>>) = 1 /\ <<x>>[1] = x /\ 1 \in 1..1
  OBVIOUS
<1>2. at \in Nat /\ Len(data) \in Nat /\ at + Len(<<x>>) <= Len(data) + 1 /\ data[(at + 1) - 1] = <<x>>[1]
  BY <1>1 DEF Placed
<1>3. (at + 1) - 1 = at /\ at <= Len(data)
  BY <1>1, <1>2
<1> QED BY <1>1, <1>2, <1>3 DEF Field

\* So is a slice.
LEMMA PlacedSlice ==
  ASSUME NEW data, NEW at, NEW s, Placed(data, at, s)
  PROVE  Slice(data, at, Len(s)) = s
<1>1. /\ data \in Seq(Nat) /\ s \in Seq(Nat) /\ at \in Nat /\ at >= 1
      /\ at + Len(s) <= Len(data) + 1
      /\ \A i \in 1..Len(s) : data[(at + i) - 1] = s[i]
  BY DEF Placed
<1> DEFINE n == Len(s)
           hi == at + n - 1
<1>2. n \in Nat /\ Len(data) \in Nat
  BY <1>1
<1>3. /\ hi \in Int /\ hi <= Len(data) /\ hi - at + 1 = n /\ (at <= hi <=> n # 0)
      /\ \A i \in at..hi : i \in 1..Len(data)
  BY <1>1, <1>2
<1>4. n # Panic
  BY <1>2 DEF Panic
<1> DEFINE sub == SubSeq(data, at, hi)
<1>5. Slice(data, at, n) = sub
  BY <1>3, <1>4 DEF Slice
<1>6. \A i \in at..hi : data[i] \in Nat
  BY <1>1, <1>3, ElementOfSeq
<1> HIDE DEF n, hi
<1>7. /\ sub \in Seq(Nat) /\ Len(sub) = IF at <= hi THEN hi - at + 1 ELSE 0
      /\ \A i \in 1..(hi - at + 1) : sub[i] = data[at + i - 1]
  BY <1>1, <1>3, <1>6, SubSeqProperties
<1> HIDE DEF sub
<1>8. Len(sub) = n
  BY <1>2, <1>3, <1>7
<1>9. ASSUME NEW i \in 1..n PROVE sub[i] = s[i]
  <2>1. i \in Nat /\ at + i - 1 = (at + i) - 1 /\ i \in 1..(hi - at + 1)
    BY <1>1, <1>2, <1>3
  <2>2. sub[i] = data[at + i - 1]
    BY <1>7, <2>1, Zenon
  <2>3. data[(at + i) - 1] = s[i]
    BY <1>1, <2>1 DEF n
  <2> QED BY <2>1, <2>2, <2>3
<1>10. sub = s
  <2>1. Len(sub) = Len(s) /\ \A i \in 1..Len(sub) : sub[i] = s[i]
    BY <1>8, <1>9, Zenon DEF n
  <2> QED BY <1>1, <1>7, <2>1, SeqEqual
<1> QED BY <1>5, <1>10 DEF n

\* A record that fits its fields is read as it was written.
LEMMA RecordReads ==
  ASSUME NEW k \in Seq(Nat), NEW v \in Seq(Nat), Len(k) < Limit32, Len(v) < Limit32,
         NEW data, NEW at, Placed(data, at, EncodeRecord(FrameRecord(k, v)))
  PROVE  RecordAt(data, at)
           = [error |-> FALSE, next |-> at + Len(EncodeRecord(FrameRecord(k, v))),
              record |-> FrameRecord(k, v)]
<1> DEFINE n == Len(k)
           m == Len(v)
           kl == <<n>>
           vl == <<m>>
           one == kl \o k
           two == one \o vl
<1>1. /\ n \in Nat /\ m \in Nat /\ Len(k) = n /\ Len(v) = m
      /\ kl \in Seq(Nat) /\ vl \in Seq(Nat) /\ Len(kl) = 1 /\ Len(vl) = 1
  OBVIOUS
<1>2. n % Limit32 = n /\ m % Limit32 = m
  BY <1>1, CommandFrameAssumption, Fits
<1>3. EncodeRecord(FrameRecord(k, v)) = two \o v
  <2>1. FrameRecord(k, v).key = k /\ FrameRecord(k, v).value = v
    BY DEF FrameRecord
  <2> QED BY <1>2, <2>1 DEF EncodeRecord
<1> HIDE DEF n, m, kl, vl
<1>4. one \in Seq(Nat) /\ Len(one) = 1 + n
  BY <1>1, Joined, Zenon
<1> HIDE DEF one
<1>5. two \in Seq(Nat) /\ Len(two) = (1 + n) + 1
  BY <1>1, <1>4, Joined, Zenon
<1> HIDE DEF two
<1>6. Len(two \o v) = ((1 + n) + 1) + m
  BY <1>1, <1>5, Joined, Zenon
<1>7. Placed(data, at, two) /\ Placed(data, at + Len(two), v)
  BY <1>3, <1>5, PlacedSplit
<1>8. Placed(data, at, one) /\ Placed(data, at + Len(one), vl)
  BY <1>1, <1>4, <1>7, PlacedSplit DEF two
<1>9. Placed(data, at, kl) /\ Placed(data, at + Len(kl), k)
  BY <1>1, <1>8, PlacedSplit DEF one
<1>10. Field(data, at) = n /\ at <= Len(data)
  BY <1>1, <1>9, PlacedField DEF kl
<1>11. at \in Nat /\ Len(data) \in Nat /\ (at + Len(two)) + Len(v) <= Len(data) + 1
  BY <1>7 DEF Placed
<1>12. /\ at + Len(one) = at + 1 + n /\ at + Len(kl) = at + 1 /\ at + Len(two) = at + 2 + n
       /\ at + Len(two \o v) = at + 2 + n + m
  BY <1>1, <1>4, <1>5, <1>6, <1>11
<1>13. Field(data, at + 1 + n) = m
  BY <1>1, <1>8, <1>12, PlacedField DEF vl
<1>14. Slice(data, at + 1, n) = k
  BY <1>9, <1>12, PlacedSlice DEF n
<1>15. Slice(data, at + 2 + n, m) = v
  BY <1>7, <1>12, PlacedSlice DEF m
<1>16. ~(\/ Len(data) < at
         \/ Len(data) < at + n + 1
         \/ Len(data) < at + 1 + n + m)
  BY <1>1, <1>10, <1>11, <1>5 DEF m
<1>17. RecordAt(data, at) = [error |-> FALSE, next |-> at + 2 + n + m, record |-> FrameRecord(k, v)]
  BY <1>10, <1>13, <1>14, <1>15, <1>16 DEF RecordAt
<1> QED BY <1>3, <1>12, <1>17

\* A record that fits its fields is written in numbers.
LEMMA RecordWritten ==
  ASSUME NEW k \in Seq(Nat), NEW v \in Seq(Nat), Len(k) < Limit32, Len(v) < Limit32
  PROVE  EncodeRecord(FrameRecord(k, v)) \in Seq(Nat)
<1> DEFINE n == Len(k) % Limit32
           m == Len(v) % Limit32
<1>1. n = Len(k) /\ m = Len(v) /\ Len(k) \in Nat /\ Len(v) \in Nat
  BY CommandFrameAssumption, Fits
<1>2. EncodeRecord(FrameRecord(k, v)) = <<n>> \o k \o <<m>> \o v
  BY DEF EncodeRecord, FrameRecord
<1> HIDE DEF n, m
<1>3. <<n>> \in Seq(Nat) /\ <<m>> \in Seq(Nat)
  BY <1>1
<1>4. <<n>> \o k \in Seq(Nat)
  BY <1>3, ConcatProperties
<1>5. <<n>> \o k \o <<m>> \in Seq(Nat)
  BY <1>3, <1>4, ConcatProperties
<1>6. <<n>> \o k \o <<m>> \o v \in Seq(Nat)
  BY <1>5, ConcatProperties
<1> QED BY <1>2, <1>6

\* The strings of a request are sequences no longer than their bound.
LEMMA StringIs ==
  ASSUME NEW lo \in Nat, NEW hi \in Nat, NEW s \in Strings(lo, hi)
  PROVE  s \in Seq(Nat) /\ Len(s) <= hi
<1>1. PICK n \in lo..hi : s \in [1..n -> Bytes]
  BY Zenon DEF Strings
<1>2. n \in Nat /\ n <= hi
  BY <1>1
<1>3. s \in [1..n -> Nat]
  BY <1>1, CommandFrameAssumption
<1>4. s \in Seq(Nat) /\ Len(s) = n
  BY <1>2, <1>3
<1> QED BY <1>2, <1>4

\* The head is written in numbers.
LEMMA HeadWritten ==
  ASSUME NEW type \in Nat, NEW topic \in Seq(Nat), Len(topic) < Limit16,
         NEW p \in Nat, p < Limit32
  PROVE  FrameHead(type, topic, p) \in Seq(Nat)
<1>1. Len(topic) % Limit16 = Len(topic) /\ p % Limit32 = p /\ Len(topic) \in Nat
  BY CommandFrameAssumption, Fits
<1>2. FrameHead(type, topic, p) = <<type, Len(topic)>> \o topic \o <<p>>
  BY <1>1 DEF FrameHead
<1>3. <<type, Len(topic)>> \in Seq(Nat) /\ <<p>> \in Seq(Nat)
  BY <1>1
<1>4. <<type, Len(topic)>> \o topic \in Seq(Nat)
  BY <1>3, Joined, Zenon
<1> QED BY <1>2, <1>3, <1>4, Joined, Zenon

\* What the decoder finds in the head of a frame: its type, the topic and the
\* partition, and what follows the head.
HeadIs(data, type, topic, p, rest) ==
  /\ data \in Seq(Nat)
  /\ Placed(data, 4 + Len(topic), rest)
  /\ data[1] = type
  /\ Field(data, 2) = Len(topic)
  /\ Slice(data, 3, Len(topic)) = topic
  /\ Field(data, 3 + Len(topic)) = p
  /\ Len(data) >= 3 + Len(topic)

\* It is what FrameHead writes.
LEMMA HeadReads ==
  ASSUME NEW type \in Nat, NEW topic \in Seq(Nat), Len(topic) < Limit16,
         NEW p \in Nat, p < Limit32, NEW rest \in Seq(Nat)
  PROVE  HeadIs(FrameHead(type, topic, p) \o rest, type, topic, p, rest)
<1> DEFINE t == Len(topic)
           ty == <<type>>
           tl == <<t>>
           pt == <<p>>
           zero == <<type, t>>
           one == zero \o topic
           two == one \o pt
           data == two \o rest
<1>1. /\ t \in Nat /\ Len(topic) = t /\ ty \in Seq(Nat) /\ tl \in Seq(Nat) /\ pt \in Seq(Nat)
      /\ Len(ty) = 1 /\ Len(tl) = 1 /\ Len(pt) = 1 /\ zero \in Seq(Nat) /\ Len(zero) = 2
  OBVIOUS
<1>2. zero = ty \o tl
  OBVIOUS
<1>3. t % Limit16 = t /\ p % Limit32 = p
  BY <1>1, CommandFrameAssumption, Fits
<1>4. FrameHead(type, topic, p) \o rest = data
  BY <1>3 DEF FrameHead
<1> HIDE DEF t, ty, tl, pt, zero
<1>5. one \in Seq(Nat) /\ Len(one) = 2 + t
  BY <1>1, Joined, Zenon
<1> HIDE DEF one
<1>6. two \in Seq(Nat) /\ Len(two) = (2 + t) + 1
  BY <1>1, <1>5, Joined, Zenon
<1> HIDE DEF two
<1>7. data \in Seq(Nat) /\ Len(data) = ((2 + t) + 1) + Len(rest)
  BY <1>6, Joined, Zenon
<1>8. Placed(data, 1, data)
  BY <1>7, PlacedWhole
<1>9. Placed(data, 1, two) /\ Placed(data, 1 + Len(two), rest)
  BY <1>6, <1>8, PlacedSplit
<1> HIDE DEF data
<1>10. Placed(data, 1, one) /\ Placed(data, 1 + Len(one), pt)
  BY <1>1, <1>5, <1>9, PlacedSplit DEF two
<1>11. Placed(data, 1, zero) /\ Placed(data, 1 + Len(zero), topic)
  BY <1>1, <1>10, PlacedSplit DEF one
<1>12. Placed(data, 1, ty) /\ Placed(data, 1 + Len(ty), tl)
  BY <1>1, <1>2, <1>11, PlacedSplit
<1>13. /\ 1 + Len(two) = 4 + t /\ 1 + Len(one) = 3 + t /\ 1 + Len(zero) = 3 /\ 1 + Len(ty) = 2
       /\ Len(data) >= 3 + t
  <2>1. Len(rest) \in Nat
    OBVIOUS
  <2> QED BY <1>1, <1>5, <1>6, <1>7, <2>1
<1>14. data[1] = type
  BY <1>12, PlacedField DEF ty
<1>15. Field(data, 2) = t
  BY <1>1, <1>12, <1>13, PlacedField DEF tl
<1>16. Slice(data, 3, t) = topic
  BY <1>11, <1>13, PlacedSlice DEF t
<1>17. Field(data, 3 + t) = p
  BY <1>10, <1>13, PlacedField DEF pt
<1>18. Placed(data, 4 + t, rest)
  BY <1>9, <1>13
<1> QED BY <1>4, <1>7, <1>13, <1>14, <1>15, <1>16, <1>17, <1>18, Zenon DEF t, HeadIs

\* FSM.Apply reads from the frame of EncodeCommand the topic, partition, key
\* and value that Publish put in, whatever their lengths within the fields.
THEOREM SingleFrames == SingleRoundTrip
<1> SUFFICES ASSUME NEW topic \in TopicNames, NEW p \in FramePartitions,
                    NEW k \in Strings(0, DataMax), NEW v \in Strings(0, DataMax)
             PROVE  ReadsBack(EncodeCommand(topic, p, k, v), topic, p, <<FrameRecord(k, v)>>)
  BY Zenon DEF SingleRoundTrip, SingleReadsBack
<1>1. topic \in Seq(Nat) /\ Len(topic) <= NameMax
  BY StringIs, CommandFrameAssumption DEF TopicNames
<1>2. k \in Seq(Nat) /\ Len(k) <= DataMax /\ v \in Seq(Nat) /\ Len(v) <= DataMax
  BY StringIs, CommandFrameAssumption
<1>3. Len(topic) < Limit16 /\ Len(k) < Limit32 /\ Len(v) < Limit32 /\ p \in Nat /\ p < Limit32
  BY <1>1, <1>2, CommandFrameAssumption DEF FramePartitions
<1> DEFINE r == FrameRecord(k, v)
           rest == EncodeRecord(r)
           data == FrameHead(CmdTypeSingle, topic, p) \o rest
           t == Len(topic)
<1>4. rest \in Seq(Nat)
  BY <1>2, <1>3, RecordWritten
<1> HIDE DEF rest, r
<1>5. /\ Placed(data, 4 + t, rest) /\ data[1] = CmdTypeSingle /\ Field(data, 2) = t
      /\ Slice(data, 3, t) = topic /\ Field(data, 3 + t) = p /\ Len(data) >= 3 + t
      /\ data \in Seq(Nat)
  <2>1. CmdTypeSingle \in Nat
    BY DEF CmdTypeSingle
  <2>2. HeadIs(data, CmdTypeSingle, topic, p, rest)
    BY <1>1, <1>3, <1>4, <2>1, HeadReads
  <2> HIDE DEF data
  <2> QED BY <2>2, Zenon DEF HeadIs
<1> HIDE DEF data
<1> DEFINE single == RecordAt(data, 4 + t)
<1>6. single = [error |-> FALSE, next |-> (4 + t) + Len(rest), record |-> r]
  BY <1>2, <1>3, <1>5, RecordReads DEF rest, r
<1>7. ~single.error /\ single.record = r
  BY <1>6
<1>8. t \in Nat /\ Len(data) \in Nat
  BY <1>1, <1>5
<1>9. ~(Len(data) < 3 \/ Len(data) < 3 + t)
  BY <1>5, <1>8
<1> HIDE DEF single
<1>10. Decode(data) = Decoded(data, t, <<single.record>>)
  BY <1>5, <1>7, <1>9 DEF Decode, CmdTypeSingle, CmdTypeBatch, single
<1>11. Decode(data) = [error |-> FALSE, topic |-> topic, partition |-> p, records |-> <<r>>]
  BY <1>5, <1>7, <1>10 DEF Decoded
<1> QED BY <1>11 DEF ReadsBack, EncodeCommand, data, rest, r

(***************************************************************************)
(* The records of a batch, written one after the other.                    *)
(***************************************************************************)
\* F[i] is what has been written once record number i is.
IsFlatten(F, parts, n) ==
  F = [i \in 1..n |-> IF i = 1 THEN parts[i] ELSE F[i-1] \o parts[i]]

\* The loop that writes them is a function that satisfies its own definition.
LEMMA FlattenExists ==
  ASSUME NEW parts, NEW n \in Nat
  PROVE  \E F : IsFlatten(F, parts, n)
<1> DEFINE Fl(F, m) == F = [i \in 1..m |-> IF i = 1 THEN parts[i] ELSE F[i-1] \o parts[i]]
           T == {m \in Nat : ~(\E F : Fl(F, m))}
<1>1. SUFFICES ASSUME T # {} PROVE FALSE
  BY <1>1 DEF IsFlatten
<1>2. PICK m \in T : \A k \in T : m <= k
  BY <1>1, LeastNat
<1>3. m # 0
  <2>1. Fl([i \in 1..0 |-> parts[i]], 0)
    OBVIOUS
  <2> QED BY <2>1
<1>4. PICK F : Fl(F, m - 1)
  <2>1. m - 1 \in Nat /\ ~(m <= m - 1)
    BY <1>3
  <2> QED BY <1>2, <2>1, Zenon
<1> DEFINE g == [i \in 1..m |-> IF i = m THEN (IF m = 1 THEN parts[m] ELSE F[m-1] \o parts[m]) ELSE F[i]]
<1>5. Fl(g, m)
  <2>1. ASSUME NEW i \in 1..m PROVE g[i] = IF i = 1 THEN parts[i] ELSE g[i-1] \o parts[i]
    <3>1. g[i] = IF i = m THEN (IF m = 1 THEN parts[m] ELSE F[m-1] \o parts[m]) ELSE F[i]
      BY Zenon
    <3>2. m \in Nat /\ i \in Nat /\ i <= m /\ i >= 1
      OBVIOUS
    <3>3. ASSUME i # 1 PROVE g[i-1] = F[i-1]
      <4>1. i - 1 \in 1..m /\ i - 1 # m
        BY <3>2, <3>3
      <4> QED BY <4>1, Zenon
    <3>4. ASSUME i # m PROVE F[i] = IF i = 1 THEN parts[i] ELSE F[i-1] \o parts[i]
      <4>1. i \in 1..(m-1)
        BY <3>2, <3>4
      <4> QED BY <1>4, <4>1, Zenon
    <3>5. CASE i = m
      BY <3>1, <3>3, <3>5, Zenon
    <3>6. CASE i # m
      BY <3>1, <3>3, <3>4, <3>6, Zenon
    <3> QED BY <3>5, <3>6
  <2> QED BY <2>1, Zenon
<1> QED BY <1>2, <1>5

\* FlattenSeq is the end of that loop.
LEMMA FlattenIs ==
  ASSUME NEW parts, Len(parts) \in Nat, Len(parts) # 0
  PROVE  \E F : IsFlatten(F, parts, Len(parts)) /\ FlattenSeq(parts) = F[Len(parts)]
<1> DEFINE Loop(F) == F = [i \in 1..Len(parts) |-> IF i = 1 THEN parts[i] ELSE F[i-1] \o parts[i]]
<1>1. ASSUME NEW F PROVE IsFlatten(F, parts, Len(parts)) <=> Loop(F)
  BY Zenon DEF IsFlatten
<1>2. FlattenSeq(parts) = (CHOOSE F : Loop(F))[Len(parts)]
  BY DEF FlattenSeq
<1> HIDE DEF Loop
<1>3. \E F : IsFlatten(F, parts, Len(parts))
  BY FlattenExists, Zenon
<1>4. Loop(CHOOSE F : Loop(F))
  BY <1>1, <1>3, Zenon
<1>5. IsFlatten(CHOOSE F : Loop(F), parts, Len(parts))
  BY <1>1, <1>4, Zenon
<1> QED BY <1>2, <1>5, Zenon

\* What has been written is a sequence of numbers and grows by one part a turn.
LEMMA FlattenGrows ==
  ASSUME NEW parts, NEW n \in Nat, NEW F, IsFlatten(F, parts, n),
         \A i \in 1..n : parts[i] \in Seq(Nat)
  PROVE  /\ \A i \in 1..n : F[i] \in Seq(Nat)
         /\ n # 0 => F[1] = parts[1]
         /\ \A i \in 2..n : F[i] = F[i-1] \o parts[i]
<1>1. \A i \in 1..n : F[i] = IF i = 1 THEN parts[i] ELSE F[i-1] \o parts[i]
  BY Zenon DEF IsFlatten
<1>2. n # 0 => F[1] = parts[1]
  <2>1. n # 0 => 1 \in 1..n
    OBVIOUS
  <2> QED BY <1>1, <2>1, Zenon
<1>3. \A i \in 2..n : F[i] = F[i-1] \o parts[i]
  <2>1. \A i \in 2..n : i \in 1..n /\ i # 1
    OBVIOUS
  <2> QED BY <1>1, <2>1, Zenon
<1> DEFINE T == {i \in 1..n : F[i] \notin Seq(Nat)}
<1>4. ASSUME T # {} PROVE FALSE
  <2>1. T \in SUBSET Nat
    OBVIOUS
  <2>2. PICK m \in T : \A k \in T : m <= k
    <3> HIDE DEF T
    <3> QED BY <1>4, <2>1, LeastNat
  <2>3. m \in 1..n /\ F[m] \notin Seq(Nat)
    OBVIOUS
  <2>4. m # 1
    BY <1>1, <2>3, Zenon
  <2>5. m \in 2..n /\ m - 1 \in 1..n /\ ~(m <= m - 1)
    BY <2>3, <2>4
  <2>6. F[m-1] \in Seq(Nat)
    BY <2>2, <2>5, Zenon
  <2>7. parts[m] \in Seq(Nat)
    BY <2>3, Zenon
  <2>8. F[m-1] \o parts[m] \in Seq(Nat)
    BY <2>6, <2>7, Joined
  <2>9. F[m] = F[m-1] \o parts[m]
    BY <1>3, <2>5, Zenon
  <2> QED BY <2>3, <2>8, <2>9, Zenon
<1>5. \A i \in 1..n : F[i] \in Seq(Nat)
  BY <1>4
<1> QED BY <1>2, <1>3, <1>5

\* When all of it stands in a frame, so does each part that led to it.
LEMMA FlattenPlaced ==
  ASSUME NEW parts, NEW n \in Nat, n # 0, NEW F, IsFlatten(F, parts, n),
         \A i \in 1..n : parts[i] \in Seq(Nat),
         NEW data, NEW at, Placed(data, at, F[n])
  PROVE  \A i \in 1..n : Placed(data, at, F[i])
<1>1. /\ \A i \in 1..n : F[i] \in Seq(Nat)
      /\ \A i \in 2..n : F[i] = F[i-1] \o parts[i]
  BY FlattenGrows, Zenon
<1> DEFINE T == {j \in 0..(n-1) : ~Placed(data, at, F[n-j])}
<1>2. ASSUME T # {} PROVE FALSE
  <2>1. T \in SUBSET Nat
    OBVIOUS
  <2>2. PICK m \in T : \A k \in T : m <= k
    <3> HIDE DEF T
    <3> QED BY <1>2, <2>1, LeastNat
  <2>3. m \in 0..(n-1) /\ ~Placed(data, at, F[n-m])
    OBVIOUS
  <2>4. m # 0
    <3>1. n - 0 = n
      OBVIOUS
    <3> QED BY <2>3, <3>1
  <2> DEFINE i == n - (m - 1)
  <2>5. /\ m - 1 \in 0..(n-1) /\ ~(m <= m - 1) /\ i \in 2..n /\ i \in 1..n
        /\ i - 1 = n - m /\ i - 1 \in 1..n
    BY <2>3, <2>4
  <2>6. Placed(data, at, F[i])
    BY <2>2, <2>5, Zenon
  <2> HIDE DEF i
  <2>7. F[i] = F[i-1] \o parts[i] /\ F[i-1] \in Seq(Nat) /\ parts[i] \in Seq(Nat)
    BY <1>1, <2>5, Zenon
  <2>8. Placed(data, at, F[i-1])
    BY <2>6, <2>7, PlacedSplit
  <2> QED BY <2>3, <2>5, <2>8
<1>3. ASSUME NEW i \in 1..n PROVE Placed(data, at, F[i])
  <2>1. n - i \in 0..(n-1) /\ n - (n - i) = i
    OBVIOUS
  <2>2. Placed(data, at, F[n - (n - i)])
    BY <1>2, <2>1, Zenon
  <2> QED BY <2>1, <2>2
<1> QED BY <1>3

\* A prefix grows by the element behind it.
LEMMA SubSeqAppend ==
  ASSUME NEW S, NEW s \in Seq(S), NEW i \in 1..Len(s)
  PROVE  Append(SubSeq(s, 1, i-1), s[i]) = SubSeq(s, 1, i)
<1>1. 1 \in 1..Len(s) /\ i \in 1..Len(s) /\ i - 1 \in Int /\ Len(s) \in Nat
  OBVIOUS
<1>2. SubSeq(s, 1, i) = SubSeq(s, 1, i-1) \o <<s[i]>>
  BY <1>1, SubSeqRecursiveSecond
<1>3. \A j \in 1..(i-1) : s[j] \in S
  <2>1. \A j \in 1..(i-1) : j \in 1..Len(s)
    BY <1>1
  <2> QED BY <2>1, ElementOfSeq
<1>4. SubSeq(s, 1, i-1) \in Seq(S) /\ s[i] \in S
  BY <1>1, <1>3, SubSeqProperties, ElementOfSeq
<1> QED BY <1>2, <1>4, AppendIsConcat

\* Where record number i + 1 of a batch starts, counted from the first.
PartEnd(F, i) == IF i = 0 THEN 0 ELSE Len(F[i])

\* Record number i stands behind the ones before it.
PartIs(F, parts, data, at, i) ==
  /\ Placed(data, at + PartEnd(F, i-1), parts[i])
  /\ (at + PartEnd(F, i-1)) + Len(parts[i]) = at + PartEnd(F, i)

\* What is written as a whole is written part by part.
LEMMA PartPlaced ==
  ASSUME NEW parts, NEW n \in Nat, n # 0, NEW F, IsFlatten(F, parts, n),
         \A i \in 1..n : parts[i] \in Seq(Nat),
         NEW data, NEW at, Placed(data, at, F[n]), NEW i \in 1..n
  PROVE  PartIs(F, parts, data, at, i)
<1>1. /\ \A j \in 1..n : F[j] \in Seq(Nat)
      /\ F[1] = parts[1]
      /\ \A j \in 2..n : F[j] = F[j-1] \o parts[j]
  <2>1. /\ \A j \in 1..n : F[j] \in Seq(Nat)
        /\ n # 0 => F[1] = parts[1]
        /\ \A j \in 2..n : F[j] = F[j-1] \o parts[j]
    BY FlattenGrows, Zenon
  <2> QED BY <2>1, Zenon
<1>2. Placed(data, at, F[i])
  BY FlattenPlaced, Zenon
<1>3. at \in Nat
  BY <1>2 DEF Placed
<1>4. parts[i] \in Seq(Nat)
  OBVIOUS
<1>5. CASE i = 1
  <2>1. PartEnd(F, i-1) = 0 /\ PartEnd(F, i) = Len(F[1])
    BY <1>5 DEF PartEnd
  <2>2. Len(parts[1]) \in Nat
    BY <1>4, <1>5
  <2>3. at + 0 = at /\ (at + 0) + Len(parts[1]) = at + Len(parts[1])
    BY <1>3, <2>2
  <2> QED BY <1>1, <1>2, <1>5, <2>1, <2>3 DEF PartIs
<1>6. CASE i # 1
  <2>1. i \in 2..n /\ i - 1 \in 1..n /\ i - 1 # 0 /\ i # 0
    BY <1>6
  <2>2. F[i] = F[i-1] \o parts[i] /\ F[i-1] \in Seq(Nat)
    BY <1>1, <2>1, Zenon
  <2>3. PartEnd(F, i-1) = Len(F[i-1]) /\ PartEnd(F, i) = Len(F[i])
    BY <2>1 DEF PartEnd
  <2>4. Placed(data, at + Len(F[i-1]), parts[i])
    BY <1>2, <1>4, <2>2, PlacedSplit
  <2>5. Len(F[i]) = Len(F[i-1]) + Len(parts[i])
    BY <1>4, <2>2, Joined
  <2>6. Len(F[i-1]) \in Nat /\ Len(parts[i]) \in Nat
    BY <1>4, <2>2
  <2>7. \A x, y, z \in Nat : (x + y) + z = x + (y + z)
    OBVIOUS
  <2>8. (at + Len(F[i-1])) + Len(parts[i]) = at + Len(F[i])
    <3>1. (at + Len(F[i-1])) + Len(parts[i]) = at + (Len(F[i-1]) + Len(parts[i]))
      BY <1>3, <2>6, <2>7
    <3> QED BY <2>5, <3>1, Zenon
  <2> QED BY <2>3, <2>4, <2>8, Zenon DEF PartIs
<1> QED BY <1>5, <1>6

\* The records of a batch fit their fields.
Fitting == {r \in CleanRecord : Len(r.key) < Limit32 /\ Len(r.value) < Limit32}

\* After turn i the decoder has read the first i records and stands at the next.
ReadsParts(f, F, records, at, n) ==
  \A i \in 0..n : f[i] = [error |-> FALSE, next |-> at + PartEnd(F, i),
                          records |-> SubSeq(records, 1, i)]

\* The loop of the decoder reads the records in the order they were written.
LEMMA BatchReads ==
  ASSUME NEW n \in Nat, n # 0, NEW records \in [1..n -> Fitting], NEW F,
         IsFlatten(F, [i \in 1..n |-> EncodeRecord(records[i])], n),
         NEW data, NEW at, Placed(data, at, F[n]),
         NEW f, IsParse(f, data, at, n)
  PROVE  ReadsParts(f, F, records, at, n)
<1> DEFINE parts == [i \in 1..n |-> EncodeRecord(records[i])]
           Good(i) == f[i] = [error |-> FALSE, next |-> at + PartEnd(F, i),
                              records |-> SubSeq(records, 1, i)]
<1>1. records \in Seq(Fitting) /\ Len(records) = n
  OBVIOUS
<1>2. ASSUME NEW i \in 1..n
      PROVE  /\ records[i] = FrameRecord(records[i].key, records[i].value)
             /\ records[i].key \in Seq(Nat) /\ records[i].value \in Seq(Nat)
             /\ Len(records[i].key) < Limit32 /\ Len(records[i].value) < Limit32
  <2> DEFINE r == records[i]
  <2>1. r \in CleanRecord /\ Len(r.key) < Limit32 /\ Len(r.value) < Limit32
    BY DEF Fitting
  <2> HIDE DEF r
  <2>2. r = FrameRecord(r.key, r.value) /\ r.key \in Seq(Nat) /\ r.value \in Seq(Nat)
    BY <2>1 DEF CleanRecord, FrameRecord
  <2> QED BY <2>1, <2>2 DEF r
<1>3. ASSUME NEW i \in 1..n PROVE parts[i] = EncodeRecord(records[i]) /\ parts[i] \in Seq(Nat)
  <2>1. EncodeRecord(FrameRecord(records[i].key, records[i].value)) \in Seq(Nat)
    BY <1>2, RecordWritten
  <2> QED BY <1>2, <2>1
<1> HIDE DEF parts
<1>4. IsFlatten(F, parts, n)
  BY DEF parts
<1>5. at \in Nat
  BY DEF Placed
<1>6. Good(0)
  <2>1. 0 \in 0..n
    OBVIOUS
  <2>2. f[0] = ParseStart(at)
    BY <2>1, Zenon DEF IsParse
  <2>3. at + PartEnd(F, 0) = at
    BY <1>5 DEF PartEnd
  <2>4. SubSeq(records, 1, 0) = << >>
    BY SubSeqEmpty
  <2> QED BY <2>2, <2>3, <2>4 DEF ParseStart
<1>7. ASSUME NEW i \in 1..n, Good(i-1) PROVE Good(i)
  <2> DEFINE here == RecordAt(data, at + PartEnd(F, i-1))
             before == SubSeq(records, 1, i-1)
  <2>1. i \in 0..n /\ i # 0
    OBVIOUS
  <2>2. f[i] = ParseTurn(f[i-1], data)
    BY <2>1, Zenon DEF IsParse
  <2>3. /\ Placed(data, at + PartEnd(F, i-1), parts[i])
        /\ (at + PartEnd(F, i-1)) + Len(parts[i]) = at + PartEnd(F, i)
    <3>1. \A j \in 1..n : parts[j] \in Seq(Nat)
      BY <1>3, Zenon
    <3>2. PartIs(F, parts, data, at, i)
      BY <1>4, <3>1, PartPlaced, Zenon
    <3> QED BY <3>2, Zenon DEF PartIs
  <2>4. here = [error |-> FALSE, next |-> (at + PartEnd(F, i-1)) + Len(parts[i]),
                record |-> records[i]]
    <3> DEFINE k == records[i].key
               v == records[i].value
    <3>1. k \in Seq(Nat) /\ v \in Seq(Nat) /\ Len(k) < Limit32 /\ Len(v) < Limit32
      BY <1>2
    <3>2. records[i] = FrameRecord(k, v) /\ parts[i] = EncodeRecord(FrameRecord(k, v))
      BY <1>2, <1>3, Zenon
    <3> HIDE DEF k, v
    <3>3. Placed(data, at + PartEnd(F, i-1), EncodeRecord(FrameRecord(k, v)))
      BY <2>3, <3>2, Zenon
    <3> QED BY <3>1, <3>2, <3>3, RecordReads, Zenon
  <2>5. f[i-1].error = FALSE /\ f[i-1].next = at + PartEnd(F, i-1) /\ f[i-1].records = before
    BY <1>7
  <2>6. f[i] = IF f[i-1].error \/ here.error THEN Malformed
               ELSE [error |-> FALSE, next |-> here.next,
                     records |-> Append(before, here.record)]
    BY <2>2, <2>5, Zenon DEF ParseTurn
  <2>7. here.error = FALSE /\ here.next = at + PartEnd(F, i) /\ here.record = records[i]
    <3> HIDE DEF here
    <3> QED BY <2>3, <2>4
  <2>8. Append(before, records[i]) = SubSeq(records, 1, i)
    BY <1>1, SubSeqAppend
  <2> HIDE DEF here, before
  <2> QED BY <2>5, <2>6, <2>7, <2>8
<1> HIDE DEF Good
<1> DEFINE T == {i \in 0..n : ~Good(i)}
<1>8. ASSUME T # {} PROVE FALSE
  <2>1. T \in SUBSET Nat
    OBVIOUS
  <2>2. PICK m \in T : \A j \in T : m <= j
    <3> HIDE DEF T
    <3> QED BY <1>8, <2>1, LeastNat
  <2>3. m \in 0..n /\ ~Good(m)
    OBVIOUS
  <2>4. m # 0
    BY <1>6, <2>3
  <2>5. m \in 1..n /\ m - 1 \in 0..n /\ ~(m <= m - 1)
    BY <2>3, <2>4
  <2>6. Good(m - 1)
    BY <2>2, <2>5, Zenon
  <2> QED BY <1>7, <2>3, <2>5, <2>6, Zenon
<1>9. \A i \in 0..n : Good(i)
  BY <1>8, Zenon
<1> QED BY <1>9, Zenon DEF Good, ReadsParts

\* FSM.Apply reads from the frame of EncodeBatchCommand the records of the
\* batch, in order, however many there are: none is lost, split or joined.
THEOREM BatchFrames == BatchRoundTrip
<1> SUFFICES ASSUME NEW topic \in TopicNames, NEW p \in FramePartitions,
                    NEW n \in 1..CountMax, NEW records \in [1..n -> FrameRecords]
             PROVE  ReadsBack(EncodeBatchCommand(topic, p, records), topic, p, records)
  BY Zenon DEF BatchRoundTrip, BatchReadsBack
<1>1. topic \in Seq(Nat) /\ Len(topic) <= NameMax
  BY StringIs, CommandFrameAssumption DEF TopicNames
<1>2. /\ Len(topic) < Limit16 /\ p \in Nat /\ p < Limit32
      /\ n \in Nat /\ n # 0 /\ n < Limit32
  BY <1>1, CommandFrameAssumption DEF FramePartitions
<1>3. records \in [1..n -> Fitting]
  <2>1. ASSUME NEW r \in FrameRecords PROVE r \in Fitting
    <3>1. PICK k \in Strings(0, DataMax), v \in Strings(0, DataMax) : r = FrameRecord(k, v)
      BY DEF FrameRecords
    <3>2. k \in Seq(Nat) /\ Len(k) <= DataMax /\ v \in Seq(Nat) /\ Len(v) <= DataMax
      BY StringIs, CommandFrameAssumption
    <3>3. Len(k) < Limit32 /\ Len(v) < Limit32
      BY <3>2, CommandFrameAssumption
    <3>4. r = [key |-> k, value |-> v]
      BY <3>1 DEF FrameRecord
    <3> QED BY <3>2, <3>3, <3>4 DEF Fitting, CleanRecord
  <2> QED BY <2>1
<1>4. records \in Seq(Fitting) /\ Len(records) = n /\ DOMAIN records = 1..n
  BY <1>2, <1>3
<1> DEFINE parts == [i \in 1..n |-> EncodeRecord(records[i])]
           rest == <<n>> \o FlattenSeq(parts)
           data == FrameHead(CmdTypeBatch, topic, p) \o rest
           t == Len(topic)
<1>5. ASSUME NEW i \in 1..n PROVE parts[i] \in Seq(Nat)
  <2> DEFINE r == records[i]
  <2>1. r \in CleanRecord /\ Len(r.key) < Limit32 /\ Len(r.value) < Limit32
    BY <1>3 DEF Fitting
  <2>2. parts[i] = EncodeRecord(r)
    OBVIOUS
  <2> HIDE DEF r, parts
  <2>3. r = FrameRecord(r.key, r.value) /\ r.key \in Seq(Nat) /\ r.value \in Seq(Nat)
    BY <2>1 DEF CleanRecord, FrameRecord
  <2>4. EncodeRecord(FrameRecord(r.key, r.value)) \in Seq(Nat)
    BY <2>1, <2>3, RecordWritten
  <2> QED BY <2>2, <2>3, <2>4
<1>6. Len(parts) = n
  BY <1>2, <1>5
<1>7. PICK F : IsFlatten(F, parts, n) /\ FlattenSeq(parts) = F[n]
  <2> HIDE DEF parts
  <2> QED BY <1>2, <1>6, FlattenIs
<1>8. EncodeBatchCommand(topic, p, records) = data
  <2>1. n % Limit32 = n
    BY <1>2, CommandFrameAssumption, Fits
  <2>2. FrameHead(CmdTypeBatch, topic, p) \in Seq(Nat) /\ <<n>> \in Seq(Nat)
    BY <1>1, <1>2, HeadWritten DEF CmdTypeBatch
  <2>3. FlattenSeq(parts) \in Seq(Nat)
    <3> HIDE DEF parts
    <3>1. n \in 1..n
      BY <1>2
    <3>2. F[n] \in Seq(Nat)
      BY <1>2, <1>5, <1>7, <3>1, FlattenGrows, Zenon
    <3> QED BY <1>7, <3>2
  <2>4. EncodeBatchCommand(topic, p, records)
          = FrameHead(CmdTypeBatch, topic, p) \o <<n>> \o FlattenSeq(parts)
    BY <1>4, <2>1 DEF EncodeBatchCommand
  <2> HIDE DEF parts
  <2> QED BY <2>2, <2>3, <2>4, ConcatAssociative
<1> HIDE DEF parts
<1>9. F[n] \in Seq(Nat) /\ <<n>> \in Seq(Nat) /\ Len(<<n>>) = 1
  <2>1. n \in 1..n
    BY <1>2
  <2>2. F[n] \in Seq(Nat)
    BY <1>2, <1>5, <1>7, <2>1, FlattenGrows, Zenon
  <2> QED BY <1>2, <2>2
<1>10. rest = <<n>> \o F[n] /\ rest \in Seq(Nat)
  BY <1>7, <1>9, Joined
<1> HIDE DEF rest
<1>11. /\ Placed(data, 4 + t, rest) /\ data[1] = CmdTypeBatch /\ Field(data, 2) = t
       /\ Slice(data, 3, t) = topic /\ Field(data, 3 + t) = p /\ Len(data) >= 3 + t
       /\ data \in Seq(Nat)
  <2>1. CmdTypeBatch \in Nat
    BY DEF CmdTypeBatch
  <2>2. HeadIs(data, CmdTypeBatch, topic, p, rest)
    BY <1>1, <1>2, <1>10, <2>1, HeadReads
  <2> HIDE DEF data
  <2> QED BY <2>2, Zenon DEF HeadIs
<1> HIDE DEF data
<1>12. t \in Nat /\ Len(data) \in Nat
  BY <1>1, <1>11
<1>13. Placed(data, 4 + t, <<n>>) /\ Placed(data, (4 + t) + 1, F[n])
  BY <1>9, <1>10, <1>11, PlacedSplit
<1>14. Field(data, 4 + t) = n /\ 4 + t <= Len(data)
  BY <1>2, <1>13, PlacedField
<1> DEFINE batch == RecordsAt(data, (4 + t) + 1, n)
<1>15. batch.error = FALSE /\ batch.records = records
  <2>1. PICK f : IsParse(f, data, (4 + t) + 1, n) /\ batch = f[n]
    BY <1>2, RecordsAtIs
  <2>2. \A i \in 0..n : f[i] = [error |-> FALSE, next |-> ((4 + t) + 1) + PartEnd(F, i),
                                records |-> SubSeq(records, 1, i)]
    <3>1. IsFlatten(F, [i \in 1..n |-> EncodeRecord(records[i])], n)
      BY <1>7, Zenon DEF parts
    <3>2. ReadsParts(f, F, records, (4 + t) + 1, n)
      BY <1>2, <1>3, <1>13, <2>1, <3>1, BatchReads, Zenon
    <3> QED BY <3>2, Zenon DEF ReadsParts
  <2>3. n \in 0..n
    BY <1>2
  <2>4. f[n] = [error |-> FALSE, next |-> ((4 + t) + 1) + PartEnd(F, n),
                records |-> SubSeq(records, 1, n)]
    BY <2>2, <2>3, Zenon
  <2>5. SubSeq(records, 1, n) = records
    BY <1>4, SubSeqFull
  <2> HIDE DEF batch
  <2> QED BY <2>1, <2>4, <2>5
<1>16. ~(Len(data) < 3 \/ Len(data) < 3 + t) /\ ~(Len(data) < 4 + t)
  BY <1>11, <1>12, <1>14
<1>17. Decode(data) = IF Len(data) < 4 + t \/ batch.error THEN Malformed
                      ELSE Decoded(data, t, batch.records)
  <2> HIDE DEF t
  <2> QED BY <1>11, <1>14, <1>16 DEF Decode, CmdTypeSingle, CmdTypeBatch
<1> HIDE DEF batch
<1>18. Decode(data) = Decoded(data, t, records)
  BY <1>15, <1>16, <1>17
<1>19. Decode(data) = [error |-> FALSE, topic |-> topic, partition |-> p, records |-> records]
  BY <1>11, <1>18 DEF Decoded
<1> QED BY <1>8, <1>19 DEF ReadsBack
====
