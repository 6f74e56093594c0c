------------------------------ MODULE DeviceProofs ------------------------------
(***************************************************************************)
(* Lemmas about the streams of the device.  First about the operations of  *)
(* Streams: what they do to the types and to the level of a queue.  Then   *)
(* about StreamDevice: the bytes the I2C task has in flight.               *)
(***************************************************************************)
EXTENDS StreamDevice, SequenceTheorems, FiniteSetTheorems, TLAPS

(* A push keeps the queue within its capacity and adds at most what it is    *)
(* given (push_back).                                                        *)
LEMMA PushBackFits ==
  ASSUME NEW q \in Seq(Byte), Len(q) <= Capacity, NEW data \in Seq(Byte)
  PROVE  /\ Accepted(q, data) \in 0 .. Len(data)
         /\ PushBack(q, data) \in Seq(Byte)
         /\ Len(PushBack(q, data)) = Len(q) + Accepted(q, data)
         /\ Len(PushBack(q, data)) <= Capacity
<1>1. /\ Len(q) \in Nat
      /\ Len(data) \in Nat
      /\ \A i \in 1 .. Len(data) : data[i] \in Byte
  BY ElementOfSeq, LenProperties
<1>2. /\ Accepted(q, data) \in 0 .. Len(data)
      /\ Len(q) + Accepted(q, data) <= Capacity
  BY <1>1, CapacityAssumption DEF Accepted, Free
<1> DEFINE head == SubSeq(data, 1, Accepted(q, data))
<1>3. head \in Seq(Byte) /\ Len(head) = Accepted(q, data)
  <2>1. \A i \in 1 .. Accepted(q, data) : data[i] \in Byte
    BY <1>1, <1>2
  <2> QED
    BY <1>2, <2>1, SubSeqProperties
<1>4. q \o head \in Seq(Byte) /\ Len(q \o head) = Len(q) + Len(head)
  BY <1>3, ConcatProperties
<1> QED
  BY <1>2, <1>3, <1>4 DEF PushBack

(* Putting a byte back never overflows; with room left it is at the front    *)
(* (push_front_one).                                                         *)
LEMMA PushFrontFits ==
  ASSUME NEW q \in Seq(Byte), Len(q) <= Capacity, NEW v \in Byte
  PROVE  /\ PushFrontOne(q, v) \in Seq(Byte)
         /\ Len(PushFrontOne(q, v)) <= Capacity
         /\ Len(PushFrontOne(q, v)) <= Len(q) + 1
         /\ Len(q) < Capacity => PushFrontOne(q, v) = <<v>> \o q
<1>1. <<v>> \in Seq(Byte) /\ Len(<<v>>) = 1 /\ Len(q) \in Nat
  BY LenProperties
<1>2. <<v>> \o q \in Seq(Byte) /\ Len(<<v>> \o q) = 1 + Len(q)
  BY <1>1, ConcatProperties
<1> QED
  BY <1>1, <1>2, CapacityAssumption DEF PushFrontOne

(* Every embedded stream has a sample to play. *)
LEMMA SamplesNotEmpty ==
  ASSUME NEW a \in EmbeddedAddr
  PROVE  /\ EmbeddedData[a] \in Seq(Byte)
         /\ Len(EmbeddedData[a]) \in Nat \ {0}
<1>1. EmbeddedData[a] \in Seq(Byte) /\ EmbeddedData[a] # <<>>
  BY StreamsAssumption
<1> QED
  BY <1>1, EmptySeq

LEMMA EmbeddedValueType ==
  ASSUME StreamsTypeOK, NEW a \in EmbeddedAddr
  PROVE  EmbeddedValue(a) \in Byte
<1>1. cursor[a] + 1 \in 1 .. Len(EmbeddedData[a])
  BY SamplesNotEmpty DEF StreamsTypeOK
<1> QED
  BY <1>1, SamplesNotEmpty, ElementOfSeq DEF EmbeddedValue

LEMMA StreamsInitType == StreamsInit => StreamsTypeOK
<1> SUFFICES ASSUME StreamsInit PROVE StreamsTypeOK
  OBVIOUS
<1> USE DEF StreamsInit
<1>1. \A a \in EmbeddedAddr : cursor[a] < Len(EmbeddedData[a])
  BY SamplesNotEmpty
<1>2. \A s \in StreamId : queue[s] \in Seq(Byte) /\ Len(queue[s]) <= Capacity
  BY CapacityAssumption, EmptySeq
<1>3. 0 \in 0 .. CounterMod - 1
  BY StreamsAssumption
<1> QED
  BY <1>1, <1>2, <1>3 DEF StreamsTypeOK

-------------------------------------------------------------------------------
(* Each function of streams.rs keeps the types of the manager's state: one   *)
(* lemma per function.                                                       *)
LEMMA StreamsUnchanged ==
  ASSUME StreamsTypeOK, UNCHANGED streamVars
  PROVE  StreamsTypeOK'
BY DEF StreamsTypeOK, streamVars

LEMMA AdvanceCursorType ==
  ASSUME StreamsTypeOK, NEW a \in EmbeddedAddr, AdvanceCursor(a)
  PROVE  StreamsTypeOK'
<1>1. /\ cursor[a] \in Nat
      /\ (cursor[a] + 1) % Len(EmbeddedData[a]) \in 0 .. Len(EmbeddedData[a]) - 1
  BY SamplesNotEmpty DEF StreamsTypeOK
<1> QED
  BY <1>1, SamplesNotEmpty DEF StreamsTypeOK, AdvanceCursor

LEMMA RetreatCursorType ==
  ASSUME StreamsTypeOK, NEW a \in EmbeddedAddr, RetreatCursor(a)
  PROVE  StreamsTypeOK'
BY SamplesNotEmpty DEF StreamsTypeOK, RetreatCursor

LEMMA PopByteType ==
  ASSUME StreamsTypeOK, NEW s \in StreamId, PopByte(s)
  PROVE  /\ StreamsTypeOK'
         /\ Head(queue[s]) \in Byte
         /\ Len(queue'[s]) = Len(queue[s]) - 1
<1>1. queue[s] \in Seq(Byte) /\ queue[s] # <<>> /\ Len(queue[s]) \in Nat
  BY LenProperties DEF StreamsTypeOK, PopByte
<1>2. /\ Head(queue[s]) \in Byte
      /\ Tail(queue[s]) \in Seq(Byte)
      /\ Len(Tail(queue[s])) = Len(queue[s]) - 1
  BY <1>1, HeadTailProperties
<1> QED
  BY <1>1, <1>2, CapacityAssumption DEF StreamsTypeOK, PopByte

LEMMA CountUnderrunType ==
  ASSUME StreamsTypeOK, NEW s \in StreamId, CountUnderrun(s)
  PROVE  StreamsTypeOK'
<1>1. (underruns[s] + 1) % CounterMod \in 0 .. CounterMod - 1
  BY StreamsAssumption DEF StreamsTypeOK
<1> QED
  BY <1>1 DEF StreamsTypeOK, CountUnderrun

LEMMA UncountUnderrunType ==
  ASSUME StreamsTypeOK, NEW s \in StreamId, UncountUnderrun(s)
  PROVE  StreamsTypeOK'
BY StreamsAssumption DEF StreamsTypeOK, UncountUnderrun

LEMMA UnpopByteType ==
  ASSUME StreamsTypeOK, NEW s \in StreamId, NEW v \in Byte,
         NEW prev \in Byte \cup {NoByte}, UnpopByte(s, v, prev)
  PROVE  StreamsTypeOK'
<1>1. queue[s] \in Seq(Byte) /\ Len(queue[s]) <= Capacity
  BY DEF StreamsTypeOK
<1>2. PushFrontOne(queue[s], v) \in Seq(Byte) /\ Len(PushFrontOne(queue[s], v)) <= Capacity
  BY <1>1, PushFrontFits
<1> QED
  BY <1>2 DEF StreamsTypeOK, UnpopByte

LEMMA RollbackEffectType ==
  ASSUME StreamsTypeOK, NEW e \in ReadEffect, RollbackEffect(e)
  PROVE  StreamsTypeOK'
<1>1. CASE e.kind = "None"
  BY <1>1 DEF StreamsTypeOK, RollbackEffect, streamVars
<1>2. CASE e.kind = "EmbeddedAdvance"
  <2>1. e.addr \in EmbeddedAddr
    BY <1>2 DEF ReadEffect, NoEffect
  <2> QED
    BY <1>2, <2>1, RetreatCursorType DEF RollbackEffect
<1>3. CASE e.kind = "HostPop"
  <2>1. e.id \in StreamId /\ e.value \in Byte /\ e.prev \in Byte \cup {NoByte}
    BY <1>3 DEF ReadEffect, NoEffect
  <2> QED
    BY <1>3, <2>1, UnpopByteType DEF RollbackEffect
<1>4. CASE e.kind = "HostUnderrun"
  <2>1. e.id \in StreamId
    BY <1>4 DEF ReadEffect, NoEffect
  <2> QED
    BY <1>4, <2>1, UncountUnderrunType DEF RollbackEffect
<1> QED
  BY <1>1, <1>2, <1>3, <1>4 DEF RollbackEffect

LEMMA FeedStreamType ==
  ASSUME StreamsTypeOK, NEW s \in StreamId, NEW data \in Seq(Byte), FeedStream(s, data)
  PROVE  StreamsTypeOK'
<1>1. queue[s] \in Seq(Byte) /\ Len(queue[s]) <= Capacity
  BY DEF StreamsTypeOK
<1>2. /\ PushBack(queue[s], data) \in Seq(Byte)
      /\ Len(PushBack(queue[s], data)) <= Capacity
      /\ Accepted(queue[s], data) \in 0 .. Len(data)
  BY <1>1, PushBackFits
<1>3. (drops[s] + Len(data) - Accepted(queue[s], data)) % CounterMod \in 0 .. CounterMod - 1
  BY <1>2, LenProperties, StreamsAssumption DEF StreamsTypeOK
<1> QED
  BY <1>2, <1>3 DEF StreamsTypeOK, FeedStream

LEMMA ResetAllType ==
  ASSUME ResetAll
  PROVE  StreamsTypeOK'
<1> USE DEF ResetAll
<1>1. \A a \in EmbeddedAddr : cursor'[a] < Len(EmbeddedData[a])
  BY SamplesNotEmpty
<1>2. \A s \in StreamId : queue'[s] \in Seq(Byte) /\ Len(queue'[s]) <= Capacity
  BY CapacityAssumption, EmptySeq
<1>3. 0 \in 0 .. CounterMod - 1
  BY StreamsAssumption
<1> QED
  BY <1>1, <1>2, <1>3 DEF StreamsTypeOK

-------------------------------------------------------------------------------
(* The state of the streams, and the effects the I2C task keeps. *)
DeviceTypeOK ==
  /\ StreamsTypeOK
  /\ ahead \in Seq(ReadEffect)
  /\ Len(ahead) <= ReadAhead

(* What a stream holds, the bytes in flight included. *)
Level(s) == Len(queue[s]) + InFlight(s)

LEMMA DeviceInitType == DeviceInit => DeviceTypeOK
BY StreamsInitType, EmptySeq, ReadAheadAssumption DEF DeviceInit, DeviceTypeOK

LEMMA FeedParts ==
  ASSUME NEW op, NEW payload \in Seq(Byte), IsFeed(op, payload)
  PROVE  Head(payload) \in StreamId /\ Tail(payload) \in Seq(Byte)
BY HeadTailProperties DEF IsFeed

LEMMA CarryOutType ==
  ASSUME DeviceTypeOK, NEW op, NEW payload \in Seq(Byte), CarryOut(op, payload), ahead' = ahead
  PROVE  DeviceTypeOK'
<1>1. StreamsTypeOK'
  BY FeedParts, FeedStreamType, ResetAllType, StreamsUnchanged DEF CarryOut, DeviceTypeOK
<1> QED
  BY <1>1 DEF DeviceTypeOK

(* The newest effect is taken off. *)
LEMMA ShorterAhead ==
  ASSUME DeviceTypeOK, ahead # <<>>, ahead' = SubSeq(ahead, 1, Len(ahead) - 1)
  PROVE  /\ ahead[Len(ahead)] \in ReadEffect
         /\ ahead' \in Seq(ReadEffect)
         /\ Len(ahead) \in 1 .. ReadAhead
         /\ Len(ahead') = Len(ahead) - 1
         /\ \A i \in 1 .. Len(ahead) - 1 : ahead'[i] = ahead[i]
<1>1. ahead \in Seq(ReadEffect) /\ Len(ahead) \in Nat \ {0} /\ Len(ahead) <= ReadAhead
  BY EmptySeq DEF DeviceTypeOK
<1>2. \A i \in 1 .. Len(ahead) : ahead[i] \in ReadEffect
  BY <1>1, ElementOfSeq
<1> DEFINE n == Len(ahead) - 1
<1>3. n \in Nat /\ \A i \in 1 .. n : ahead[i] \in ReadEffect
  BY <1>1, <1>2
<1>4. /\ ahead' \in Seq(ReadEffect)
      /\ Len(ahead') = IF 1 <= n THEN n - 1 + 1 ELSE 0
      /\ \A i \in 1 .. n - 1 + 1 : ahead'[i] = ahead[1 + i - 1]
  <2> HIDE DEF n
  <2>1. ahead' = SubSeq(ahead, 1, n)
    BY DEF n
  <2> QED
    BY <1>3, <2>1, SubSeqProperties
<1>5. Len(ahead') = n /\ \A i \in 1 .. n : ahead'[i] = ahead[i]
  <2> HIDE DEF n
  <2> QED
    BY <1>3, <1>4
<1>6. Len(ahead) \in 1 .. Len(ahead) /\ Len(ahead) \in 1 .. ReadAhead
  BY <1>1, ReadAheadAssumption
<1> QED
  BY <1>2, <1>4, <1>5, <1>6

LEMMA PopEffect ==
  ASSUME DeviceTypeOK, NEW s \in StreamId, I2cPops(s)
  PROVE  /\ HostPop(s, Head(queue[s]), last[s]) \in ReadEffect
         /\ StreamsTypeOK'
         /\ Len(queue'[s]) = Len(queue[s]) - 1
         /\ Len(ahead) < ReadAhead
         /\ ahead' \in Seq(ReadEffect)
         /\ Len(ahead') = Len(ahead) + 1
         /\ \A i \in 1 .. Len(ahead) : ahead'[i] = ahead[i]
         /\ ahead'[Len(ahead) + 1] = HostPop(s, Head(queue[s]), last[s])
<1> DEFINE e == HostPop(s, Head(queue[s]), last[s])
<1>1. /\ StreamsTypeOK' /\ Head(queue[s]) \in Byte /\ Len(queue'[s]) = Len(queue[s]) - 1
  BY PopByteType DEF I2cPops, DeviceTypeOK
<1>2. last[s] \in Byte \cup {NoByte}
  BY DEF DeviceTypeOK, StreamsTypeOK
<1>3. e \in ReadEffect
  BY <1>1, <1>2 DEF HostPop, ReadEffect
<1>4. ahead' = Append(ahead, e) /\ Len(ahead) < ReadAhead /\ ahead \in Seq(ReadEffect)
  BY DEF I2cPops, DeviceTypeOK
<1> HIDE DEF e
<1>5. /\ ahead' \in Seq(ReadEffect)
      /\ Len(ahead') = Len(ahead) + 1
      /\ \A i \in 1 .. Len(ahead) : ahead'[i] = ahead[i]
      /\ ahead'[Len(ahead) + 1] = e
  BY <1>3, <1>4, AppendProperties
<1> QED
  BY <1>1, <1>3, <1>4, <1>5 DEF e

LEMMA I2cTaskType ==
  ASSUME DeviceTypeOK, I2cTask
  PROVE  DeviceTypeOK'
<1> USE ReadAheadAssumption
<1>1. ASSUME NEW s \in StreamId, I2cPops(s)
      PROVE  DeviceTypeOK'
  <2>1. Len(ahead) \in Nat
    BY LenProperties DEF DeviceTypeOK
  <2> QED
    BY <1>1, <2>1, PopEffect DEF DeviceTypeOK
<1>2. CASE I2cRollsBack
  <2>1. ahead # <<>> /\ ahead' = SubSeq(ahead, 1, Len(ahead) - 1)
    BY <1>2 DEF I2cRollsBack
  <2>2. /\ ahead[Len(ahead)] \in ReadEffect /\ ahead' \in Seq(ReadEffect)
        /\ Len(ahead) \in 1 .. ReadAhead /\ Len(ahead') = Len(ahead) - 1
    BY <2>1, ShorterAhead
  <2>3. StreamsTypeOK'
    BY <1>2, <2>2, RollbackEffectType DEF I2cRollsBack, DeviceTypeOK
  <2> QED
    BY <2>2, <2>3 DEF DeviceTypeOK
<1>3. CASE I2cDelivers
  BY <1>3, StreamsUnchanged, EmptySeq DEF I2cDelivers, DeviceTypeOK
<1> QED
  BY <1>1, <1>2, <1>3 DEF I2cTask

-------------------------------------------------------------------------------
LEMMA PopsBounded ==
  ASSUME NEW c, Len(c) \in Nat, Len(c) <= ReadAhead, NEW s
  PROVE  /\ IsFiniteSet({i \in 1 .. Len(c) : IsPopOf(c[i], s)})
         /\ Cardinality({i \in 1 .. Len(c) : IsPopOf(c[i], s)}) \in 0 .. ReadAhead
<1> DEFINE top == Len(c)
           all == 1 .. top
           pops == {i \in all : IsPopOf(c[i], s)}
<1>1. top \in Nat /\ top \in Int /\ 1 \in Int /\ top <= ReadAhead
  OBVIOUS
<1> HIDE DEF top
<1>2. IsFiniteSet(all) /\ Cardinality(all) = IF 1 > top THEN 0 ELSE top - 1 + 1
  BY <1>1, FS_Interval, Zenon
<1>3. Cardinality(all) \in 0 .. ReadAhead
  BY <1>1, <1>2, ReadAheadAssumption
<1>4. pops \in SUBSET all
  OBVIOUS
<1> HIDE DEF pops, all
<1>5. IsFiniteSet(pops) /\ Cardinality(pops) <= Cardinality(all)
  BY <1>2, <1>4, FS_Subset
<1>6. Cardinality(pops) \in Nat
  BY <1>5, FS_CardinalityType
<1>7. IsFiniteSet(pops) /\ Cardinality(pops) \in 0 .. ReadAhead
  BY <1>3, <1>5, <1>6, ReadAheadAssumption
<1> QED
  BY <1>7 DEF pops, all, top

LEMMA InFlightBounded ==
  ASSUME DeviceTypeOK, NEW s
  PROVE  IsFiniteSet(PopsAhead(s)) /\ InFlight(s) \in 0 .. ReadAhead
<1>1. Len(ahead) \in Nat /\ Len(ahead) <= ReadAhead
  BY LenProperties DEF DeviceTypeOK
<1> QED
  BY <1>1, PopsBounded DEF PopsAhead, InFlight

LEMMA LevelType ==
  ASSUME DeviceTypeOK, NEW s \in StreamId
  PROVE  /\ Len(queue[s]) \in 0 .. Capacity
         /\ Level(s) \in Nat
<1>1. queue[s] \in Seq(Byte) /\ Len(queue[s]) <= Capacity
  BY DEF DeviceTypeOK, StreamsTypeOK
<1> QED
  BY <1>1, InFlightBounded, LenProperties, CapacityAssumption, ReadAheadAssumption DEF Level

(* Popping, putting back and delivering never raise the level of a stream.   *)
LEMMA I2cTaskLevel ==
  ASSUME DeviceTypeOK, I2cTask, NEW s \in StreamId
  PROVE  Level(s)' \in Nat /\ Level(s)' <= Level(s)
<1> USE ReadAheadAssumption
<1>1. DeviceTypeOK'
  BY I2cTaskType
<1>2. /\ Len(queue[s]) \in Nat /\ InFlight(s) \in Nat /\ IsFiniteSet(PopsAhead(s))
      /\ Len(queue'[s]) \in Nat /\ InFlight(s)' \in Nat
  <2>1. InFlight(s) \in Nat /\ IsFiniteSet(PopsAhead(s))
    BY InFlightBounded
  <2>2. Len(ahead') \in Nat /\ Len(ahead') <= ReadAhead
    BY <1>1, LenProperties DEF DeviceTypeOK
  <2>3. InFlight(s)' \in Nat
    BY <2>2, PopsBounded DEF InFlight, PopsAhead
  <2>4. queue[s] \in Seq(Byte) /\ queue'[s] \in Seq(Byte)
    BY <1>1 DEF DeviceTypeOK, StreamsTypeOK
  <2> QED
    BY <2>1, <2>3, <2>4, LenProperties
<1>6. Level(s)' \in Nat
  BY <1>2 DEF Level
<1> SUFFICES Level(s)' <= Level(s)
  BY <1>6
<1>3. ASSUME NEW t \in StreamId, I2cPops(t)
      PROVE  Level(s)' <= Level(s)
  <2> DEFINE e == HostPop(t, Head(queue[t]), last[t])
             n == Len(ahead) + 1
  <2>1. /\ Len(queue'[t]) = Len(queue[t]) - 1
        /\ Len(ahead') = n /\ Len(ahead) \in Nat
        /\ \A i \in 1 .. Len(ahead) : ahead'[i] = ahead[i]
        /\ ahead'[n] = e
    BY <1>3, PopEffect, LenProperties DEF DeviceTypeOK
  <2>2. IsPopOf(e, s) <=> s = t
    BY DEF IsPopOf, HostPop
  <2>3. t # s => queue'[s] = queue[s]
    BY <1>3 DEF I2cPops, PopByte, DeviceTypeOK, StreamsTypeOK
  <2> HIDE DEF e
  <2>4. PopsAhead(s)' = IF s = t THEN PopsAhead(s) \cup {n} ELSE PopsAhead(s)
    <3>1. 1 .. n = (1 .. Len(ahead)) \cup {n} /\ n \notin 1 .. Len(ahead)
      BY <2>1
    <3>2. PopsAhead(s)' = {i \in 1 .. n : IsPopOf(ahead'[i], s)}
      BY <2>1 DEF PopsAhead
    <3>3. \A i \in 1 .. Len(ahead) : IsPopOf(ahead'[i], s) <=> IsPopOf(ahead[i], s)
      BY <2>1
    <3>4. IsPopOf(ahead'[n], s) <=> s = t
      BY <2>1, <2>2
    <3> HIDE DEF n
    <3> QED
      BY <3>1, <3>2, <3>3, <3>4 DEF PopsAhead
  <2>5. InFlight(s)' <= IF s = t THEN InFlight(s) + 1 ELSE InFlight(s)
    <3>1. Cardinality(PopsAhead(s) \cup {n}) \in {Cardinality(PopsAhead(s)), Cardinality(PopsAhead(s)) + 1}
      BY <1>2, FS_AddElement
    <3> QED
      BY <1>2, <2>4, <3>1 DEF InFlight
  <2> QED
    BY <1>2, <2>1, <2>3, <2>5 DEF Level
<1>4. CASE I2cRollsBack
  <2> DEFINE n == Len(ahead)
             e == ahead[n]
  <2>1. ahead # <<>> /\ RollbackEffect(e) /\ ahead' = SubSeq(ahead, 1, n - 1)
    BY <1>4 DEF I2cRollsBack
  <2>2. /\ e \in ReadEffect /\ n \in Nat /\ n >= 1 /\ Len(ahead') = n - 1
        /\ \A i \in 1 .. n - 1 : ahead'[i] = ahead[i]
    BY <2>1, ShorterAhead
  <2>3. PopsAhead(s)' = PopsAhead(s) \ {n} /\ (n \in PopsAhead(s) <=> IsPopOf(e, s))
    <3>1. 1 .. n - 1 = (1 .. n) \ {n} /\ n \in 1 .. n
      BY <2>2
    <3>2. PopsAhead(s)' = {i \in 1 .. n - 1 : IsPopOf(ahead'[i], s)}
      BY <2>2 DEF PopsAhead
    <3>3. \A i \in 1 .. n - 1 : IsPopOf(ahead'[i], s) <=> IsPopOf(ahead[i], s)
      BY <2>2
    <3>4. PopsAhead(s) = {i \in 1 .. n : IsPopOf(ahead[i], s)}
      BY DEF PopsAhead
    <3> HIDE DEF n
    <3> QED
      BY <3>1, <3>2, <3>3, <3>4
  <2>4. InFlight(s)' = IF IsPopOf(e, s) THEN InFlight(s) - 1 ELSE InFlight(s)
    <3>1. Cardinality(PopsAhead(s) \ {n}) =
            IF n \in PopsAhead(s) THEN Cardinality(PopsAhead(s)) - 1 ELSE Cardinality(PopsAhead(s))
      BY <1>2, FS_RemoveElement
    <3> QED
      BY <2>3, <3>1 DEF InFlight
  <2>5. Len(queue'[s]) <= IF IsPopOf(e, s) THEN Len(queue[s]) + 1 ELSE Len(queue[s])
    <3>1. queue[s] \in Seq(Byte) /\ Len(queue[s]) <= Capacity /\ queue \in [StreamId -> Seq(Byte)]
      BY DEF DeviceTypeOK, StreamsTypeOK
    <3>2. CASE e.kind = "HostPop"
      <4>1. /\ e.value \in Byte
            /\ queue' = [queue EXCEPT ![e.id] = PushFrontOne(@, e.value)]
        BY <2>1, <2>2, <3>2 DEF RollbackEffect, UnpopByte, ReadEffect, NoEffect
      <4>2. Len(PushFrontOne(queue[s], e.value)) <= Len(queue[s]) + 1
        BY <3>1, <4>1, PushFrontFits
      <4>3. CASE e.id = s
        BY <3>1, <3>2, <4>1, <4>2, <4>3 DEF IsPopOf
      <4>4. CASE e.id # s
        BY <1>2, <3>1, <4>1, <4>4
      <4> QED
        BY <4>3, <4>4
    <3>3. CASE e.kind # "HostPop"
      <4>1. queue' = queue
        BY <2>1, <3>3 DEF RollbackEffect, RetreatCursor, UncountUnderrun, streamVars
      <4> QED
        BY <1>2, <4>1
    <3> QED
      BY <3>2, <3>3
  <2> HIDE DEF e
  <2> QED
    BY <1>2, <2>4, <2>5 DEF Level
<1>5. CASE I2cDelivers
  <2>1. queue' = queue /\ ahead' = <<>>
    BY <1>5 DEF I2cDelivers, streamVars
  <2>2. PopsAhead(s)' = {}
    <3>1. 1 .. Len(ahead') = {}
      BY <2>1, EmptySeq
    <3> QED
      BY <3>1 DEF PopsAhead
  <2>3. InFlight(s)' = 0
    BY <2>2, FS_EmptySet DEF InFlight
  <2> QED
    BY <1>2, <2>1, <2>3 DEF Level
<1> QED
  BY <1>3, <1>4, <1>5 DEF I2cTask

(* A feed answers with the space that is free after it; no other frame      *)
(* raises a level.                                                           *)
LEMMA CarryOutLevel ==
  ASSUME DeviceTypeOK, NEW op, NEW payload \in Seq(Byte), CarryOut(op, payload), ahead' = ahead,
         NEW s \in StreamId
  PROVE  /\ Level(s)' \in Nat
         /\ IF IsFeed(op, payload) /\ Head(payload) = s
            THEN /\ Answer(op, payload).free \in Nat
                 /\ Answer(op, payload).free + Level(s)' <= Capacity + ReadAhead
            ELSE Level(s)' <= Level(s)
<1>1. /\ InFlight(s) \in 0 .. ReadAhead /\ Len(queue[s]) \in 0 .. Capacity
      /\ queue[s] \in Seq(Byte) /\ queue \in [StreamId -> Seq(Byte)]
  BY InFlightBounded, LevelType DEF DeviceTypeOK, StreamsTypeOK
<1>2. InFlight(s)' = InFlight(s)
  BY DEF InFlight, PopsAhead
<1>3. CASE IsFeed(op, payload)
  <2> DEFINE t == Head(payload)
             data == Tail(payload)
  <2>1. t \in StreamId /\ data \in Seq(Byte)
    BY <1>3, FeedParts
  <2>2. queue' = [queue EXCEPT ![t] = PushBack(@, data)]
    BY <1>3 DEF CarryOut, FeedStream, IsFeed, IsReset, Feed, ResetStreams
  <2>3. Answer(op, payload) = FeedAnswer(t, data)
    BY <1>3 DEF Answer, IsFeed, IsReset, HelloReq, Feed, ResetStreams
  <2>4. CASE t = s
    <3>1. queue'[s] = PushBack(queue[s], data)
      BY <1>1, <2>1, <2>2, <2>4
    <3>2. Len(queue'[s]) \in 0 .. Capacity
      <4> HIDE DEF data
      <4>1. PushBack(queue[s], data) \in Seq(Byte) /\ Len(PushBack(queue[s], data)) <= Capacity
        BY <1>1, <2>1, PushBackFits, CapacityAssumption
      <4> QED
        BY <3>1, <4>1, LenProperties, CapacityAssumption
    <3>3. Answer(op, payload).free = Capacity - Len(queue'[s])
      BY <2>3, <2>4, <3>1 DEF FeedAnswer, FeedAck, Free
    <3> QED
      BY <1>1, <1>2, <1>3, <2>4, <3>2, <3>3, CapacityAssumption, ReadAheadAssumption DEF Level
  <2>5. CASE t # s
    <3>1. queue'[s] = queue[s]
      BY <1>1, <2>1, <2>2, <2>5
    <3> QED
      BY <1>1, <1>2, <2>5, <3>1, CapacityAssumption, ReadAheadAssumption DEF Level
  <2> QED
    BY <2>4, <2>5
<1>4. CASE ~IsFeed(op, payload)
  <2>1. queue'[s] = queue[s] \/ queue'[s] = <<>>
    BY <1>4 DEF CarryOut, ResetAll, streamVars
  <2>2. Len(queue'[s]) \in Nat /\ Len(queue'[s]) <= Len(queue[s])
    BY <1>1, <2>1, EmptySeq, CapacityAssumption
  <2> QED
    BY <1>1, <1>2, <1>4, <2>2, CapacityAssumption, ReadAheadAssumption DEF Level
<1> QED
  BY <1>3, <1>4

LEMMA UntouchedLevel ==
  ASSUME UNCHANGED deviceVars, NEW s
  PROVE  Level(s)' = Level(s)
BY DEF Level, InFlight, PopsAhead, deviceVars, streamVars

===============================================================================
