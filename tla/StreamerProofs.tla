------------------------------ MODULE StreamerProofs ----------------------------
(***************************************************************************)
(* The invariants of CsvStreamer, for every number of streams, queue       *)
(* capacity, chunk size and any samples.                                   *)
(***************************************************************************)
EXTENDS CsvStreamer, DeviceProofs, DataLemmas

(* The frames the program sends and the answers they get. *)
SentFrame == [op |-> HelloReq, payload |-> <<>>]
FeedFrames ==
  {f \in [op : {Feed}, payload : Seq(Byte)] :
     f.payload # <<>> /\ Head(f.payload) \in StreamId /\ Len(f.payload) <= FeedChunk + 1}
StreamerFrames == {SentFrame} \cup FeedFrames

Acks == [op : {"FeedAck"}, id : StreamId, accepted : 0 .. FeedChunk, free : 0 .. Capacity]
StreamerAnswers == {HelloResp} \cup Acks

FeedsOf(s) == {f \in FeedFrames : Head(f.payload) = s}
ChunksOf(s) == {f \in FeedsOf(s) : Len(f.payload) > 1}
AcksOf(s) == {a \in Acks : a.id = s}

Active == pc \in {"hello", "ready", "await"}

ChannelTypeOK ==
  /\ DeviceTypeOK
  /\ link \in BOOLEAN
  /\ requests \in Seq(StreamerFrames)
  /\ answers \in Seq(StreamerAnswers)
  /\ (~link => answers = <<>>)

ProgramTypeOK ==
  /\ pc \in {"closed", "hello", "ready", "await", "failed"}
  /\ todo \in {"prefill", "probe", "refill", "pause"}
  /\ at \in StreamId
  /\ due \in BOOLEAN
  /\ free \in [StreamId -> 0 .. Capacity]
  /\ cur \in [StreamId -> Nat]
  /\ \A s \in StreamId : cur[s] < Len(Samples[s])
  /\ chunkLen \in 0 .. FeedChunk
  /\ starts \in Nat

StreamerTypeOK == ChannelTypeOK /\ ProgramTypeOK

(* Feeds of stream s without an acknowledgement that the program has read. *)
Unread(s) == CountFrom(answers, 1, AcksOf(s)) + CountFrom(requests, 1, FeedsOf(s))

(* What a stream may come to hold, counting every chunk as a full one. *)
Promised(s) == Level(s) + FeedChunk * CountFrom(requests, 1, ChunksOf(s))

(* A run leaves at most one feed behind. *)
OneEach ==
  \A s \in StreamId :
    Unread(s) + (IF pc \in {"hello", "ready"} \/ (pc = "await" /\ s # at) THEN 1 ELSE 0) <= starts

(* What an acknowledgement says of the free space is off by what was fed since. *)
AckTells ==
  \A i \in 1 .. Len(answers) : \A s \in StreamId :
    answers[i] \in AcksOf(s) =>
      Level(s) + answers[i].free <=
        Capacity + ReadAhead + FeedChunk * CountFrom(answers, i + 1, AcksOf(s))

(* What the run knows of a stream's level is off by the feeds it has not     *)
(* accounted for. *)
Known(s) == Promised(s) <= FillLevel(s) + ReadAhead + FeedChunk * Unread(s)

Limit(n) == PrefillLevel + ReadAhead + FeedChunk * n

LimitInv ==
  /\ \A s \in StreamId : Promised(s) < Limit(starts)
  /\ \A s \in StreamId :
       pc = "hello" \/ (link /\ (pc = "ready" \/ (pc = "await" /\ s # at))) =>
         starts > 0 /\ (Promised(s) < Limit(starts - 1) \/ (pc # "hello" /\ Known(s)))

(* The channel as one sequence: the answers, and behind them the requests. *)
Depth == Len(answers) + Len(requests)

PlaceIn(as, rs, k) == IF k <= Len(as) THEN as[k] ELSE rs[k - Len(as)]
Place(k) == PlaceIn(answers, requests, k)

IsHello(x) == x \in {HelloResp, SentFrame}

(* x is the feed under way, to stream s with n samples, or its answer. *)
IsOwn(x, s, n) ==
  \/ x \in AcksOf(s) /\ x.accepted <= n
  \/ x \in FeedsOf(s) /\ Len(x.payload) = n + 1

(* With two runs at most, the only thing that a run can find before the      *)
(* answer to its own feed is an answer to the other run's HELLO_REQ.         *)
Matched ==
  /\ starts <= MaxStarts
  /\ starts <= 1 => Depth <= starts
  /\ Active => starts > 0
  /\ link /\ pc = "hello" => Depth <= 2 /\ (Depth > 0 => IsHello(Place(Depth)))
  /\ link /\ pc = "ready" => (starts = 1 => Depth = 0) /\ \A k \in 1 .. Depth : IsHello(Place(k))
  /\ link /\ pc = "await" =>
       /\ Depth > 0 /\ IsOwn(Place(Depth), at, chunkLen)
       /\ \A k \in 1 .. Depth - 1 : IsHello(Place(k))
  /\ pc # "failed"

-------------------------------------------------------------------------------
(* Types.  The frame of a feed is the stream's id and the next samples. *)
LEMMA FeedFrame ==
  ASSUME StreamerTypeOK, NEW n \in 0 .. FeedChunk
  PROVE  /\ [op |-> Feed, payload |-> <<at>> \o NextSamples(n)] \in FeedsOf(at)
         /\ Len(<<at>> \o NextSamples(n)) = n + 1
<1> USE StreamerAssumption
<1>1. at \in StreamId /\ at \in Byte /\ cur[at] \in Nat /\ n \in Nat /\ n <= FeedChunk
  BY DEF StreamerTypeOK, ProgramTypeOK
<1>2. Samples[at] \in Seq(Byte) /\ Len(Samples[at]) \in Nat \ {0}
  <2>1. Samples[at] \in Seq(Byte) /\ Samples[at] # <<>>
    BY <1>1
  <2> QED
    BY <2>1, EmptySeq
<1> DEFINE size == Len(Samples[at])
           place(i) == ((cur[at] + i - 1) % size) + 1
<1>3. \A i \in 1 .. n : place(i) \in 1 .. size
  <2>1. size \in Nat \ {0}
    BY <1>2
  <2> HIDE DEF size
  <2> TAKE i \in 1 .. n
  <2>2. cur[at] + i - 1 \in Int
    BY <1>1
  <2>3. (cur[at] + i - 1) % size \in 0 .. size - 1
    BY <2>1, <2>2, DivMod
  <2> QED
    BY <2>1, <2>3
<1>4. \A i \in 1 .. n : Samples[at][place(i)] \in Byte
  BY <1>2, <1>3, ElementOfSeq
<1>5. NextSamples(n) \in Seq(Byte) /\ Len(NextSamples(n)) = n
  BY <1>1, <1>4, IsASeq DEF NextSamples
<1>6. /\ <<at>> \o NextSamples(n) \in Seq(Byte)
      /\ Len(<<at>> \o NextSamples(n)) = n + 1
      /\ (<<at>> \o NextSamples(n))[1] = at
  <2> DEFINE data == NextSamples(n)
  <2>1. data \in Seq(Byte) /\ Len(data) = n /\ <<at>> \in Seq(Byte) /\ Len(<<at>>) = 1
    BY <1>1, <1>5
  <2> HIDE DEF data
  <2>2. /\ <<at>> \o data \in Seq(Byte)
        /\ Len(<<at>> \o data) = 1 + n
        /\ (<<at>> \o data)[1] = <<at>>[1]
    BY <1>1, <2>1, ConcatProperties
  <2>3. <<at>>[1] = at /\ 1 + n = n + 1
    BY <1>1
  <2>4. <<at>> \o data \in Seq(Byte) /\ Len(<<at>> \o data) = n + 1 /\ (<<at>> \o data)[1] = at
    BY <2>2, <2>3
  <2> QED
    BY <2>4 DEF data
<1> DEFINE p == <<at>> \o NextSamples(n)
<1> HIDE DEF p
<1>7. p \in Seq(Byte) /\ p # <<>> /\ Head(p) = at /\ Len(p) = n + 1
  <2>1. p \in Seq(Byte) /\ Len(p) = n + 1 /\ p[1] = at
    BY <1>6 DEF p
  <2>2. p # <<>>
    BY <1>1, <2>1
  <2>3. Head(p) = p[1]
    BY <2>1, <2>2
  <2> QED
    BY <2>1, <2>2, <2>3
<1>8. [op |-> Feed, payload |-> p] \in FeedsOf(at)
  BY <1>1, <1>7 DEF FeedsOf, FeedFrames
<1> QED
  BY <1>7, <1>8 DEF p

LEMMA HelloFrame ==
  /\ SentFrame \in StreamerFrames
  /\ \A s : SentFrame \notin FeedsOf(s) /\ SentFrame \notin ChunksOf(s)
BY DEF StreamerFrames, SentFrame, FeedsOf, ChunksOf, FeedFrames, HelloReq, Feed

LEMMA HelloAnswer ==
  /\ HelloResp \in StreamerAnswers
  /\ \A s : HelloResp \notin AcksOf(s)
BY DEF StreamerAnswers, HelloResp, AcksOf, Acks

(* What carrying out the oldest request does. *)
LEMMA Handled ==
  ASSUME StreamerTypeOK, Handle
  PROVE  LET f == Head(requests)
             a == Answer(f.op, f.payload)
         IN /\ f = requests[1] /\ f \in StreamerFrames /\ a \in StreamerAnswers
            /\ DeviceTypeOK'
            /\ \/ /\ f = SentFrame /\ a = HelloResp
                  /\ \A s \in StreamId : Level(s)' \in Nat /\ Level(s)' <= Level(s)
               \/ \E t \in StreamId :
                    /\ f \in FeedsOf(t) /\ a \in AcksOf(t) /\ a.accepted <= Len(f.payload) - 1
                    /\ Level(t)' \in Nat /\ Level(t)' <= Level(t) + Len(f.payload) - 1
                    /\ a.free + Level(t)' <= Capacity + ReadAhead
                    /\ \A s \in StreamId \ {t} : Level(s)' \in Nat /\ Level(s)' <= Level(s)
<1> DEFINE f == Head(requests)
           p == f.payload
           a == Answer(f.op, p)
<1>1. requests \in Seq(StreamerFrames) /\ requests # <<>> /\ DeviceTypeOK
  BY DEF StreamerTypeOK, ChannelTypeOK, Handle
<1>2. f \in StreamerFrames /\ f = requests[1]
  BY <1>1, HeadTailProperties
<1>3. CarryOut(f.op, p) /\ ahead' = ahead
  BY DEF Handle
<1> HIDE DEF f
<1>4. p \in Seq(Byte)
  <2>1. CASE f = SentFrame
    BY <2>1, EmptySeq DEF SentFrame
  <2>2. CASE f \in FeedFrames
    BY <2>2 DEF FeedFrames
  <2> QED
    BY <1>2, <2>1, <2>2 DEF StreamerFrames
<1>5. DeviceTypeOK'
  BY <1>1, <1>3, <1>4, CarryOutType
<1>6. CASE f = SentFrame
  <2>1. f.op = HelloReq /\ ~IsFeed(f.op, p) /\ a = HelloResp
    BY <1>6 DEF SentFrame, IsFeed, IsReset, HelloReq, Feed, ResetStreams, Answer
  <2>2. \A s \in StreamId : Level(s)' \in Nat /\ Level(s)' <= Level(s)
    BY <1>1, <1>3, <1>4, <2>1, CarryOutLevel
  <2> QED
    BY <1>2, <1>5, <1>6, <2>1, <2>2, HelloAnswer DEF f
<1>7. CASE f \in FeedFrames
  <2> DEFINE data == Tail(p)
  <2>0. PICK t \in StreamId : t = Head(p)
    BY <1>7 DEF FeedFrames
  <2>1. /\ p # <<>> /\ t \in StreamId /\ f.op = Feed /\ f \in FeedsOf(t)
        /\ Len(p) <= FeedChunk + 1 /\ IsFeed(f.op, p)
    BY <1>7, <2>0 DEF FeedFrames, FeedsOf, IsFeed
  <2>2. data \in Seq(Byte) /\ Len(data) = Len(p) - 1 /\ Len(data) \in Nat /\ Len(p) \in Nat
    BY <1>4, <2>1, HeadTailProperties, LenProperties
  <2>3. a = FeedAnswer(t, data)
    BY <2>0, <2>1 DEF Answer, IsFeed, IsReset, HelloReq, Feed, ResetStreams
  <2>4. queue[t] \in Seq(Byte) /\ Len(queue[t]) <= Capacity /\ Len(queue[t]) \in Nat
    BY <1>1, <2>1, LevelType DEF DeviceTypeOK, StreamsTypeOK
  <2>5. queue'[t] = PushBack(queue[t], data)
    <3>1. FeedStream(t, data)
      BY <1>3, <2>0, <2>1 DEF CarryOut, IsFeed, IsReset, Feed, ResetStreams
    <3> QED
      BY <1>1, <2>1, <3>1 DEF FeedStream, DeviceTypeOK, StreamsTypeOK
  <2>6. /\ Accepted(queue[t], data) \in 0 .. Len(data)
        /\ Len(PushBack(queue[t], data)) = Len(queue[t]) + Accepted(queue[t], data)
        /\ Len(PushBack(queue[t], data)) <= Capacity
    BY <2>2, <2>4, PushBackFits
  <2>7. InFlight(t)' = InFlight(t) /\ InFlight(t) \in Nat
    <3>1. InFlight(t) \in Nat
      BY <1>1, InFlightBounded, ReadAheadAssumption
    <3>2. InFlight(t)' = InFlight(t)
      BY <1>3 DEF InFlight, PopsAhead
    <3> QED
      BY <3>1, <3>2
  <2>8. Level(t)' <= Level(t) + Len(p) - 1
    BY <2>2, <2>4, <2>5, <2>6, <2>7 DEF Level
  <2>9. a \in AcksOf(t) /\ a.accepted <= Len(p) - 1
    <3>1. Accepted(queue[t], data) \in 0 .. FeedChunk
      BY <2>1, <2>2, <2>6, StreamerAssumption
    <3>2. Capacity - Len(PushBack(queue[t], data)) \in 0 .. Capacity
      BY <2>4, <2>6, CapacityAssumption
    <3> HIDE DEF data
    <3>3. a \in Acks /\ a.id = t /\ a.accepted = Accepted(queue[t], data)
      BY <2>1, <2>3, <3>1, <3>2 DEF Acks, FeedAnswer, FeedAck, Free
    <3> QED
      BY <2>2, <2>6, <3>3 DEF AcksOf
  <2>10. Level(t)' \in Nat /\ a.free + Level(t)' <= Capacity + ReadAhead
    <3>1. /\ Level(t)' \in Nat
          /\ a.free \in Nat /\ a.free + Level(t)' <= Capacity + ReadAhead
      BY <1>1, <1>3, <1>4, <2>0, <2>1, CarryOutLevel
    <3> QED
      BY <3>1
  <2>11. \A s \in StreamId \ {t} : Level(s)' \in Nat /\ Level(s)' <= Level(s)
    BY <1>1, <1>3, <1>4, <2>0, <2>1, CarryOutLevel
  <2> HIDE DEF a
  <2>12. a \in StreamerAnswers
    BY <2>9 DEF AcksOf, StreamerAnswers
  <2> QED
    BY <1>2, <1>5, <2>1, <2>8, <2>9, <2>10, <2>11, <2>12 DEF f, a
<1> QED
  BY <1>2, <1>6, <1>7 DEF StreamerFrames

LEMMA StreamerInitType == Init => StreamerTypeOK
<1> USE StreamerAssumption, CapacityAssumption
<1> SUFFICES ASSUME Init PROVE StreamerTypeOK
  OBVIOUS
<1>1. DeviceTypeOK
  BY DeviceInitType DEF Init, ChannelInit
<1>2. \A s \in StreamId : 0 < Len(Samples[s])
  <2> TAKE s \in StreamId
  <2>1. Samples[s] \in Seq(Byte) /\ Samples[s] # <<>>
    OBVIOUS
  <2> QED
    BY <2>1, EmptySeq
<1>3. at = 0 /\ 0 \in StreamId
  <2>1. 0 \in StreamId
    <3>1. Cardinality(StreamId) \in Nat /\ Cardinality(StreamId) # 0
      BY FS_CardinalityType, FS_EmptySet
    <3>2. 0 \in 0 .. Cardinality(StreamId) - 1
      BY <3>1
    <3> QED
      BY <3>2
  <2> QED
    BY <2>1 DEF Init
<1>4. /\ <<>> \in Seq(StreamerFrames) /\ <<>> \in Seq(StreamerAnswers)
      /\ 0 \in 0 .. Capacity /\ 0 \in 0 .. FeedChunk
  BY EmptySeq
<1>5. /\ link = FALSE /\ requests = <<>> /\ answers = <<>> /\ pc = "closed" /\ todo = "prefill"
      /\ due = FALSE /\ chunkLen = 0 /\ starts = 0
      /\ free = [s \in StreamId |-> 0] /\ cur = [s \in StreamId |-> 0]
  BY DEF Init, ChannelInit
<1> QED
  BY <1>1, <1>2, <1>3, <1>4, <1>5 DEF StreamerTypeOK, ChannelTypeOK, ProgramTypeOK

(* The frame the program sends in a step, and the stream it goes to. *)
Sends(f) == Request(f) /\ f \in StreamerFrames

LEMMA ProgramSends ==
  ASSUME StreamerTypeOK
  PROVE  /\ Start => Sends(SentFrame)
         /\ \A n \in 0 .. FeedChunk :
              SendFeed(n) =>
                \E f \in FeedsOf(at) : Sends(f) /\ Len(f.payload) = n + 1
<1>1. Start => Sends(SentFrame)
  BY HelloFrame DEF Start, Sends, SentFrame
<1>2. ASSUME NEW n \in 0 .. FeedChunk, SendFeed(n)
      PROVE  \E f \in FeedsOf(at) : Sends(f) /\ Len(f.payload) = n + 1
  <2> DEFINE p == <<at>> \o NextSamples(n)
             f == [op |-> Feed, payload |-> p]
  <2>1. f \in FeedsOf(at) /\ Len(p) = n + 1
    BY FeedFrame
  <2>2. Request(f)
    BY <1>2 DEF SendFeed
  <2> HIDE DEF p
  <2>3. f \in StreamerFrames /\ f.payload = p
    BY <2>1 DEF FeedsOf, StreamerFrames
  <2> QED
    BY <2>1, <2>2, <2>3 DEF Sends
<1> QED
  BY <1>1, <1>2

(* Each kind of step keeps the types of the channel. *)
LEMMA ChannelSteps ==
  ASSUME StreamerTypeOK
  PROVE  /\ UNCHANGED <<deviceVars, channelVars>> => ChannelTypeOK'
         /\ (\E f : Sends(f)) => ChannelTypeOK'
         /\ TakeAnswer => ChannelTypeOK'
         /\ Handle \/ LinkUp \/ LinkDown \/ DeviceRuns => ChannelTypeOK'
<1>0. /\ DeviceTypeOK /\ link \in BOOLEAN /\ requests \in Seq(StreamerFrames)
      /\ answers \in Seq(StreamerAnswers) /\ (~link => answers = <<>>)
  BY DEF StreamerTypeOK, ChannelTypeOK
<1>1. ASSUME UNCHANGED deviceVars PROVE DeviceTypeOK'
  BY <1>0, <1>1, StreamsUnchanged DEF DeviceTypeOK, deviceVars
<1>2. ASSUME UNCHANGED <<deviceVars, channelVars>> PROVE ChannelTypeOK'
  BY <1>0, <1>1, <1>2 DEF ChannelTypeOK, channelVars
<1>3. ASSUME NEW f, Sends(f) PROVE ChannelTypeOK'
  <2>1. requests' \in Seq(StreamerFrames)
    BY <1>0, <1>3, AppendProperties DEF Sends, Request
  <2> QED
    BY <1>0, <1>1, <1>3, <2>1 DEF Sends, Request, ChannelTypeOK
<1>4. ASSUME TakeAnswer PROVE ChannelTypeOK'
  <2>1. answers' \in Seq(StreamerAnswers)
    BY <1>0, <1>4, HeadTailProperties DEF TakeAnswer
  <2> QED
    BY <1>0, <1>1, <1>4, <2>1 DEF TakeAnswer, ChannelTypeOK
<1>5. ASSUME Handle PROVE ChannelTypeOK'
  <2> DEFINE f == Head(requests)
             a == Answer(f.op, f.payload)
  <2>1. a \in StreamerAnswers /\ DeviceTypeOK'
    BY <1>5, Handled
  <2>2. answers' = IF link THEN Append(answers, a) ELSE <<>>
    BY <1>5 DEF Handle
  <2> HIDE DEF a
  <2>3. answers' \in Seq(StreamerAnswers)
    BY <1>0, <2>1, <2>2, EmptySeq, AppendProperties
  <2>4. requests' \in Seq(StreamerFrames)
    BY <1>0, <1>5, HeadTailProperties DEF Handle
  <2> QED
    BY <1>0, <1>5, <2>1, <2>2, <2>3, <2>4 DEF Handle, ChannelTypeOK
<1>6. ASSUME LinkUp PROVE ChannelTypeOK'
  BY <1>0, <1>1, <1>6 DEF LinkUp, ChannelTypeOK
<1>7. ASSUME LinkDown PROVE ChannelTypeOK'
  <2>1. PICK n \in 0 .. 1 : n <= Len(requests) /\ requests' = SubSeq(requests, 1, n)
    BY <1>7 DEF LinkDown
  <2>2. \A i \in 1 .. n : requests[i] \in StreamerFrames
    <3>1. \A i \in 1 .. n : i \in 1 .. Len(requests)
      BY <1>0, <2>1, LenProperties
    <3> QED
      BY <1>0, <3>1, ElementOfSeq
  <2>3. requests' \in Seq(StreamerFrames)
    BY <2>1, <2>2, SubSeqProperties
  <2> QED
    BY <1>0, <1>1, <1>7, <2>3, EmptySeq DEF LinkDown, ChannelTypeOK
<1>8. ASSUME DeviceRuns PROVE ChannelTypeOK'
  BY <1>0, <1>8, I2cTaskType DEF DeviceRuns, ChannelTypeOK, channelVars
<1> QED
  BY <1>2, <1>3, <1>4, <1>5, <1>6, <1>7, <1>8

(* The program's own variables. *)
LEMMA ForgetType ==
  ASSUME StreamerTypeOK, Forget, pc' \in {"closed", "failed"}
  PROVE  ProgramTypeOK'
<1> USE StreamerAssumption, CapacityAssumption
<1>1. \A s \in StreamId : 0 < Len(Samples[s])
  <2> TAKE s \in StreamId
  <2>1. Samples[s] \in Seq(Byte) /\ Samples[s] # <<>>
    OBVIOUS
  <2> QED
    BY <2>1, EmptySeq
<1>2. 0 \in StreamId
  <2>1. Cardinality(StreamId) \in Nat /\ Cardinality(StreamId) # 0
    BY FS_CardinalityType, FS_EmptySet
  <2>2. 0 \in 0 .. Cardinality(StreamId) - 1
    BY <2>1
  <2> QED
    BY <2>2
<1>3. 0 \in 0 .. Capacity /\ 0 \in 0 .. FeedChunk
  OBVIOUS
<1>4. /\ free' = [s \in StreamId |-> 0] /\ cur' = [s \in StreamId |-> 0]
      /\ todo' = "prefill" /\ at' = 0 /\ due' = FALSE /\ chunkLen' = 0 /\ starts' = starts
      /\ starts \in Nat
  BY DEF Forget, StreamerTypeOK, ProgramTypeOK
<1> QED
  BY <1>1, <1>2, <1>3, <1>4 DEF ProgramTypeOK

LEMMA NextStreamType ==
  ASSUME StreamerTypeOK, NextStream
  PROVE  at' \in StreamId /\ todo' \in {"prefill", "probe", "refill", "pause"} /\ due' \in BOOLEAN
<1> USE StreamerAssumption
<1>1. at \in Int /\ Cardinality(StreamId) \in Nat \ {0}
  <2>1. Cardinality(StreamId) \in Nat /\ Cardinality(StreamId) # 0
    BY FS_CardinalityType, FS_EmptySet
  <2>2. at \in StreamId
    BY DEF StreamerTypeOK, ProgramTypeOK
  <2> QED
    BY <2>1, <2>2
<1>2. at' \in 0 .. Cardinality(StreamId) - 1
  <2>1. at + 1 \in Int
    BY <1>1
  <2> QED
    BY <1>1, <2>1, DivMod DEF NextStream
<1> QED
  BY <1>2 DEF NextStream, FirstTodo, StreamerTypeOK, ProgramTypeOK

LEMMA SamplesSize ==
  ASSUME NEW s \in StreamId
  PROVE  Len(Samples[s]) \in Nat \ {0}
<1>1. Samples[s] \in Seq(Byte) /\ Samples[s] # <<>>
  BY StreamerAssumption
<1> QED
  BY <1>1, EmptySeq

LEMMA CursorType ==
  ASSUME StreamerTypeOK, NEW s \in StreamId, NEW n \in Int,
         cur' = [cur EXCEPT ![s] = n % Len(Samples[s])]
  PROVE  cur' \in [StreamId -> Nat] /\ \A t \in StreamId : cur'[t] < Len(Samples[t])
<1>1. n % Len(Samples[s]) \in 0 .. Len(Samples[s]) - 1
  BY SamplesSize, DivMod
<1>2. n % Len(Samples[s]) \in Nat /\ n % Len(Samples[s]) < Len(Samples[s])
  <2> DEFINE size == Len(Samples[s])
             m == n % size
  <2>1. m \in 0 .. size - 1 /\ size \in Nat \ {0}
    BY <1>1, SamplesSize
  <2> HIDE DEF m, size
  <2>2. m \in Nat /\ m < size
    BY <2>1
  <2> QED
    BY <2>2 DEF m, size
<1> QED
  BY <1>2 DEF StreamerTypeOK, ProgramTypeOK

LEMMA AccountType ==
  ASSUME StreamerTypeOK, NEW ack \in Acks, Account(ack)
  PROVE  ProgramTypeOK'
<1> USE StreamerAssumption
<1>1. CASE ack.id = at /\ ack.accepted <= chunkLen
  <2> DEFINE size == Len(Samples[at])
             n == chunkLen - ack.accepted
             moved == cur[at] + size - (n % size)
  <2>1. /\ at \in StreamId /\ cur[at] \in Nat /\ chunkLen \in Nat /\ ack.accepted \in Nat
        /\ cur \in [StreamId -> Nat] /\ free \in [StreamId -> 0 .. Capacity]
        /\ ack.free \in 0 .. Capacity
    BY DEF StreamerTypeOK, ProgramTypeOK, Acks
  <2>2. size \in Nat \ {0}
    BY <2>1, SamplesSize
  <2>3. n \in Int
    BY <2>1
  <2>4. RewindCursor(at, n)
    BY <1>1 DEF Account
  <2>5. cur' = [cur EXCEPT ![at] = moved % size]
    BY <2>1, <2>4 DEF RewindCursor
  <2>6. moved \in Int
    <3> HIDE DEF size, n
    <3>1. n % size \in Int
      BY <2>2, <2>3, DivMod
    <3> QED
      BY <2>1, <2>2, <3>1
  <2> HIDE DEF moved
  <2>7. cur' \in [StreamId -> Nat] /\ \A t \in StreamId : cur'[t] < Len(Samples[t])
    BY <2>1, <2>5, <2>6, CursorType
  <2>8. /\ free' = [free EXCEPT ![at] = ack.free] /\ pc' = "ready" /\ chunkLen' = 0
        /\ starts' = starts
    BY <1>1 DEF Account
  <2>9. free' \in [StreamId -> 0 .. Capacity] /\ 0 \in 0 .. FeedChunk
    BY <2>1, <2>8
  <2>10. at' \in StreamId /\ todo' \in {"prefill", "probe", "refill", "pause"} /\ due' \in BOOLEAN
    BY <1>1, NextStreamType DEF Account, StreamerTypeOK, ProgramTypeOK
  <2> QED
    BY <2>7, <2>8, <2>9, <2>10 DEF ProgramTypeOK, StreamerTypeOK
<1>2. CASE ~(ack.id = at /\ ack.accepted <= chunkLen)
  <2>1. pc' = "failed" /\ Forget
    BY <1>2 DEF Account
  <2> QED
    BY <2>1, ForgetType
<1> QED
  BY <1>1, <1>2

(* Which answer the program reads. *)
LEMMA NextAnswer ==
  ASSUME StreamerTypeOK, TakeAnswer
  PROVE  /\ Head(answers) = answers[1] /\ Head(answers) \in StreamerAnswers
         /\ answers # <<>> /\ Len(answers) \in Nat \ {0} /\ link
         /\ (Head(answers).op = "FeedAck" <=> Head(answers) \in Acks)
         /\ (Head(answers).op = "HelloResp" <=> Head(answers) = HelloResp)
<1>1. answers \in Seq(StreamerAnswers) /\ answers # <<>> /\ link
  BY DEF StreamerTypeOK, ChannelTypeOK, TakeAnswer
<1>2. Head(answers) = answers[1] /\ Head(answers) \in StreamerAnswers /\ Len(answers) \in Nat \ {0}
  BY <1>1, HeadTailProperties, EmptySeq
<1> QED
  BY <1>1, <1>2 DEF StreamerAnswers, Acks, HelloResp

LEMMA ReadAnswerType ==
  ASSUME StreamerTypeOK, ReadAnswer
  PROVE  ProgramTypeOK'
<1> DEFINE a == Head(answers)
<1>1. TakeAnswer
  BY DEF ReadAnswer
<1>2. a.op = "FeedAck" <=> a \in Acks
  BY <1>1, NextAnswer
<1> HIDE DEF a
<1>3. CASE Attach
  <2>1. Capacity \in 0 .. Capacity
    BY CapacityAssumption
  <2>2. free' = [s \in StreamId |-> Capacity]
    BY <1>3 DEF Attach
  <2> QED
    BY <1>3, <2>1, <2>2 DEF Attach, StreamerTypeOK, ProgramTypeOK
<1>4. CASE UNCHANGED streamerVars
  BY <1>4 DEF streamerVars, StreamerTypeOK, ProgramTypeOK
<1>5. CASE a.op = "FeedAck" /\ Account(a)
  BY <1>2, <1>5, AccountType
<1> QED
  BY <1>3, <1>4, <1>5 DEF ReadAnswer, a

(* How many samples a feed carries. *)
LEMMA FeedSizes ==
  ASSUME StreamerTypeOK
  PROVE  /\ free[at] \in 0 .. Capacity
         /\ 0 \in 0 .. FeedChunk
         /\ Smaller(FeedChunk, free[at]) \in 0 .. FeedChunk
<1>1. free[at] \in 0 .. Capacity
  BY DEF StreamerTypeOK, ProgramTypeOK
<1> QED
  BY <1>1, StreamerAssumption, CapacityAssumption DEF Smaller

LEMMA SendFeedType ==
  ASSUME StreamerTypeOK, NEW n \in 0 .. FeedChunk, SendFeed(n)
  PROVE  ProgramTypeOK'
<1>1. at \in StreamId /\ cur[at] \in Nat /\ cur \in [StreamId -> Nat]
  BY DEF StreamerTypeOK, ProgramTypeOK
<1>2. cur' = [cur EXCEPT ![at] = (cur[at] + n) % Len(Samples[at])] /\ cur[at] + n \in Int
  BY <1>1 DEF SendFeed
<1>3. cur' \in [StreamId -> Nat] /\ \A t \in StreamId : cur'[t] < Len(Samples[t])
  <2> DEFINE m == cur[at] + n
  <2>1. m \in Int /\ cur' = [cur EXCEPT ![at] = m % Len(Samples[at])]
    BY <1>2
  <2> HIDE DEF m
  <2> QED
    BY <1>1, <2>1, CursorType
<1> QED
  BY <1>3 DEF SendFeed, StreamerTypeOK, ProgramTypeOK

(* A feed is sent from one of the three places of the loop. *)
LEMMA Feedings ==
  ASSUME StreamerTypeOK, Prefill \/ Probe \/ Refill
  PROVE  \E n \in 0 .. FeedChunk :
           /\ SendFeed(n) /\ pc = "ready"
           /\ n = 0 \/ FillLevel(at) < PrefillLevel \/ FillLevel(at) <= LowMark
BY FeedSizes DEF Prefill, Probe, Refill, WantsPrefill, WantsRefill

LEMMA StreamerTypeStep == StreamerTypeOK /\ [Next]_vars => StreamerTypeOK'
<1> SUFFICES ASSUME StreamerTypeOK, [Next]_vars PROVE StreamerTypeOK'
  OBVIOUS
<1>1. ASSUME UNCHANGED streamerVars PROVE ProgramTypeOK'
  BY <1>1 DEF streamerVars, StreamerTypeOK, ProgramTypeOK
<1>2. CASE Start
  <2>1. ChannelTypeOK'
    BY <1>2, ProgramSends, ChannelSteps
  <2> QED
    BY <1>2, <2>1 DEF Start, StreamerTypeOK, ProgramTypeOK
<1>3. CASE End
  BY <1>3, ChannelSteps, ForgetType DEF End, StreamerTypeOK
<1>4. CASE Prefill \/ Probe \/ Refill
  <2>1. PICK n \in 0 .. FeedChunk : SendFeed(n)
    BY <1>4, Feedings
  <2> QED
    BY <2>1, ProgramSends, ChannelSteps, SendFeedType DEF StreamerTypeOK
<1>5. CASE SkipStream
  BY <1>5, ChannelSteps, NextStreamType DEF SkipStream, StreamerTypeOK, ProgramTypeOK
<1>6. ASSUME NEW isDue \in BOOLEAN, BeginPass(isDue) PROVE StreamerTypeOK'
  BY <1>6, ChannelSteps DEF BeginPass, StreamerTypeOK, ProgramTypeOK
<1>7. CASE ReadAnswer
  BY <1>7, ChannelSteps, ReadAnswerType DEF ReadAnswer, StreamerTypeOK
<1> QED
  BY <1>1, <1>2, <1>3, <1>4, <1>5, <1>6, <1>7, ChannelSteps
  DEF Next, Run, Discard, Link, Device, vars, StreamerTypeOK

-------------------------------------------------------------------------------
(* What each kind of step does to the counts. *)
LEMMA Tally ==
  ASSUME NEW as \in Seq(StreamerAnswers), NEW rs \in Seq(StreamerFrames), NEW s
  PROVE  /\ CountFrom(as, 1, AcksOf(s)) \in Nat
         /\ CountFrom(rs, 1, FeedsOf(s)) \in Nat
         /\ CountFrom(rs, 1, ChunksOf(s)) \in Nat
         /\ FeedChunk * CountFrom(rs, 1, ChunksOf(s)) \in Nat
<1>1. /\ CountFrom(as, 1, AcksOf(s)) \in Nat
      /\ CountFrom(rs, 1, FeedsOf(s)) \in Nat
      /\ CountFrom(rs, 1, ChunksOf(s)) \in Nat
  <2>1. 1 \in Nat
    OBVIOUS
  <2> QED
    BY <2>1, CountType
<1>2. FeedChunk \in Nat
  BY StreamerAssumption
<1> QED
  BY <1>1, <1>2, Product

LEMMA Counted ==
  ASSUME StreamerTypeOK, NEW s \in StreamId
  PROVE  /\ Level(s) \in Nat /\ Unread(s) \in Nat /\ Promised(s) \in Nat
         /\ FeedChunk * Unread(s) \in Nat
         /\ FillLevel(s) \in Nat /\ Level(s) <= Promised(s)
<1>1. Level(s) \in Nat
  BY LevelType DEF StreamerTypeOK, ChannelTypeOK
<1>2. /\ CountFrom(answers, 1, AcksOf(s)) \in Nat
      /\ CountFrom(requests, 1, FeedsOf(s)) \in Nat
      /\ FeedChunk * CountFrom(requests, 1, ChunksOf(s)) \in Nat
  BY Tally DEF StreamerTypeOK, ChannelTypeOK
<1>3. Unread(s) \in Nat /\ Promised(s) \in Nat /\ Level(s) <= Promised(s)
  BY <1>1, <1>2 DEF Unread, Promised
<1>4. FeedChunk * Unread(s) \in Nat
  BY <1>3, StreamerAssumption, Product
<1>5. FillLevel(s) \in Nat
  BY CapacityAssumption DEF FillLevel, StreamerTypeOK, ProgramTypeOK
<1> QED
  BY <1>1, <1>3, <1>4, <1>5

LEMMA SendCounts ==
  ASSUME StreamerTypeOK, NEW f, Sends(f), NEW s \in StreamId
  PROVE  /\ Unread(s)' = Unread(s) + (IF f \in FeedsOf(s) THEN 1 ELSE 0)
         /\ Promised(s)' = Promised(s) + (IF f \in ChunksOf(s) THEN FeedChunk ELSE 0)
         /\ Level(s)' = Level(s)
<1>1. /\ requests \in Seq(StreamerFrames) /\ answers \in Seq(StreamerAnswers)
      /\ f \in StreamerFrames /\ requests' = Append(requests, f) /\ answers' = answers
  BY DEF StreamerTypeOK, ChannelTypeOK, Sends, Request
<1>2. Level(s)' = Level(s) /\ Level(s) \in Nat
  BY UntouchedLevel, Counted DEF Sends, Request
<1> DEFINE acks == CountFrom(answers, 1, AcksOf(s))
           feeds == CountFrom(requests, 1, FeedsOf(s))
           chunks == CountFrom(requests, 1, ChunksOf(s))
<1>3. /\ acks \in Nat /\ feeds \in Nat /\ chunks \in Nat /\ FeedChunk \in Nat
      /\ FeedChunk * chunks \in Nat
  BY <1>1, Tally, StreamerAssumption
<1>4. 1 \in 1 .. Len(requests) + 1
  BY <1>1, LenProperties
<1>5. CountFrom(requests', 1, FeedsOf(s)) = feeds + (IF f \in FeedsOf(s) THEN 1 ELSE 0)
  BY <1>1, <1>4, CountAppend
<1>6. CountFrom(requests', 1, ChunksOf(s)) = chunks + (IF f \in ChunksOf(s) THEN 1 ELSE 0)
  BY <1>1, <1>4, CountAppend
<1>7. Unread(s)' = acks + CountFrom(requests', 1, FeedsOf(s))
  BY <1>1 DEF Unread
<1>8. Promised(s)' = Level(s)' + FeedChunk * CountFrom(requests', 1, ChunksOf(s))
  BY DEF Promised
<1>9. Unread(s) = acks + feeds /\ Promised(s) = Level(s) + FeedChunk * chunks
  BY DEF Unread, Promised
<1> HIDE DEF acks, feeds, chunks
<1>10. FeedChunk * (chunks + (IF f \in ChunksOf(s) THEN 1 ELSE 0)) =
         (FeedChunk * chunks) + (IF f \in ChunksOf(s) THEN FeedChunk ELSE 0)
  BY <1>3, Product
<1>11. Unread(s)' = Unread(s) + (IF f \in FeedsOf(s) THEN 1 ELSE 0)
  BY <1>3, <1>5, <1>7, <1>9
<1>12. Promised(s)' = Promised(s) + (IF f \in ChunksOf(s) THEN FeedChunk ELSE 0)
  <2> DEFINE p == FeedChunk * chunks
             d == IF f \in ChunksOf(s) THEN FeedChunk ELSE 0
  <2>1. Promised(s)' = Level(s) + (p + d) /\ Promised(s) = Level(s) + p
    BY <1>2, <1>6, <1>8, <1>9, <1>10
  <2>2. p \in Nat /\ d \in Nat
    BY <1>3
  <2> HIDE DEF p, d
  <2>3. Promised(s)' = Promised(s) + d
    BY <1>2, <2>1, <2>2
  <2> QED
    BY <2>3 DEF d
<1> QED
  BY <1>2, <1>11, <1>12

LEMMA TakeCounts ==
  ASSUME StreamerTypeOK, TakeAnswer, NEW s \in StreamId
  PROVE  /\ Unread(s) = Unread(s)' + (IF Head(answers) \in AcksOf(s) THEN 1 ELSE 0)
         /\ Unread(s)' \in Nat
         /\ Promised(s)' = Promised(s)
         /\ Level(s)' = Level(s)
<1>1. /\ requests \in Seq(StreamerFrames) /\ answers \in Seq(StreamerAnswers)
      /\ answers # <<>> /\ answers' = Tail(answers) /\ requests' = requests
      /\ answers' \in Seq(StreamerAnswers) /\ Head(answers) = answers[1]
  BY HeadTailProperties DEF StreamerTypeOK, ChannelTypeOK, TakeAnswer
<1>2. Level(s)' = Level(s)
  BY UntouchedLevel DEF TakeAnswer
<1>3. CountFrom(answers, 1, AcksOf(s)) =
        CountFrom(answers, 2, AcksOf(s)) + (IF Head(answers) \in AcksOf(s) THEN 1 ELSE 0)
  BY <1>1, CountFirst
<1>4. CountFrom(answers', 1, AcksOf(s)) = CountFrom(answers, 2, AcksOf(s))
  <2>1. 1 \in Nat \ {0} /\ 1 + 1 = 2
    OBVIOUS
  <2> QED
    BY <1>1, <2>1, CountTail
<1>5. /\ CountFrom(answers', 1, AcksOf(s)) \in Nat
      /\ CountFrom(requests, 1, FeedsOf(s)) \in Nat
  BY <1>1, Tally
<1>6. Unread(s)' = CountFrom(answers', 1, AcksOf(s)) + CountFrom(requests, 1, FeedsOf(s))
  BY <1>1 DEF Unread
<1>7. Promised(s)' = Promised(s)
  BY <1>1, <1>2 DEF Promised
<1> QED
  BY <1>2, <1>3, <1>4, <1>5, <1>6, <1>7 DEF Unread

(* What the device and the link do promises a stream no more than before. *)
LEMMA DeviceCounts ==
  ASSUME StreamerTypeOK, Handle \/ LinkUp \/ LinkDown \/ DeviceRuns, NEW s \in StreamId
  PROVE  /\ Promised(s)' <= Promised(s)
         /\ Unread(s)' \in Nat /\ Promised(s)' \in Nat /\ Unread(s)' <= Unread(s)
         /\ link /\ link' => Unread(s)' = Unread(s)
<1> DEFINE acks == CountFrom(answers, 1, AcksOf(s))
           feeds == CountFrom(requests, 1, FeedsOf(s))
           chunks == CountFrom(requests, 1, ChunksOf(s))
           nextAcks == CountFrom(answers', 1, AcksOf(s))
           nextFeeds == CountFrom(requests', 1, FeedsOf(s))
           nextChunks == CountFrom(requests', 1, ChunksOf(s))
<1>1. ChannelTypeOK'
  BY ChannelSteps
<1>2. /\ acks \in Nat /\ feeds \in Nat /\ chunks \in Nat /\ FeedChunk * chunks \in Nat
      /\ FeedChunk \in Nat /\ Level(s) \in Nat
  BY Tally, Counted, StreamerAssumption DEF StreamerTypeOK, ChannelTypeOK
<1>3. /\ nextAcks \in Nat /\ nextFeeds \in Nat /\ nextChunks \in Nat
      /\ FeedChunk * nextChunks \in Nat
  BY <1>1, Tally DEF ChannelTypeOK
<1>4. /\ Unread(s) = acks + feeds /\ Unread(s)' = nextAcks + nextFeeds
      /\ Promised(s) = Level(s) + FeedChunk * chunks
      /\ Promised(s)' = Level(s)' + FeedChunk * nextChunks
  BY DEF Unread, Promised
<1>5. /\ requests \in Seq(StreamerFrames) /\ answers \in Seq(StreamerAnswers)
      /\ requests' \in Seq(StreamerFrames) /\ answers' \in Seq(StreamerAnswers)
      /\ DeviceTypeOK
  BY <1>1 DEF StreamerTypeOK, ChannelTypeOK
<1> HIDE DEF acks, feeds, chunks, nextAcks, nextFeeds, nextChunks
<1>6. ASSUME Level(s)' \in Nat, Level(s)' <= Level(s), nextChunks <= chunks,
             nextAcks + nextFeeds <= acks + feeds,
             link /\ link' => nextAcks + nextFeeds = acks + feeds
      PROVE  /\ Promised(s)' <= Promised(s)
             /\ Unread(s)' \in Nat /\ Promised(s)' \in Nat /\ Unread(s)' <= Unread(s)
             /\ link /\ link' => Unread(s)' = Unread(s)
  <2>1. FeedChunk * nextChunks <= FeedChunk * chunks
    BY <1>2, <1>3, <1>6, ProductMonotone
  <2> DEFINE p == FeedChunk * chunks
             q == FeedChunk * nextChunks
  <2>2. p \in Nat /\ q \in Nat /\ q <= p
        /\ Promised(s) = Level(s) + p /\ Promised(s)' = Level(s)' + q
    BY <1>2, <1>3, <1>4, <2>1
  <2> HIDE DEF p, q
  <2> QED
    BY <1>2, <1>3, <1>4, <1>6, <2>2
<1>7. CASE DeviceRuns
  <2>1. /\ nextAcks = acks /\ nextFeeds = feeds /\ nextChunks = chunks
    BY <1>7 DEF DeviceRuns, channelVars, acks, feeds, chunks, nextAcks, nextFeeds, nextChunks
  <2>2. Level(s)' \in Nat /\ Level(s)' <= Level(s)
    BY <1>5, <1>7, I2cTaskLevel DEF DeviceRuns
  <2> QED
    BY <1>2, <1>6, <2>1, <2>2
<1>8. CASE LinkUp
  <2>1. nextAcks = acks /\ nextFeeds = feeds /\ nextChunks = chunks /\ Level(s)' = Level(s)
    BY <1>8, UntouchedLevel DEF LinkUp, acks, feeds, chunks, nextAcks, nextFeeds, nextChunks
  <2> QED
    BY <1>2, <1>6, <2>1
<1>9. CASE LinkDown
  <2>1. answers' = <<>> /\ link' = FALSE /\ Level(s)' = Level(s)
    BY <1>9, UntouchedLevel DEF LinkDown
  <2>2. nextAcks = 0
    BY <2>1, CountEmpty DEF nextAcks
  <2>3. PICK n \in 0 .. 1 : n <= Len(requests) /\ requests' = SubSeq(requests, 1, n)
    BY <1>9 DEF LinkDown
  <2>4. \A i \in 1 .. n : i \in 1 .. Len(requests) /\ requests[i] \in StreamerFrames
    <3>1. \A i \in 1 .. n : i \in 1 .. Len(requests)
      BY <1>5, <2>3, LenProperties
    <3> QED
      BY <1>5, <3>1, ElementOfSeq
  <2>5. Len(requests') <= Len(requests) /\ \A i \in 1 .. Len(requests') : requests'[i] = requests[i]
    <3>1. /\ Len(requests') = IF 1 <= n THEN n - 1 + 1 ELSE 0
          /\ \A i \in 1 .. n - 1 + 1 : requests'[i] = requests[1 + i - 1]
      BY <2>3, <2>4, SubSeqProperties
    <3> QED
      BY <2>3, <3>1
  <2>6. nextFeeds <= feeds /\ nextChunks <= chunks
    BY <1>5, <2>5, CountShorter DEF feeds, chunks, nextFeeds, nextChunks
  <2> QED
    BY <1>2, <1>3, <1>6, <2>1, <2>2, <2>6
<1>10. CASE Handle
  <2> DEFINE f == Head(requests)
             a == Answer(f.op, f.payload)
  <2>1. requests # <<>> /\ requests' = Tail(requests) /\ link' = link
        /\ answers' = IF link THEN Append(answers, a) ELSE <<>>
    BY <1>10 DEF Handle
  <2>2. /\ f = requests[1] /\ f \in StreamerFrames /\ a \in StreamerAnswers
        /\ \/ /\ f = SentFrame /\ a = HelloResp
              /\ Level(s)' \in Nat /\ Level(s)' <= Level(s)
           \/ \E t \in StreamId :
                /\ f \in FeedsOf(t) /\ a \in AcksOf(t)
                /\ Level(t)' \in Nat /\ Level(t)' <= Level(t) + Len(f.payload) - 1
                /\ s # t => Level(s)' \in Nat /\ Level(s)' <= Level(s)
    BY <1>10, Handled
  <2>3. /\ feeds = nextFeeds + (IF f \in FeedsOf(s) THEN 1 ELSE 0)
        /\ chunks = nextChunks + (IF f \in ChunksOf(s) THEN 1 ELSE 0)
    <3>1. 1 \in Nat \ {0} /\ 1 + 1 = 2
      OBVIOUS
    <3>2. /\ CountFrom(requests', 1, FeedsOf(s)) = CountFrom(requests, 2, FeedsOf(s))
          /\ CountFrom(requests', 1, ChunksOf(s)) = CountFrom(requests, 2, ChunksOf(s))
      BY <1>5, <2>1, <3>1, CountTail
    <3>3. /\ CountFrom(requests, 1, FeedsOf(s)) =
               CountFrom(requests, 2, FeedsOf(s)) + (IF requests[1] \in FeedsOf(s) THEN 1 ELSE 0)
          /\ CountFrom(requests, 1, ChunksOf(s)) =
               CountFrom(requests, 2, ChunksOf(s)) + (IF requests[1] \in ChunksOf(s) THEN 1 ELSE 0)
      BY <1>5, <2>1, CountFirst
    <3> HIDE DEF f
    <3> QED
      BY <2>2, <3>2, <3>3 DEF feeds, chunks, nextFeeds, nextChunks
  <2> HIDE DEF f, a
  <2>4. nextAcks = IF link THEN acks + (IF a \in AcksOf(s) THEN 1 ELSE 0) ELSE 0
    <3>1. 1 \in 1 .. Len(answers) + 1
      BY <1>5, LenProperties
    <3>2. CountFrom(Append(answers, a), 1, AcksOf(s)) = acks + (IF a \in AcksOf(s) THEN 1 ELSE 0)
      BY <1>5, <2>2, <3>1, CountAppend DEF acks
    <3>3. CountFrom(<<>>, 1, AcksOf(s)) = 0
      BY CountEmpty
    <3> QED
      BY <2>1, <3>2, <3>3 DEF nextAcks
  <2>5. \A t \in StreamId : f \in FeedsOf(t) /\ t # s => f \notin FeedsOf(s) /\ f \notin ChunksOf(s)
    BY DEF FeedsOf, ChunksOf
  <2>6. \A t \in StreamId : a \in AcksOf(t) /\ t # s => a \notin AcksOf(s)
    BY DEF AcksOf
  <2>7. CASE f \notin FeedsOf(s)
    <3>1. f \notin ChunksOf(s) /\ a \notin AcksOf(s) /\ Level(s)' \in Nat /\ Level(s)' <= Level(s)
      BY <2>2, <2>6, <2>7, HelloAnswer DEF ChunksOf
    <3>2. feeds = nextFeeds /\ chunks = nextChunks /\ (link => nextAcks = acks)
          /\ (~link => nextAcks = 0)
      BY <1>2, <1>3, <2>3, <2>4, <2>7, <3>1
    <3> QED
      BY <1>2, <1>3, <1>6, <2>1, <3>1, <3>2
  <2>8. CASE f \in FeedsOf(s)
    <3>1. f # SentFrame /\ a \in AcksOf(s)
          /\ Level(s)' \in Nat /\ Level(s)' <= Level(s) + Len(f.payload) - 1
      BY <2>2, <2>5, <2>8, HelloFrame
    <3>2. f.payload \in Seq(Byte) /\ f.payload # <<>> /\ Len(f.payload) <= FeedChunk + 1
      BY <2>8 DEF FeedsOf, FeedFrames
    <3>3. Len(f.payload) \in Nat \ {0}
      BY <3>2, EmptySeq
    <3>4. feeds = nextFeeds + 1 /\ nextAcks = IF link THEN acks + 1 ELSE 0
      BY <2>3, <2>4, <2>8, <3>1
    <3>5. CASE f \in ChunksOf(s)
      <4>1. chunks = nextChunks + 1
        BY <2>3, <3>5
      <4>2. FeedChunk * chunks = (FeedChunk * nextChunks) + FeedChunk
        BY <1>2, <1>3, <4>1, Product
      <4> DEFINE p == FeedChunk * chunks
                 q == FeedChunk * nextChunks
                 n == Len(f.payload)
      <4>3. p = q + FeedChunk /\ Promised(s) = Level(s) + p /\ Promised(s)' = Level(s)' + q
            /\ q \in Nat
        BY <1>3, <1>4, <4>2
      <4>n. n \in Nat /\ n <= FeedChunk + 1 /\ Level(s)' <= Level(s) + n - 1 /\ Level(s)' \in Nat
        BY <3>1, <3>2, <3>3
      <4> HIDE DEF p, q, n
      <4>l. Level(s)' <= Level(s) + FeedChunk
        BY <1>2, <4>n
      <4>4. Promised(s)' <= Promised(s) /\ Promised(s)' \in Nat
        BY <1>2, <4>n, <4>3, <4>l
      <4>5. Unread(s)' \in Nat /\ Unread(s)' <= Unread(s) /\ (link /\ link' => Unread(s)' = Unread(s))
        BY <1>2, <1>3, <1>4, <3>4
      <4> QED
        BY <4>4, <4>5
    <3>6. CASE f \notin ChunksOf(s)
      <4>0. ~(Len(f.payload) > 1)
        BY <2>8, <3>6 DEF ChunksOf
      <4>1. Len(f.payload) = 1 /\ chunks = nextChunks
        <5>1. Len(f.payload) = 1
          <6>1. \A n \in Nat \ {0} : ~(n > 1) => n = 1
            OBVIOUS
          <6> QED
            BY <3>3, <4>0, <6>1
        <5>2. chunks = nextChunks
          BY <1>3, <2>3, <3>6
        <5> QED
          BY <5>1, <5>2
      <4>2. Level(s)' <= Level(s)
        BY <1>2, <3>1, <4>1
      <4> QED
        BY <1>2, <1>3, <1>6, <3>1, <3>4, <4>1, <4>2
    <3> QED
      BY <3>5, <3>6
  <2> QED
    BY <2>7, <2>8
<1> QED
  BY <1>7, <1>8, <1>9, <1>10

-------------------------------------------------------------------------------
(* OneEach: reading its acknowledgement makes room for the next feed. *)
Counting(s) == pc \in {"hello", "ready"} \/ (pc = "await" /\ s # at)

LEMMA OneEachInit == Init => OneEach
<1> SUFFICES ASSUME Init, NEW s \in StreamId PROVE Unread(s) = 0
  <2>1. Init => starts = 0 /\ ~(pc \in {"hello", "ready"} \/ pc = "await")
    BY DEF Init
  <2>2. 0 + 0 <= 0
    OBVIOUS
  <2> QED
    BY <2>1, <2>2 DEF OneEach
<1>1. answers = <<>> /\ requests = <<>>
  BY DEF Init, ChannelInit
<1>2. CountFrom(<<>>, 1, AcksOf(s)) = 0 /\ CountFrom(<<>>, 1, FeedsOf(s)) = 0
  BY CountEmpty
<1> QED
  BY <1>1, <1>2 DEF Unread

LEMMA OneEachStep == StreamerTypeOK /\ OneEach /\ [Next]_vars => OneEach'
<1> SUFFICES ASSUME StreamerTypeOK, OneEach, [Next]_vars, NEW s \in StreamId
             PROVE  Unread(s)' + (IF Counting(s)' THEN 1 ELSE 0) <= starts'
  BY DEF OneEach, Counting
<1>0. /\ Unread(s) \in Nat /\ starts \in Nat
      /\ Unread(s) + (IF Counting(s) THEN 1 ELSE 0) <= starts
  BY Counted DEF OneEach, Counting, StreamerTypeOK, ProgramTypeOK
<1>1. ASSUME Unread(s)' \in Nat, Unread(s)' <= Unread(s), Counting(s)' => Counting(s), starts' = starts
      PROVE  Unread(s)' + (IF Counting(s)' THEN 1 ELSE 0) <= starts'
  BY <1>0, <1>1
<1>2. CASE Start
  <2>1. Unread(s)' = Unread(s)
    BY <1>2, <1>0, ProgramSends, SendCounts, HelloFrame
  <2> QED
    BY <1>0, <1>2, <2>1 DEF Start, Counting
<1>3. CASE End
  <2>1. Unread(s)' = Unread(s) /\ ~Counting(s)' /\ starts' = starts
    BY <1>3 DEF End, Forget, Unread, Counting, channelVars
  <2> QED
    BY <1>0, <1>1, <2>1
<1>4. CASE Prefill \/ Probe \/ Refill
  <2>1. PICK n \in 0 .. FeedChunk : SendFeed(n) /\ pc = "ready"
    BY <1>4, Feedings
  <2>2. PICK f \in FeedsOf(at) : Sends(f)
    BY <2>1, ProgramSends
  <2>3. Unread(s)' = Unread(s) + (IF f \in FeedsOf(s) THEN 1 ELSE 0)
    BY <2>2, SendCounts
  <2>4. f \in FeedsOf(s) <=> s = at
    BY <2>2 DEF FeedsOf
  <2>5. pc' = "await" /\ at' = at /\ starts' = starts
    BY <2>1 DEF SendFeed
  <2> QED
    BY <1>0, <2>1, <2>3, <2>4, <2>5 DEF Counting
<1>5. CASE SkipStream \/ \E isDue \in BOOLEAN : BeginPass(isDue)
  <2>1. Unread(s)' = Unread(s) /\ pc' = pc /\ pc = "ready" /\ starts' = starts
    BY <1>5 DEF SkipStream, BeginPass, Unread, channelVars
  <2> QED
    BY <1>0, <1>1, <2>1 DEF Counting
<1>6. CASE ReadAnswer
  <2> DEFINE a == Head(answers)
  <2>1. TakeAnswer
    BY <1>6 DEF ReadAnswer
  <2>2. /\ Unread(s) = Unread(s)' + (IF a \in AcksOf(s) THEN 1 ELSE 0)
        /\ Unread(s)' \in Nat
    BY <2>1, TakeCounts
  <2>3. a.op = "FeedAck" <=> a \in Acks
    BY <2>1, NextAnswer
  <2>4. \/ UNCHANGED streamerVars
        \/ pc = "hello" /\ Attach
        \/ pc = "await" /\ a \in Acks /\ Account(a)
    BY <1>6, <2>3 DEF ReadAnswer
  <2> HIDE DEF a
  <2>5. CASE UNCHANGED streamerVars \/ (pc = "hello" /\ Attach)
    <3>1. starts' = starts /\ (Counting(s)' => Counting(s))
      BY <2>5 DEF streamerVars, Counting, Attach
    <3> QED
      BY <1>0, <1>1, <2>2, <3>1
  <2>6. CASE pc = "await" /\ a \in Acks /\ Account(a)
    <3>1. starts' = starts
      BY <2>6 DEF Account, Forget
    <3>2. CASE a.id = at /\ s = at
      <4>1. a \in AcksOf(s)
        BY <2>6, <3>2 DEF AcksOf
      <4> QED
        BY <1>0, <2>2, <3>1, <4>1
    <3>3. CASE a.id # at
      <4>1. ~Counting(s)'
        BY <2>6, <3>3 DEF Account, Counting
      <4> QED
        BY <1>0, <1>1, <2>2, <3>1, <4>1
    <3>4. CASE s # at
      <4>1. Counting(s)
        BY <2>6, <3>4 DEF Counting
      <4> QED
        BY <1>0, <1>1, <2>2, <3>1, <4>1
    <3> QED
      BY <3>2, <3>3, <3>4
  <2> QED
    BY <2>4, <2>5, <2>6
<1>7. CASE Discard
  <2>1. Unread(s) = Unread(s)' + (IF Head(answers) \in AcksOf(s) THEN 1 ELSE 0) /\ Unread(s)' \in Nat
    BY <1>7, TakeCounts DEF Discard
  <2>2. starts' = starts /\ ~Counting(s)'
    BY <1>7 DEF Discard, streamerVars, Counting
  <2> QED
    BY <1>0, <1>1, <2>1, <2>2
<1>8. CASE Link \/ Device
  <2>1. Unread(s)' \in Nat /\ Unread(s)' <= Unread(s)
    BY <1>8, DeviceCounts DEF Link, Device
  <2>2. UNCHANGED streamerVars
    BY <1>8 DEF Link, Device
  <2> QED
    BY <1>0, <1>1, <2>1, <2>2 DEF streamerVars, Counting
<1>9. CASE UNCHANGED vars
  BY <1>0, <1>1, <1>9 DEF vars, channelVars, streamerVars, Counting, Unread
<1> QED
  BY <1>2, <1>3, <1>4, <1>5, <1>6, <1>7, <1>8, <1>9 DEF Next, Run

(* AckTells: what was fed after an acknowledgement is acknowledged after it. *)
LEMMA AckTellsStep == StreamerTypeOK /\ AckTells /\ [Next]_vars => AckTells'
<1> SUFFICES ASSUME StreamerTypeOK, AckTells, [Next]_vars PROVE AckTells'
  OBVIOUS
<1> DEFINE Tells(q, i, s, l) ==
             q[i] \in AcksOf(s) =>
               l + q[i].free <= Capacity + ReadAhead + FeedChunk * CountFrom(q, i + 1, AcksOf(s))
<1>0. /\ answers \in Seq(StreamerAnswers) /\ Capacity \in Nat /\ ReadAhead \in Nat /\ FeedChunk \in Nat
      /\ \A s \in StreamId : Level(s) \in Nat
  BY Counted, CapacityAssumption, ReadAheadAssumption, StreamerAssumption
  DEF StreamerTypeOK, ChannelTypeOK
<1>r. \A l, m, u, c, e \in Nat :
        m <= l + e /\ l + u <= Capacity + ReadAhead + c => m + u <= Capacity + ReadAhead + (c + e)
  BY <1>0
<1>1. \A i \in 1 .. Len(answers) : \A s \in StreamId : Tells(answers, i, s, Level(s))
  BY DEF AckTells
<1>2. ASSUME NEW i \in 1 .. Len(answers), NEW s \in StreamId
      PROVE  /\ FeedChunk * CountFrom(answers, i + 1, AcksOf(s)) \in Nat
             /\ CountFrom(answers, i + 1, AcksOf(s)) \in Nat
             /\ answers[i] \in AcksOf(s) => answers[i].free \in Nat
  <2>1. i + 1 \in Nat
    OBVIOUS
  <2>2. CountFrom(answers, i + 1, AcksOf(s)) \in Nat
    BY <1>0, <2>1, CountType
  <2> QED
    BY <1>0, <2>2, Product DEF AcksOf, Acks
<1>3. SUFFICES \A i \in 1 .. Len(answers') : \A s \in StreamId : Tells(answers', i, s, Level(s)')
  BY DEF AckTells
<1>4. CASE answers' = <<>>
  BY <1>4
<1>5. ASSUME answers' = answers, \A s \in StreamId : Level(s)' \in Nat /\ Level(s)' <= Level(s)
      PROVE  \A i \in 1 .. Len(answers') : \A s \in StreamId : Tells(answers', i, s, Level(s)')
  <2> TAKE i \in 1 .. Len(answers')
  <2> TAKE s \in StreamId
  <2> DEFINE more == FeedChunk * CountFrom(answers, i + 1, AcksOf(s))
  <2>1. more \in Nat /\ (answers[i] \in AcksOf(s) => answers[i].free \in Nat)
        /\ (answers[i] \in AcksOf(s) => Level(s) + answers[i].free <= Capacity + ReadAhead + more)
    BY <1>1, <1>2, <1>5
  <2> HIDE DEF more
  <2>2. answers[i] \in AcksOf(s) => Level(s)' + answers[i].free <= Capacity + ReadAhead + more
    <3>1. Level(s) \in Nat /\ Level(s)' \in Nat /\ Level(s)' <= Level(s) + 0
      BY <1>0, <1>5
    <3>2. answers[i] \in AcksOf(s) => Level(s)' + answers[i].free <= Capacity + ReadAhead + (more + 0)
      BY <1>0, <1>r, <2>1, <3>1
    <3> QED
      BY <2>1, <3>2
  <2> QED
    BY <1>5, <2>2 DEF more
<1>6. ASSUME TakeAnswer
      PROVE  \A i \in 1 .. Len(answers') : \A s \in StreamId : Tells(answers', i, s, Level(s)')
  <2> TAKE i \in 1 .. Len(answers')
  <2> TAKE s \in StreamId
  <2>1. /\ answers # <<>> /\ answers' = Tail(answers) /\ Level(s)' = Level(s)
    BY <1>6, UntouchedLevel DEF TakeAnswer
  <2>2. i + 1 \in 1 .. Len(answers) /\ answers'[i] = answers[i + 1] /\ i + 1 \in Nat \ {0}
    BY <1>0, <2>1, EmptySeq, HeadTailProperties
  <2>3. CountFrom(answers', i + 1, AcksOf(s)) = CountFrom(answers, (i + 1) + 1, AcksOf(s))
    <3> DEFINE k == i + 1
    <3>1. k \in Nat \ {0}
      BY <2>2
    <3> HIDE DEF k
    <3>2. CountFrom(answers', k, AcksOf(s)) = CountFrom(answers, k + 1, AcksOf(s))
      BY <1>0, <2>1, <3>1, CountTail
    <3> QED
      BY <3>2 DEF k
  <2>4. Tells(answers, i + 1, s, Level(s))
    BY <1>1, <2>2
  <2> QED
    BY <2>1, <2>2, <2>3, <2>4
<1>7. ASSUME Handle, link
      PROVE  \A i \in 1 .. Len(answers') : \A s \in StreamId : Tells(answers', i, s, Level(s)')
  <2>1. PICK f, a :
          /\ answers' = Append(answers, a) /\ a \in StreamerAnswers
          /\ \/ /\ f = SentFrame /\ a = HelloResp
                /\ \A s \in StreamId : Level(s)' \in Nat /\ Level(s)' <= Level(s)
             \/ \E t \in StreamId :
                  /\ f \in FeedsOf(t) /\ a \in AcksOf(t)
                  /\ Level(t)' \in Nat /\ Level(t)' <= Level(t) + Len(f.payload) - 1
                  /\ a.free + Level(t)' <= Capacity + ReadAhead
                  /\ \A s \in StreamId \ {t} : Level(s)' \in Nat /\ Level(s)' <= Level(s)
    <3> DEFINE f == Head(requests)
               a == Answer(f.op, f.payload)
    <3>1. answers' = Append(answers, a)
      BY <1>7 DEF Handle
    <3>2. /\ a \in StreamerAnswers
          /\ \/ /\ f = SentFrame /\ a = HelloResp
                /\ \A s \in StreamId : Level(s)' \in Nat /\ Level(s)' <= Level(s)
             \/ \E t \in StreamId :
                  /\ f \in FeedsOf(t) /\ a \in AcksOf(t)
                  /\ Level(t)' \in Nat /\ Level(t)' <= Level(t) + Len(f.payload) - 1
                  /\ a.free + Level(t)' <= Capacity + ReadAhead
                  /\ \A s \in StreamId \ {t} : Level(s)' \in Nat /\ Level(s)' <= Level(s)
      BY <1>7, Handled
    <3> HIDE DEF f, a
    <3> QED
      BY <3>1, <3>2
  <2>2. ASSUME NEW s \in StreamId
        PROVE  /\ Level(s)' \in Nat
               /\ Level(s)' <= Level(s) + (IF a \in AcksOf(s) THEN FeedChunk ELSE 0)
               /\ a \in AcksOf(s) => a.free + Level(s)' <= Capacity + ReadAhead
    <3>1. CASE a = HelloResp /\ Level(s)' \in Nat /\ Level(s)' <= Level(s)
      BY <1>0, <3>1, HelloAnswer
    <3>2. ASSUME NEW t \in StreamId, f \in FeedsOf(t), a \in AcksOf(t), s # t,
                 Level(s)' \in Nat, Level(s)' <= Level(s)
          PROVE  a \notin AcksOf(s)
      BY <3>2 DEF AcksOf
    <3>3. ASSUME NEW t \in StreamId, f \in FeedsOf(t), a \in AcksOf(t), s = t,
                 Level(s)' \in Nat, Level(s)' <= Level(s) + Len(f.payload) - 1
          PROVE  Level(s)' <= Level(s) + FeedChunk
      <4>1. Len(f.payload) <= FeedChunk + 1 /\ Len(f.payload) \in Nat
        <5>1. f.payload \in Seq(Byte) /\ Len(f.payload) <= FeedChunk + 1
          BY <3>3 DEF FeedsOf, FeedFrames
        <5> QED
          BY <5>1, LenProperties
      <4> DEFINE n == Len(f.payload)
      <4> HIDE DEF n
      <4>2. n <= FeedChunk + 1 /\ n \in Nat /\ Level(s)' <= Level(s) + n - 1
        BY <3>3, <4>1 DEF n
      <4> QED
        BY <1>0, <3>3, <4>2
    <3>5. \A l, m \in Nat : m <= l => m <= l + 0 /\ m <= l + FeedChunk
      BY <1>0
    <3>6. CASE f = SentFrame /\ a = HelloResp
      BY <1>0, <2>1, <3>1, <3>5, <3>6, HelloAnswer, HelloFrame
    <3>7. ASSUME NEW t \in StreamId, f \in FeedsOf(t), a \in AcksOf(t),
                 Level(t)' \in Nat, Level(t)' <= Level(t) + Len(f.payload) - 1,
                 a.free + Level(t)' <= Capacity + ReadAhead,
                 \A z \in StreamId \ {t} : Level(z)' \in Nat /\ Level(z)' <= Level(z)
          PROVE  /\ Level(s)' \in Nat
                 /\ Level(s)' <= Level(s) + (IF a \in AcksOf(s) THEN FeedChunk ELSE 0)
                 /\ a \in AcksOf(s) => a.free + Level(s)' <= Capacity + ReadAhead
      <4>1. CASE s = t
        BY <3>3, <3>7, <4>1
      <4>2. CASE s # t
        BY <1>0, <3>2, <3>5, <3>7, <4>2
      <4> QED
        BY <4>1, <4>2
    <3> QED
      BY <2>1, <3>6, <3>7, HelloFrame
  <2> TAKE i \in 1 .. Len(answers')
  <2> TAKE s \in StreamId
  <2>3. /\ Len(answers) \in Nat /\ Len(answers') = Len(answers) + 1
        /\ answers'[Len(answers) + 1] = a
        /\ \A j \in 1 .. Len(answers) : answers'[j] = answers[j]
    BY <1>0, <2>1, LenProperties, AppendProperties
  <2>4. CASE i = Len(answers) + 1
    <3>1. answers' \in Seq(StreamerAnswers) /\ i + 1 \in Nat
      BY <1>0, <2>1, <2>3, AppendProperties
    <3>2. FeedChunk * CountFrom(answers', i + 1, AcksOf(s)) \in Nat
      BY <1>0, <3>1, CountType, Product
    <3> DEFINE more == FeedChunk * CountFrom(answers', i + 1, AcksOf(s))
    <3>3. more \in Nat
      BY <3>2
    <3> HIDE DEF more
    <3>4. a \in AcksOf(s) => a.free \in Nat /\ a.free + Level(s)' <= Capacity + ReadAhead
      BY <2>2 DEF AcksOf, Acks
    <3>5. a \in AcksOf(s) => Level(s)' + a.free <= Capacity + ReadAhead + more
      <4>1. \A u, m \in Nat : u + m <= Capacity + ReadAhead => m + u <= Capacity + ReadAhead + more
        BY <1>0, <3>3
      <4> QED
        BY <2>2, <3>4, <4>1
    <3> QED
      BY <2>3, <2>4, <3>5 DEF more
  <2>5. CASE i # Len(answers) + 1
    <3>1. i \in 1 .. Len(answers) /\ answers'[i] = answers[i] /\ i + 1 \in 1 .. Len(answers) + 1
      BY <2>3, <2>5
    <3> DEFINE n == CountFrom(answers, i + 1, AcksOf(s))
               d == IF a \in AcksOf(s) THEN 1 ELSE 0
    <3>2. CountFrom(answers', i + 1, AcksOf(s)) = n + d
      <4> DEFINE k == i + 1
      <4>1. k \in 1 .. Len(answers) + 1
        BY <3>1
      <4> HIDE DEF k
      <4>2. CountFrom(Append(answers, a), k, AcksOf(s)) =
              CountFrom(answers, k, AcksOf(s)) + (IF a \in AcksOf(s) THEN 1 ELSE 0)
        BY <1>0, <2>1, <4>1, CountAppend
      <4> QED
        BY <2>1, <4>2 DEF k
    <3>3. n \in Nat /\ FeedChunk * n \in Nat /\ (answers[i] \in AcksOf(s) => answers[i].free \in Nat)
      BY <1>2, <3>1
    <3>4. answers[i] \in AcksOf(s) => Level(s) + answers[i].free <= Capacity + ReadAhead + FeedChunk * n
      BY <1>1, <3>1
    <3>5. d \in {0, 1} /\ Level(s)' <= Level(s) + (IF d = 1 THEN FeedChunk ELSE 0)
      BY <2>2
    <3> HIDE DEF n, d
    <3>6. FeedChunk * (n + d) = (FeedChunk * n) + (IF d = 1 THEN FeedChunk ELSE 0)
      <4>1. CASE d = 0
        <5>1. n + d = n
          BY <3>3, <4>1
        <5> QED
          BY <3>3, <4>1, <5>1
      <4>2. CASE d = 1
        BY <1>0, <3>3, <4>2, Product
      <4> QED
        BY <3>5, <4>1, <4>2
    <3> DEFINE c == FeedChunk * n
               e == IF d = 1 THEN FeedChunk ELSE 0
    <3>7. c \in Nat /\ e \in Nat /\ Level(s)' <= Level(s) + e
          /\ (answers[i] \in AcksOf(s) => Level(s) + answers[i].free <= Capacity + ReadAhead + c)
      BY <1>0, <3>3, <3>4, <3>5
    <3> HIDE DEF c, e
    <3>8. answers[i] \in AcksOf(s) => Level(s)' + answers[i].free <= Capacity + ReadAhead + (c + e)
      BY <1>0, <1>r, <2>2, <3>3, <3>7
    <3> QED
      BY <3>1, <3>2, <3>6, <3>8 DEF c, e
  <2> QED
    BY <2>4, <2>5
<1>8. ASSUME UNCHANGED <<deviceVars, answers>>
      PROVE  \A i \in 1 .. Len(answers') : \A s \in StreamId : Tells(answers', i, s, Level(s)')
  <2>1. \A s \in StreamId : Level(s)' = Level(s)
    BY <1>8, UntouchedLevel
  <2>2. \A s \in StreamId : Level(s)' \in Nat /\ Level(s)' <= Level(s)
    BY <1>0, <2>1
  <2> QED
    BY <1>5, <1>8, <2>2
<1>9. CASE Handle
  BY <1>4, <1>7, <1>9 DEF Handle
<1>10. CASE DeviceRuns
  <2>1. \A s \in StreamId : Level(s)' \in Nat /\ Level(s)' <= Level(s)
    BY <1>10, I2cTaskLevel DEF DeviceRuns, StreamerTypeOK, ChannelTypeOK
  <2> QED
    BY <1>5, <1>10, <2>1 DEF DeviceRuns, channelVars
<1>11. CASE Prefill \/ Probe \/ Refill
  <2>1. PICK n \in 0 .. FeedChunk : SendFeed(n)
    BY <1>11, Feedings
  <2> QED
    BY <1>8, <2>1 DEF SendFeed, Request
<1> HIDE DEF Tells
<1>12. CASE Start \/ End \/ SkipStream \/ (\E isDue \in BOOLEAN : BeginPass(isDue)) \/ UNCHANGED vars
  <2>1. UNCHANGED <<deviceVars, answers>>
    BY <1>12 DEF Start, Request, End, SkipStream, BeginPass, vars, channelVars
  <2> QED
    BY <1>8, <2>1
<1>13. CASE ReadAnswer \/ Discard
  BY <1>6, <1>13 DEF ReadAnswer, Discard
<1>14. CASE Link
  BY <1>4, <1>8, <1>14 DEF Link, LinkUp, LinkDown
<1> QED
  BY <1>9, <1>10, <1>11, <1>12, <1>13, <1>14 DEF Next, Run, Device

(* LimitInv: a chunk is sent to a stream that is below the prefill level by   *)
(* what the run knows, and what it does not know are unread feeds.            *)
Trusted(s) == pc = "hello" \/ (link /\ Counting(s))

Bounded(s) ==
  /\ Promised(s) < Limit(starts)
  /\ Trusted(s) =>
       starts > 0 /\ (Promised(s) < Limit(starts - 1) \/ (pc # "hello" /\ Known(s)))

LEMMA LimitParts == LimitInv <=> \A s \in StreamId : Bounded(s)
<1>1. \A s : Trusted(s) <=> (pc = "hello" \/ (link /\ (pc = "ready" \/ (pc = "await" /\ s # at))))
  BY DEF Trusted, Counting
<1> QED
  BY <1>1 DEF LimitInv, Bounded

LEMMA Limits ==
  ASSUME NEW n \in Nat
  PROVE  /\ PrefillLevel \in Nat /\ LowMark \in Nat
         /\ Limit(n) \in Nat /\ Limit(n + 1) = Limit(n) + FeedChunk
         /\ \A m \in 0 .. n : Limit(n) = PrefillLevel + ReadAhead + (FeedChunk * n)
                              /\ FeedChunk * m <= FeedChunk * n
<1>1. PrefillLevel \in Nat /\ LowMark \in Nat
  BY CapacityAssumption DEF PrefillLevel, LowMark
<1>2. /\ FeedChunk * n \in Nat /\ FeedChunk \in Nat /\ ReadAhead \in Nat
      /\ FeedChunk * (n + 1) = (FeedChunk * n) + FeedChunk
  BY Product, StreamerAssumption, ReadAheadAssumption
<1>3. \A m \in 0 .. n : FeedChunk * m <= FeedChunk * n
  <2> TAKE m \in 0 .. n
  <2>1. m \in Nat /\ m <= n
    OBVIOUS
  <2> QED
    BY <1>2, <2>1, ProductMonotone
<1> DEFINE p == FeedChunk * n
           q == FeedChunk * (n + 1)
<1>4. /\ Limit(n) = PrefillLevel + ReadAhead + p /\ Limit(n + 1) = PrefillLevel + ReadAhead + q
      /\ p \in Nat /\ q = p + FeedChunk
  BY <1>2 DEF Limit
<1> HIDE DEF p, q
<1>5. Limit(n) \in Nat /\ Limit(n + 1) = Limit(n) + FeedChunk
  BY <1>1, <1>2, <1>4
<1> QED
  BY <1>1, <1>3, <1>4, <1>5 DEF p

LEMMA LimitInit ==
  ASSUME LowMark < PrefillLevel, Init
  PROVE  LimitInv
<1> SUFFICES ASSUME NEW s \in StreamId PROVE Promised(s) < Limit(0)
  BY DEF LimitInv, Init
<1>1. answers = <<>> /\ requests = <<>> /\ ahead = <<>> /\ queue[s] = <<>>
  BY DEF Init, ChannelInit, DeviceInit, StreamsInit
<1>2. InFlight(s) = 0
  <2>1. PopsAhead(s) = {}
    BY <1>1 DEF PopsAhead
  <2> QED
    BY <2>1, FS_EmptySet DEF InFlight
<1>3. Level(s) = 0
  BY <1>1, <1>2 DEF Level
<1>4. Promised(s) = 0
  <2>1. CountFrom(requests, 1, ChunksOf(s)) = 0
    BY <1>1, CountEmpty
  <2>2. FeedChunk * 0 = 0
    BY StreamerAssumption, Product
  <2> QED
    BY <1>3, <2>1, <2>2 DEF Promised
<1>5. Limit(0) > 0
  <2>1. FeedChunk * 0 = 0 /\ ReadAhead \in Nat /\ PrefillLevel \in Nat /\ LowMark \in Nat
    BY StreamerAssumption, Product, ReadAheadAssumption, Limits
  <2>2. Limit(0) = PrefillLevel + ReadAhead
    BY <2>1 DEF Limit
  <2> QED
    BY <2>1, <2>2
<1> QED
  BY <1>4, <1>5

(* Steps that promise a stream no more and leave the run's knowledge alone. *)
LEMMA BoundedKept ==
  ASSUME StreamerTypeOK, NEW s \in StreamId, Bounded(s), starts' = starts,
         Promised(s)' \in Nat, Promised(s)' <= Promised(s),
         Trusted(s)' =>
           /\ Trusted(s) /\ (pc' = "hello" => pc = "hello")
           /\ free'[s] = free[s] /\ Unread(s)' = Unread(s)
  PROVE  Bounded(s)'
<1>1. /\ Promised(s) \in Nat /\ starts \in Nat
      /\ FeedChunk * Unread(s) \in Nat /\ FillLevel(s) \in Nat /\ ReadAhead \in Nat
  BY Counted, ReadAheadAssumption DEF StreamerTypeOK, ProgramTypeOK
<1>2. Limit(starts) \in Nat /\ (starts > 0 => Limit(starts - 1) \in Nat)
  <2>1. starts > 0 => starts - 1 \in Nat
    BY <1>1
  <2> QED
    BY <1>1, <2>1, Limits
<1>3. Promised(s)' < Limit(starts)
  BY <1>1, <1>2 DEF Bounded
<1>4. ASSUME Trusted(s)'
      PROVE  starts > 0 /\ (Promised(s)' < Limit(starts - 1) \/ (pc' # "hello" /\ Known(s)'))
  <2>1. starts > 0 /\ (Promised(s) < Limit(starts - 1) \/ (pc # "hello" /\ Known(s)))
    BY <1>4 DEF Bounded
  <2>2. CASE Promised(s) < Limit(starts - 1)
    BY <1>1, <1>2, <2>1, <2>2
  <2>3. CASE pc # "hello" /\ Known(s)
    <3> DEFINE u == FeedChunk * Unread(s)
    <3>1. FillLevel(s)' = FillLevel(s) /\ Unread(s)' = Unread(s)
      BY <1>4 DEF FillLevel
    <3>2. u \in Nat /\ Promised(s) <= FillLevel(s) + ReadAhead + u
      BY <1>1, <2>3 DEF Known
    <3>3. Known(s)' <=> Promised(s)' <= FillLevel(s) + ReadAhead + u
      BY <3>1 DEF Known
    <3> HIDE DEF u
    <3>4. Known(s)'
      BY <1>1, <3>2, <3>3
    <3> QED
      BY <1>4, <2>1, <2>3, <3>4
  <2> QED
    BY <2>1, <2>2, <2>3
<1> QED
  BY <1>3, <1>4 DEF Bounded, Limit

LEMMA StartLimit ==
  ASSUME StreamerTypeOK, NEW s \in StreamId, Bounded(s), Start
  PROVE  Bounded(s)'
<1>1. Promised(s)' = Promised(s)
  <2>1. Promised(s)' = Promised(s) + 0 /\ Promised(s) \in Nat
    BY ProgramSends, SendCounts, HelloFrame, Counted
  <2> QED
    BY <2>1
<1>2. starts \in Nat /\ starts' = starts + 1 /\ pc' = "hello"
  BY DEF Start, StreamerTypeOK, ProgramTypeOK
<1>3. Limit(starts) \in Nat /\ Limit(starts + 1) = Limit(starts) + FeedChunk /\ FeedChunk \in Nat
  BY <1>2, Limits, StreamerAssumption
<1>4. Promised(s) \in Nat /\ Promised(s) < Limit(starts)
  BY Counted DEF Bounded
<1>5. starts' > 0 /\ starts' - 1 = starts /\ Promised(s)' < Limit(starts + 1)
  BY <1>1, <1>2, <1>3, <1>4
<1>6. Promised(s)' < Limit(starts' - 1)
  BY <1>1, <1>4, <1>5
<1> QED
  BY <1>2, <1>5, <1>6 DEF Bounded, Limit

LEMMA FeedLimit ==
  ASSUME StreamerTypeOK, OneEach, LowMark < PrefillLevel, NEW s \in StreamId, Bounded(s),
         Prefill \/ Probe \/ Refill
  PROVE  Bounded(s)'
<1>0. PICK n \in 0 .. FeedChunk :
        /\ SendFeed(n) /\ pc = "ready"
        /\ n = 0 \/ FillLevel(at) < PrefillLevel \/ FillLevel(at) <= LowMark
  BY Feedings
<1>1. PICK f \in FeedsOf(at) : Sends(f) /\ Len(f.payload) = n + 1
  BY <1>0, ProgramSends
<1>2. /\ Unread(s)' = Unread(s) + (IF f \in FeedsOf(s) THEN 1 ELSE 0)
      /\ Promised(s)' = Promised(s) + (IF f \in ChunksOf(s) THEN FeedChunk ELSE 0)
      /\ Promised(s) \in Nat /\ Unread(s) \in Nat
  BY <1>1, SendCounts, Counted
<1>3. /\ pc' = "await" /\ at' = at /\ starts' = starts /\ free' = free /\ link' = link /\ link
  BY <1>0 DEF SendFeed, Request
<1>4. CASE s # at
  <2>1. f \notin FeedsOf(s) /\ f \notin ChunksOf(s)
    BY <1>1, <1>4 DEF FeedsOf, ChunksOf
  <2>2. Unread(s)' = Unread(s) /\ Promised(s)' = Promised(s)
    BY <1>2, <2>1
  <2>3. Promised(s)' \in Nat /\ Promised(s)' <= Promised(s)
    BY <1>2, <2>2
  <2>4. Trusted(s)
    BY <1>0, <1>3 DEF Trusted, Counting
  <2> QED
    BY <1>3, <2>2, <2>3, <2>4, BoundedKept
<1>5. CASE s = at /\ n = 0
  <2>1. ~(0 + 1 > 1)
    OBVIOUS
  <2>2. f \notin ChunksOf(s)
    BY <1>1, <1>5, <2>1 DEF ChunksOf
  <2>3. Promised(s)' \in Nat /\ Promised(s)' <= Promised(s)
    BY <1>2, <2>2
  <2>4. ~Trusted(s)'
    BY <1>3, <1>5 DEF Trusted, Counting
  <2> QED
    BY <1>3, <2>3, <2>4, BoundedKept
<1>6. CASE s = at /\ n # 0
  <2>1. /\ starts \in Nat /\ FeedChunk \in Nat /\ FillLevel(s) \in Nat /\ ReadAhead \in Nat
        /\ PrefillLevel \in Nat /\ LowMark \in Nat /\ FeedChunk * Unread(s) \in Nat
    BY Counted, Limits, StreamerAssumption, ReadAheadAssumption DEF StreamerTypeOK, ProgramTypeOK
  <2>2. FillLevel(s) < PrefillLevel
    BY <1>0, <1>6, <2>1
  <2>3. Promised(s)' <= Promised(s) + FeedChunk
    BY <1>2, <2>1
  <2>4. starts > 0 /\ (Promised(s) < Limit(starts - 1) \/ Known(s))
    BY <1>0, <1>3 DEF Bounded, Trusted, Counting
  <2>5. ASSUME Promised(s) < Limit(starts - 1)
        PROVE  Promised(s)' < Limit(starts)
    <3>1. starts - 1 \in Nat /\ (starts - 1) + 1 = starts
      BY <2>1, <2>4
    <3>2. Limit(starts - 1) \in Nat /\ Limit((starts - 1) + 1) = Limit(starts - 1) + FeedChunk
      BY <3>1, Limits
    <3>3. Promised(s)' \in Nat
      BY <1>2, <2>1
    <3> QED
      BY <1>2, <2>1, <2>3, <2>5, <3>1, <3>2, <3>3
  <2>6. ASSUME Known(s)
        PROVE  Promised(s)' < Limit(starts)
    <3>1. Unread(s) + 1 <= starts
      BY <1>0, <2>1, <1>2 DEF OneEach
    <3>2. FeedChunk * (Unread(s) + 1) = (FeedChunk * Unread(s)) + FeedChunk
      BY <1>2, <2>1, Product
    <3>3. Limit(starts) = PrefillLevel + ReadAhead + (FeedChunk * starts)
          /\ FeedChunk * (Unread(s) + 1) <= FeedChunk * starts
      <4>1. Unread(s) + 1 \in 0 .. starts
        BY <1>2, <2>1, <3>1
      <4> QED
        BY <2>1, <4>1, Limits
    <3> DEFINE u == FeedChunk * Unread(s)
               v == FeedChunk * starts
    <3>4. /\ u \in Nat /\ v \in Nat /\ u + FeedChunk <= v
          /\ Promised(s) <= FillLevel(s) + ReadAhead + u
          /\ Limit(starts) = PrefillLevel + ReadAhead + v
      BY <2>1, <2>6, <3>2, <3>3, Product DEF Known
    <3>5. Promised(s)' \in Nat
      BY <1>2, <2>1
    <3> HIDE DEF u, v
    <3> QED
      BY <1>2, <2>1, <2>2, <2>3, <3>4, <3>5
  <2>7. Promised(s)' < Limit(starts)
    BY <2>4, <2>5, <2>6
  <2>8. ~Trusted(s)'
    BY <1>3, <1>6 DEF Trusted, Counting
  <2> QED
    BY <1>3, <2>7, <2>8 DEF Bounded, Limit
<1> QED
  BY <1>4, <1>5, <1>6

(* An acknowledgement brings what the run knows up to date. *)
LEMMA AccountLimit ==
  ASSUME StreamerTypeOK, OneEach, AckTells, NEW s \in StreamId, Bounded(s),
         TakeAnswer, pc = "await", Head(answers) \in Acks, Account(Head(answers))
  PROVE  Bounded(s)'
<1> DEFINE a == Head(answers)
<1>0. Head(answers) = answers[1] /\ Len(answers) \in Nat \ {0} /\ link /\ answers # <<>>
  BY NextAnswer
<1>1. /\ Unread(s) = Unread(s)' + (IF a \in AcksOf(s) THEN 1 ELSE 0)
      /\ Unread(s)' \in Nat
      /\ Promised(s)' = Promised(s)
      /\ Level(s)' = Level(s)
      /\ Promised(s) \in Nat /\ Unread(s) \in Nat /\ Level(s) \in Nat
  BY TakeCounts, Counted
<1>2. starts' = starts /\ link' = link
  BY DEF Account, Forget, TakeAnswer
<1> HIDE DEF a
<1>3. CASE ~Trusted(s)'
  BY <1>1, <1>2, <1>3, BoundedKept
<1>4. CASE Trusted(s)' /\ s # at
  <2>1. a.id = at /\ pc' = "ready" /\ free' = [free EXCEPT ![at] = a.free]
    BY <1>4 DEF Account, Trusted, Counting, a
  <2>2. a \notin AcksOf(s)
    BY <1>4, <2>1 DEF AcksOf
  <2>3. Unread(s)' = Unread(s)
    BY <1>1, <2>2
  <2>4. free'[s] = free[s]
    BY <1>4, <2>1 DEF StreamerTypeOK, ProgramTypeOK
  <2>5. Trusted(s)
    BY <1>0, <1>4 DEF Trusted, Counting
  <2>6. Promised(s)' \in Nat /\ Promised(s)' <= Promised(s)
    BY <1>1
  <2> QED
    BY <1>1, <1>2, <2>1, <2>3, <2>4, <2>5, <2>6, BoundedKept
<1>5. CASE Trusted(s)' /\ s = at
  <2>1. a.id = at /\ pc' = "ready" /\ free' = [free EXCEPT ![at] = a.free]
    BY <1>5 DEF Account, Trusted, Counting, a
  <2>2. a \in AcksOf(s) /\ a.free \in 0 .. Capacity /\ a = answers[1]
    BY <1>0, <1>5, <2>1 DEF AcksOf, Acks, a
  <2>3. Unread(s) = Unread(s)' + 1
    BY <1>1, <2>2
  <2>4. starts > 0 /\ starts \in Nat
    <3>1. starts \in Nat /\ Unread(s) + 0 <= starts
      <4>1. ~(pc \in {"hello", "ready"} \/ (pc = "await" /\ s # at))
        BY <1>5
      <4> QED
        BY <4>1 DEF OneEach, StreamerTypeOK, ProgramTypeOK
    <3> QED
      BY <1>1, <2>3, <3>1
  <2> DEFINE rest == CountFrom(answers, 2, AcksOf(s))
             feeds == CountFrom(requests, 1, FeedsOf(s))
             chunks == CountFrom(requests, 1, ChunksOf(s))
  <2>5. answers \in Seq(StreamerAnswers) /\ requests \in Seq(StreamerFrames) /\ FeedChunk \in Nat
        /\ Capacity \in Nat /\ ReadAhead \in Nat
    BY StreamerAssumption, CapacityAssumption, ReadAheadAssumption DEF StreamerTypeOK, ChannelTypeOK
  <2>6. rest \in Nat /\ feeds \in Nat /\ chunks \in Nat /\ chunks <= feeds
    <3>1. ChunksOf(s) \subseteq FeedsOf(s)
      BY DEF ChunksOf
    <3> QED
      BY <2>5, <3>1, CountType, CountFewer
  <2>7. Level(s) + a.free <= Capacity + ReadAhead + FeedChunk * rest
    <3>1. 1 \in 1 .. Len(answers) /\ 1 + 1 = 2
      BY <1>0
    <3> QED
      BY <2>2, <3>1 DEF AckTells
  <2>8. Unread(s)' = rest + feeds
    <3>1. CountFrom(answers, 1, AcksOf(s)) = rest + 1
      BY <1>0, <2>2, <2>5, CountFirst
    <3>2. CountFrom(answers, 1, AcksOf(s)) \in Nat /\ Unread(s) = CountFrom(answers, 1, AcksOf(s)) + feeds
      BY <2>5, CountType DEF Unread
    <3> HIDE DEF rest, feeds
    <3> QED
      BY <1>1, <2>3, <2>6, <3>1, <3>2
  <2>9. Promised(s) = Level(s) + FeedChunk * chunks
    BY DEF Promised
  <2> HIDE DEF rest, feeds, chunks
  <2>10. FeedChunk * (rest + feeds) = (FeedChunk * rest) + (FeedChunk * feeds)
         /\ FeedChunk * chunks <= FeedChunk * feeds
         /\ FeedChunk * chunks \in Nat /\ FeedChunk * rest \in Nat /\ FeedChunk * feeds \in Nat
    <3>1. FeedChunk * (rest + feeds) = (FeedChunk * rest) + (FeedChunk * feeds)
      BY <2>5, <2>6, ProductSum
    <3> QED
      BY <2>5, <2>6, <3>1, ProductMonotone, Product
  <2> DEFINE c == FeedChunk * chunks
             r == FeedChunk * rest
             d == FeedChunk * feeds
             u == FeedChunk * (rest + feeds)
             k == a.free
  <2>11. /\ u = r + d /\ c <= d /\ c \in Nat /\ r \in Nat /\ d \in Nat
         /\ Promised(s) = Level(s) + c /\ Level(s) + k <= Capacity + ReadAhead + r
         /\ k \in Nat /\ k <= Capacity
    BY <2>2, <2>5, <2>7, <2>9, <2>10
  <2>12. FillLevel(s)' = Capacity - k
    BY <1>5, <2>1 DEF FillLevel, StreamerTypeOK, ProgramTypeOK
  <2>13. Known(s)' <=> Promised(s) <= (Capacity - k) + ReadAhead + u
    BY <1>1, <2>8, <2>12 DEF Known
  <2> HIDE DEF c, r, d, u, k
  <2>14. \A l, p \in Nat :
           p = l + c /\ l + k <= Capacity + ReadAhead + r => p <= (Capacity - k) + ReadAhead + (r + d)
    BY <2>5, <2>11
  <2>15. Known(s)'
    BY <1>1, <2>11, <2>13, <2>14
  <2>16. Promised(s)' < Limit(starts)
    BY <1>1 DEF Bounded
  <2> QED
    BY <1>0, <1>1, <1>2, <2>1, <2>4, <2>15, <2>16 DEF Bounded, Limit
<1> QED
  BY <1>3, <1>4, <1>5

LEMMA LimitStep ==
  ASSUME StreamerTypeOK, OneEach, AckTells, LimitInv, LowMark < PrefillLevel, [Next]_vars
  PROVE  LimitInv'
<1> SUFFICES ASSUME NEW s \in StreamId PROVE Bounded(s)'
  BY DEF LimitInv, Bounded, Trusted, Counting
<1>0. Bounded(s) /\ Promised(s) \in Nat
  BY LimitParts, Counted
<1>1. CASE Start
  BY <1>0, <1>1, StartLimit
<1>2. CASE End
  <2>1. Promised(s)' = Promised(s) /\ ~Trusted(s)' /\ starts' = starts
    <3>1. Level(s)' = Level(s) /\ requests' = requests
      BY <1>2, UntouchedLevel DEF End, channelVars
    <3> QED
      BY <1>2, <3>1 DEF End, Forget, Promised, Trusted, Counting
  <2> QED
    BY <1>0, <2>1, BoundedKept
<1>3. CASE Prefill \/ Probe \/ Refill
  BY <1>0, <1>3, FeedLimit
<1>4. CASE SkipStream \/ (\E isDue \in BOOLEAN : BeginPass(isDue)) \/ UNCHANGED vars
  <2>1. UNCHANGED <<deviceVars, channelVars, pc, free, starts>> /\ (pc = "ready" \/ at' = at)
    BY <1>4 DEF SkipStream, BeginPass, vars, streamerVars
  <2>2. Promised(s)' = Promised(s) /\ Unread(s)' = Unread(s)
    BY <2>1, UntouchedLevel DEF Promised, Unread, channelVars
  <2>3. Trusted(s)' => Trusted(s)
    BY <2>1 DEF Trusted, Counting, channelVars
  <2> QED
    BY <1>0, <2>1, <2>2, <2>3, BoundedKept
<1>5. CASE ReadAnswer
  <2> DEFINE a == Head(answers)
  <2>1. TakeAnswer
    BY <1>5 DEF ReadAnswer
  <2>2. /\ Unread(s) = Unread(s)' + (IF a \in AcksOf(s) THEN 1 ELSE 0)
        /\ Unread(s)' \in Nat /\ Promised(s)' = Promised(s)
    BY <2>1, TakeCounts
  <2>3. /\ a.op = "FeedAck" <=> a \in Acks
        /\ a.op = "HelloResp" <=> a = HelloResp
        /\ link /\ link' = link
    BY <2>1, NextAnswer DEF TakeAnswer
  <2> HIDE DEF a
  <2>4. CASE pc = "await" /\ a \in Acks /\ Account(a)
    BY <1>0, <2>1, <2>4, AccountLimit DEF a
  <2>5. CASE pc = "hello" /\ Attach
    <3>1. Promised(s) < Limit(starts - 1) /\ starts > 0 /\ starts' = starts
      BY <1>0, <2>5 DEF Bounded, Trusted, Attach
    <3> QED
      BY <1>0, <2>2, <3>1 DEF Bounded, Limit
  <2>6. CASE pc = "hello" /\ UNCHANGED streamerVars
    <3>1. Promised(s) < Limit(starts - 1) /\ starts > 0 /\ starts' = starts
      BY <1>0, <2>6 DEF Bounded, Trusted, streamerVars
    <3> QED
      BY <1>0, <2>2, <3>1 DEF Bounded, Limit
  <2>7. CASE pc = "await" /\ a = HelloResp /\ UNCHANGED streamerVars
    <3>1. Unread(s)' = Unread(s) /\ Promised(s)' \in Nat /\ Promised(s)' <= Promised(s)
      BY <1>0, <2>2, <2>7, HelloAnswer
    <3>2. Trusted(s)' => Trusted(s)
      BY <2>3, <2>7 DEF Trusted, Counting, streamerVars
    <3> QED
      BY <1>0, <2>2, <2>7, <3>1, <3>2, BoundedKept DEF streamerVars
  <2> QED
    BY <1>5, <2>3, <2>4, <2>5, <2>6, <2>7 DEF ReadAnswer, a
<1>6. CASE Discard
  <2>1. Promised(s)' = Promised(s)
    BY <1>6, TakeCounts DEF Discard
  <2>2. ~Trusted(s)' /\ starts' = starts
    BY <1>6 DEF Discard, streamerVars, Trusted, Counting
  <2> QED
    BY <1>0, <2>1, <2>2, BoundedKept
<1>7. CASE Link \/ Device
  <2>1. /\ Promised(s)' <= Promised(s) /\ Promised(s)' \in Nat
        /\ (link /\ link' => Unread(s)' = Unread(s))
    BY <1>7, DeviceCounts DEF Link, Device
  <2>2. UNCHANGED streamerVars /\ (link' => link \/ pc \in {"closed", "failed"})
    BY <1>7 DEF Link, Device, LinkUp, LinkDown, Handle, DeviceRuns, channelVars
  <2>3. CASE pc = "hello"
    <3>1. starts > 0 /\ starts' = starts /\ Promised(s) < Limit(starts - 1) /\ Promised(s) < Limit(starts)
      BY <1>0, <2>2, <2>3 DEF Bounded, Trusted, streamerVars
    <3>2. Limit(starts - 1) \in Nat /\ Limit(starts) \in Nat
      <4>1. starts \in Nat
        BY DEF StreamerTypeOK, ProgramTypeOK
      <4>2. starts - 1 \in Nat
        BY <3>1, <4>1
      <4> QED
        BY <4>1, <4>2, Limits
    <3>3. Promised(s)' < Limit(starts - 1) /\ Promised(s)' < Limit(starts)
      BY <1>0, <2>1, <3>1, <3>2
    <3> QED
      BY <3>1, <3>3 DEF Bounded, Limit
  <2>4. CASE pc # "hello"
    <3>1. Trusted(s)' => Trusted(s) /\ Unread(s)' = Unread(s)
      BY <2>1, <2>2, <2>4 DEF Trusted, Counting, streamerVars
    <3> QED
      BY <1>0, <2>1, <2>2, <2>4, <3>1, BoundedKept DEF streamerVars
  <2> QED
    BY <2>3, <2>4
<1> QED
  BY <1>1, <1>2, <1>3, <1>4, <1>5, <1>6, <1>7 DEF Next, Run

-------------------------------------------------------------------------------
(* Matched: how the channel moves. *)
LEMMA DepthType ==
  ASSUME StreamerTypeOK
  PROVE  /\ answers \in Seq(StreamerAnswers) /\ requests \in Seq(StreamerFrames)
         /\ Len(answers) \in Nat /\ Len(requests) \in Nat /\ Depth \in Nat
         /\ Depth = Len(answers) + Len(requests)
<1>1. answers \in Seq(StreamerAnswers) /\ requests \in Seq(StreamerFrames)
  BY DEF StreamerTypeOK, ChannelTypeOK
<1>2. Len(answers) \in Nat /\ Len(requests) \in Nat
  BY <1>1, LenProperties
<1> QED
  BY <1>1, <1>2 DEF Depth

LEMMA SendMoves ==
  ASSUME StreamerTypeOK, NEW f, Sends(f)
  PROVE  /\ Depth' = Depth + 1
         /\ \A k \in 1 .. Depth : PlaceIn(answers', requests', k) = Place(k)
         /\ PlaceIn(answers', requests', Depth + 1) = f
<1>1. /\ answers' = answers /\ requests' = Append(requests, f) /\ f \in StreamerFrames
  BY DEF Sends, Request
<1>2. /\ Len(requests') = Len(requests) + 1 /\ requests'[Len(requests) + 1] = f
      /\ \A j \in 1 .. Len(requests) : requests'[j] = requests[j]
  BY <1>1, DepthType, AppendProperties
<1>3. Depth' = Depth + 1
  BY <1>1, <1>2, DepthType DEF Depth
<1>4. ASSUME NEW k \in 1 .. Depth PROVE PlaceIn(answers', requests', k) = Place(k)
  <2>1. k > Len(answers) => k - Len(answers) \in 1 .. Len(requests)
    BY DepthType
  <2> QED
    BY <1>1, <1>2, <2>1, DepthType DEF PlaceIn, Place
<1>5. PlaceIn(answers', requests', Depth + 1) = f
  <2>1. ~(Depth + 1 <= Len(answers)) /\ (Depth + 1) - Len(answers) = Len(requests) + 1
    BY DepthType
  <2> QED
    BY <1>1, <1>2, <2>1 DEF PlaceIn
<1> QED
  BY <1>3, <1>4, <1>5

LEMMA TakeMoves ==
  ASSUME StreamerTypeOK, TakeAnswer
  PROVE  /\ Depth > 0 /\ Depth' = Depth - 1
         /\ \A k \in 1 .. Depth - 1 : PlaceIn(answers', requests', k) = Place(k + 1)
         /\ Place(1) = Head(answers)
<1>1. answers # <<>> /\ answers' = Tail(answers) /\ requests' = requests
  BY DEF TakeAnswer
<1>2. /\ Len(answers) \in Nat \ {0} /\ Len(answers') = Len(answers) - 1
      /\ Head(answers) = answers[1]
      /\ \A j \in 1 .. Len(answers) - 1 : answers'[j] = answers[j + 1]
  BY <1>1, DepthType, EmptySeq, HeadTailProperties
<1>3. Depth > 0 /\ Depth' = Depth - 1
  BY <1>1, <1>2, DepthType DEF Depth
<1>4. ASSUME NEW k \in 1 .. Depth - 1 PROVE PlaceIn(answers', requests', k) = Place(k + 1)
  <2>1. k - Len(answers') = (k + 1) - Len(answers) /\ (k <= Len(answers') <=> k + 1 <= Len(answers))
    BY <1>2, DepthType
  <2>2. k <= Len(answers') => k \in 1 .. Len(answers) - 1
    BY <1>2
  <2> QED
    BY <1>1, <1>2, <2>1, <2>2 DEF PlaceIn, Place
<1> QED
  BY <1>2, <1>3, <1>4 DEF Place, PlaceIn

LEMMA HandleMoves ==
  ASSUME StreamerTypeOK, Handle
  PROVE  /\ Depth' <= Depth /\ (link => Depth' = Depth)
         /\ link =>
              \A k \in 1 .. Depth :
                /\ IsHello(Place(k)) => IsHello(PlaceIn(answers', requests', k))
                /\ \A s, n : n \in Nat /\ IsOwn(Place(k), s, n) =>
                     IsOwn(PlaceIn(answers', requests', k), s, n)
<1>1. PICK f, a :
        /\ requests # <<>> /\ f = Head(requests) /\ requests' = Tail(requests)
        /\ answers' = IF link THEN Append(answers, a) ELSE <<>>
        /\ a \in StreamerAnswers
        /\ \/ f = SentFrame /\ a = HelloResp
           \/ \E t \in StreamId : f \in FeedsOf(t) /\ a \in AcksOf(t) /\ a.accepted <= Len(f.payload) - 1
  <2> DEFINE f == Head(requests)
             a == Answer(f.op, f.payload)
  <2>1. /\ requests # <<>> /\ requests' = Tail(requests)
        /\ answers' = IF link THEN Append(answers, a) ELSE <<>>
    BY DEF Handle
  <2>2. /\ a \in StreamerAnswers
        /\ \/ f = SentFrame /\ a = HelloResp
           \/ \E t \in StreamId : f \in FeedsOf(t) /\ a \in AcksOf(t) /\ a.accepted <= Len(f.payload) - 1
    BY Handled
  <2> HIDE DEF a
  <2> QED
    BY <2>1, <2>2
<1>2. /\ Len(requests) \in Nat \ {0} /\ Len(requests') = Len(requests) - 1 /\ f = requests[1]
      /\ \A j \in 1 .. Len(requests) - 1 : requests'[j] = requests[j + 1]
  BY <1>1, DepthType, EmptySeq, HeadTailProperties
<1>3. link =>
        /\ Len(answers') = Len(answers) + 1 /\ answers'[Len(answers) + 1] = a
        /\ \A j \in 1 .. Len(answers) : answers'[j] = answers[j]
  BY <1>1, DepthType, AppendProperties
<1>4. ~link => Len(answers') = 0
  BY <1>1
<1>5. Depth' <= Depth /\ (link => Depth' = Depth)
  <2>1. Depth' = Len(answers') + Len(requests')
    BY DEF Depth
  <2>2. \A m, n \in Nat : n # 0 => (m + 1) + (n - 1) = m + n /\ 0 + (n - 1) <= m + n
    OBVIOUS
  <2>3. Len(answers) \in Nat /\ Len(requests) \in Nat /\ Len(requests) # 0
        /\ Depth = Len(answers) + Len(requests) /\ Depth \in Nat
    BY <1>2, DepthType
  <2>4. CASE link
    <3>1. Depth' = Depth
      BY <1>2, <1>3, <2>1, <2>2, <2>3, <2>4
    <3> QED
      BY <2>3, <3>1
  <2>5. CASE ~link
    BY <1>2, <1>4, <2>1, <2>2, <2>3, <2>5
  <2> QED
    BY <2>4, <2>5
<1>6. \A s, n : n \in Nat /\ IsOwn(f, s, n) => IsOwn(a, s, n)
  <2> SUFFICES ASSUME NEW s, NEW n \in Nat, IsOwn(f, s, n) PROVE IsOwn(a, s, n)
    OBVIOUS
  <2>1. f \in FeedsOf(s) /\ Len(f.payload) = n + 1
    <3>1. f \notin Acks
      <4>1. f \in StreamerFrames
        BY <1>2, DepthType, ElementOfSeq
      <4>2. DOMAIN f = {"op", "payload"}
        BY <4>1 DEF StreamerFrames, SentFrame, FeedFrames
      <4>3. f \in Acks => DOMAIN f = {"op", "id", "accepted", "free"}
        BY DEF Acks
      <4>4. "id" \notin {"op", "payload"}
        OBVIOUS
      <4> QED
        BY <4>2, <4>3, <4>4
    <3> QED
      BY <3>1 DEF IsOwn, AcksOf
  <2>2. PICK t \in StreamId : f \in FeedsOf(t) /\ a \in AcksOf(t) /\ a.accepted <= Len(f.payload) - 1
    BY <1>1, <2>1, HelloFrame
  <2>3. t = s
    BY <2>1, <2>2 DEF FeedsOf
  <2>4. a.accepted <= n
    <3>1. (n + 1) - 1 = n
      OBVIOUS
    <3> QED
      BY <2>1, <2>2, <3>1
  <2> QED
    BY <2>2, <2>3, <2>4 DEF IsOwn
<1>7. IsHello(f) => IsHello(a)
  <2>1. IsHello(f) => f = SentFrame
    <3>1. f \in StreamerFrames
      BY <1>2, DepthType, ElementOfSeq
    <3> QED
      BY <3>1 DEF StreamerFrames, SentFrame, FeedFrames, IsHello, HelloResp
  <2> QED
    BY <1>1, <2>1, HelloFrame DEF IsHello
<1>8. ASSUME link, NEW k \in 1 .. Depth
      PROVE  \/ PlaceIn(answers', requests', k) = Place(k)
             \/ PlaceIn(answers', requests', k) = a /\ Place(k) = f
  <2>1. CASE k <= Len(answers)
    <3>1. k \in 1 .. Len(answers) /\ k <= Len(answers')
      BY <1>3, <1>8, <2>1, DepthType
    <3> QED
      BY <1>3, <1>8, <2>1, <3>1 DEF PlaceIn, Place
  <2>2. CASE k = Len(answers) + 1
    <3>1. k <= Len(answers') /\ ~(k <= Len(answers)) /\ k - Len(answers) = 1
      BY <1>3, <1>8, <2>2, DepthType
    <3> QED
      BY <1>2, <1>3, <1>8, <2>2, <3>1 DEF PlaceIn, Place
  <2>3. CASE k > Len(answers) + 1
    <3>1. /\ ~(k <= Len(answers')) /\ ~(k <= Len(answers))
          /\ k - Len(answers') \in 1 .. Len(requests) - 1
          /\ (k - Len(answers')) + 1 = k - Len(answers)
      <4>1. \A m, n \in Nat : k <= m + n /\ k > m + 1 =>
              /\ ~(k <= m + 1) /\ ~(k <= m)
              /\ k - (m + 1) \in 1 .. n - 1 /\ (k - (m + 1)) + 1 = k - m
        OBVIOUS
      <4>2. k <= Len(answers) + Len(requests) /\ Len(answers') = Len(answers) + 1
            /\ Len(answers) \in Nat /\ Len(requests) \in Nat
        BY <1>3, <1>8, DepthType
      <4> QED
        BY <2>3, <4>1, <4>2
    <3> QED
      BY <1>2, <3>1 DEF PlaceIn, Place
  <2> QED
    BY <2>1, <2>2, <2>3, DepthType
<1>9. ASSUME link, NEW k \in 1 .. Depth
      PROVE  /\ IsHello(Place(k)) => IsHello(PlaceIn(answers', requests', k))
             /\ \A s, n : n \in Nat /\ IsOwn(Place(k), s, n) => IsOwn(PlaceIn(answers', requests', k), s, n)
  BY <1>6, <1>7, <1>8, <1>9
<1> QED
  BY <1>5, <1>9

LEMMA HelloIsNotOwn ==
  \A x, s, n : IsHello(x) => ~IsOwn(x, s, n)
BY HelloFrame, HelloAnswer DEF IsHello, IsOwn, AcksOf, Acks, FeedsOf, FeedFrames, HelloResp, SentFrame

LEMMA MatchedInit == Init => Matched
<1> SUFFICES ASSUME Init PROVE Matched
  OBVIOUS
<1>1. starts = 0 /\ pc = "closed" /\ answers = <<>> /\ requests = <<>> /\ MaxStarts \in Nat
  BY StreamerAssumption DEF Init, ChannelInit
<1>2. Len(answers) = 0 /\ Len(requests) = 0
  BY <1>1
<1>3. Depth = 0 /\ starts <= MaxStarts
  BY <1>1, <1>2 DEF Depth
<1> QED
  BY <1>1, <1>3 DEF Matched, Active

(* What the run finds: while it waits, the answer at the head is its own     *)
(* only if nothing is behind it.                                             *)
LEMMA TakeMatched ==
  ASSUME StreamerTypeOK, Matched, ReadAnswer
  PROVE  Matched'
<1> DEFINE a == Head(answers)
<1>0. TakeAnswer /\ pc \in {"hello", "await"}
  BY DEF ReadAnswer
<1>1. /\ Depth > 0 /\ Depth' = Depth - 1 /\ Depth \in Nat /\ Place(1) = a
      /\ \A k \in 1 .. Depth - 1 : PlaceIn(answers', requests', k) = Place(k + 1)
  BY <1>0, TakeMoves, DepthType
<1>2. /\ a.op = "FeedAck" <=> a \in Acks
      /\ a.op = "HelloResp" <=> a = HelloResp
      /\ link /\ link' = link
  BY <1>0, NextAnswer DEF TakeAnswer
<1> HIDE DEF a
<1>3. starts' = starts /\ starts \in Nat /\ starts > 0 /\ starts <= MaxStarts
      /\ (starts <= 1 => Depth <= starts)
  <2>1. starts' = starts
    BY DEF ReadAnswer, Attach, Account, Forget, streamerVars
  <2> QED
    BY <1>0, <2>1 DEF Matched, Active, StreamerTypeOK, ProgramTypeOK
<1>4. starts <= 1 => Depth' <= starts
  BY <1>1, <1>3
<1>5. ASSUME Depth' > 0 PROVE Depth' \in 1 .. Depth - 1 /\ Depth' + 1 = Depth
  BY <1>1, <1>5
<1>6. CASE pc = "hello"
  <2>1. Depth <= 2 /\ IsHello(Place(Depth))
    BY <1>1, <1>2, <1>6 DEF Matched
  <2>2. Depth' <= 1 /\ (starts = 1 => Depth' = 0)
    BY <1>1, <1>3, <2>1
  <2>3. Depth' > 0 => IsHello(PlaceIn(answers', requests', Depth'))
    BY <1>1, <1>5, <2>1
  <2>4. CASE Attach
    <3>1. \A k \in 1 .. Depth' : k = Depth' /\ Depth' > 0
      BY <1>1, <2>2
    <3>2. \A k \in 1 .. Depth' : IsHello(PlaceIn(answers', requests', k))
      BY <2>3, <3>1
    <3>3. pc' = "ready"
      BY <2>4 DEF Attach
    <3> QED
      BY <1>3, <1>4, <2>2, <3>2, <3>3 DEF Matched, Active, Place
  <2>5. CASE UNCHANGED streamerVars
    <3>1. Depth' <= 2 /\ pc' = "hello"
      BY <1>1, <1>6, <2>2, <2>5 DEF streamerVars
    <3> QED
      BY <1>3, <1>4, <2>3, <3>1 DEF Matched, Active, Place
  <2> QED
    BY <1>6, <2>4, <2>5 DEF ReadAnswer
<1>7. CASE pc = "await"
  <2>1. IsOwn(Place(Depth), at, chunkLen) /\ \A k \in 1 .. Depth - 1 : IsHello(Place(k))
    BY <1>2, <1>7 DEF Matched
  <2>2. CASE a \in Acks /\ Account(a)
    <3>1. ~IsHello(a)
      BY <2>2 DEF IsHello, HelloResp, SentFrame, Acks
    <3>2. Depth = 1
      <4>1. 1 \notin 1 .. Depth - 1
        BY <1>1, <2>1, <3>1
      <4> QED
        BY <1>1, <4>1
    <3>3. IsOwn(a, at, chunkLen)
      BY <1>1, <2>1, <3>2
    <3>4. a \in AcksOf(at) /\ a.accepted <= chunkLen
      <4>1. a \notin FeedFrames
        <5>1. DOMAIN a = {"op", "id", "accepted", "free"}
          BY <2>2 DEF Acks
        <5>2. a \in FeedFrames => DOMAIN a = {"op", "payload"}
          BY DEF FeedFrames
        <5>3. "id" \notin {"op", "payload"}
          OBVIOUS
        <5> QED
          BY <5>1, <5>2, <5>3
      <4> QED
        BY <3>3, <4>1 DEF IsOwn, FeedsOf
    <3>5. pc' = "ready"
      BY <2>2, <3>4 DEF Account, AcksOf
    <3>6. Depth' = 0
      BY <1>1, <3>2
    <3>7. \A k \in 1 .. Depth' : FALSE
      BY <3>6
    <3> QED
      BY <1>3, <1>4, <3>5, <3>6, <3>7 DEF Matched, Active
  <2>3. CASE a = HelloResp /\ UNCHANGED streamerVars
    <3>1. Depth # 1
      <4>1. IsHello(a)
        BY <2>3 DEF IsHello
      <4> QED
        BY <1>1, <2>1, <4>1, HelloIsNotOwn
    <3>2. Depth' > 0
      BY <1>1, <3>1
    <3>3. IsOwn(PlaceIn(answers', requests', Depth'), at, chunkLen)
      BY <1>1, <1>5, <2>1, <3>2
    <3>4. \A k \in 1 .. Depth' - 1 : IsHello(PlaceIn(answers', requests', k))
      <4> TAKE k \in 1 .. Depth' - 1
      <4>1. k \in 1 .. Depth - 1 /\ k + 1 \in 1 .. Depth - 1
        BY <1>1
      <4> QED
        BY <1>1, <2>1, <4>1
    <3>5. pc' = "await" /\ at' = at /\ chunkLen' = chunkLen
      BY <1>7, <2>3 DEF streamerVars
    <3> QED
      BY <1>3, <1>4, <3>2, <3>3, <3>4, <3>5 DEF Matched, Active, Place
  <2> QED
    BY <1>2, <1>7, <2>2, <2>3 DEF ReadAnswer, a
<1> QED
  BY <1>0, <1>6, <1>7

LEMMA MatchedStep ==
  ASSUME MaxStarts <= 2, StreamerTypeOK, Matched, [Next]_vars
  PROVE  Matched'
<1>0. Depth \in Nat /\ starts \in Nat /\ MaxStarts \in Nat /\ starts <= MaxStarts
      /\ (starts <= 1 => Depth <= starts) /\ pc # "failed"
  BY DepthType, StreamerAssumption DEF StreamerTypeOK, ProgramTypeOK, Matched
<1>1. CASE Start
  <2>1. /\ Depth' = Depth + 1 /\ PlaceIn(answers', requests', Depth + 1) = SentFrame
    BY <1>1, ProgramSends, SendMoves
  <2>2. starts' = starts + 1 /\ starts < MaxStarts /\ pc' = "hello"
    BY <1>1 DEF Start
  <2>3. Depth <= starts /\ starts <= 1
    BY <1>0, <2>2
  <2>4. Depth' <= 2 /\ Depth' <= starts' /\ starts' > 0 /\ starts' <= MaxStarts
    BY <1>0, <2>1, <2>2, <2>3
  <2>5. IsHello(PlaceIn(answers', requests', Depth'))
    BY <2>1 DEF IsHello
  <2> QED
    BY <2>2, <2>4, <2>5 DEF Matched, Active, Place
<1>2. CASE End
  <2>1. pc' = "closed" /\ starts' = starts /\ Depth' = Depth
    BY <1>2 DEF End, Forget, channelVars, Depth
  <2> QED
    BY <1>0, <2>1 DEF Matched, Active
<1>3. CASE Prefill \/ Probe \/ Refill
  <2>1. PICK n \in 0 .. FeedChunk : SendFeed(n) /\ pc = "ready"
    BY <1>3, Feedings
  <2>2. PICK f \in FeedsOf(at) : Sends(f) /\ Len(f.payload) = n + 1
    BY <2>1, ProgramSends
  <2>3. /\ Depth' = Depth + 1 /\ PlaceIn(answers', requests', Depth + 1) = f
        /\ \A k \in 1 .. Depth : PlaceIn(answers', requests', k) = Place(k)
    BY <2>2, SendMoves
  <2>4. pc' = "await" /\ at' = at /\ chunkLen' = n /\ starts' = starts /\ link
    BY <2>1 DEF SendFeed, Request
  <2>5. starts > 0 /\ (starts = 1 => Depth = 0) /\ \A k \in 1 .. Depth : IsHello(Place(k))
    BY <2>1, <2>4 DEF Matched, Active
  <2>6. IsOwn(PlaceIn(answers', requests', Depth'), at, n)
    BY <2>2, <2>3 DEF IsOwn
  <2>7. Depth' > 0 /\ Depth' - 1 = Depth /\ (starts <= 1 => Depth' <= starts)
    BY <1>0, <2>3, <2>5
  <2>8. \A k \in 1 .. Depth' - 1 : IsHello(PlaceIn(answers', requests', k))
    BY <2>3, <2>5, <2>7
  <2> QED
    BY <1>0, <2>4, <2>5, <2>6, <2>7, <2>8 DEF Matched, Active, Place
<1>4. CASE SkipStream \/ \E isDue \in BOOLEAN : BeginPass(isDue)
  <2>1. pc = "ready" /\ pc' = "ready" /\ starts' = starts /\ UNCHANGED <<link, requests, answers>>
    BY <1>4 DEF SkipStream, BeginPass, channelVars
  <2>2. Depth' = Depth /\ \A k : Place(k)' = Place(k)
    BY <2>1 DEF Depth, Place, PlaceIn
  <2> QED
    BY <2>1, <2>2 DEF Matched, Active
<1>5. CASE ReadAnswer
  BY <1>5, TakeMatched
<1>6. CASE Discard
  <2>1. Depth' = Depth - 1 /\ starts' = starts /\ pc' = pc /\ pc = "closed"
    BY <1>0, <1>6, TakeMoves DEF Discard, streamerVars
  <2>2. starts <= 1 => Depth' <= starts
    BY <1>0, <2>1
  <2> QED
    BY <1>0, <2>1, <2>2 DEF Matched, Active
<1>7. CASE Link
  <2>1. Depth' <= Depth /\ Depth' \in Nat
    <3>1. CASE LinkUp
      BY <1>0, <3>1 DEF LinkUp, Depth
    <3>2. CASE LinkDown
      <4>1. answers' = <<>> /\ \E n \in 0 .. 1 : n <= Len(requests) /\ requests' = SubSeq(requests, 1, n)
        BY <3>2 DEF LinkDown
      <4>2. PICK n \in 0 .. 1 : n <= Len(requests) /\ requests' = SubSeq(requests, 1, n)
        BY <4>1
      <4>3. \A i \in 1 .. n : requests[i] \in StreamerFrames
        BY <4>2, DepthType, ElementOfSeq
      <4>4. Len(requests') = IF 1 <= n THEN n - 1 + 1 ELSE 0
        BY <4>2, <4>3, SubSeqProperties
      <4>5. Len(requests') = n /\ Len(answers') = 0
        BY <4>1, <4>4
      <4>6. Depth' = 0 + n
        BY <4>5 DEF Depth
      <4> QED
        BY <4>2, <4>6, DepthType
    <3> QED
      BY <1>7, <3>1, <3>2 DEF Link
  <2>2. /\ pc' = pc /\ starts' = starts
        /\ pc \in {"closed", "failed"} \/ ~link'
    BY <1>7 DEF Link, LinkDown, LinkUp, streamerVars
  <2>3. starts <= 1 => Depth' <= starts
    BY <1>0, <2>1
  <2>4. Active => starts > 0
    BY DEF Matched
  <2> QED
    BY <1>0, <2>2, <2>3, <2>4 DEF Matched, Active
<1>8. CASE Handle /\ UNCHANGED streamerVars
  <2>1. /\ Depth' <= Depth /\ (link => Depth' = Depth) /\ link' = link
        /\ link =>
             \A k \in 1 .. Depth :
               /\ IsHello(Place(k)) => IsHello(PlaceIn(answers', requests', k))
               /\ \A s, n : n \in Nat /\ IsOwn(Place(k), s, n) =>
                    IsOwn(PlaceIn(answers', requests', k), s, n)
    BY <1>8, HandleMoves DEF Handle
  <2>2. /\ pc' = pc /\ starts' = starts /\ at' = at /\ chunkLen' = chunkLen /\ chunkLen \in Nat
    BY <1>8, StreamerAssumption DEF streamerVars, StreamerTypeOK, ProgramTypeOK
  <2>3. Depth' \in Nat
    <3>1. ChannelTypeOK'
      BY <1>8, ChannelSteps
    <3>2. Len(answers') \in Nat /\ Len(requests') \in Nat
      BY <3>1, LenProperties DEF ChannelTypeOK
    <3> QED
      BY <3>2 DEF Depth
  <2>4. starts <= 1 => Depth' <= starts
    BY <1>0, <2>1, <2>3
  <2>5. CASE ~link
    <3>1. Active => starts > 0
      BY DEF Matched
    <3> QED
      BY <1>0, <2>1, <2>2, <2>4, <2>5, <3>1 DEF Matched, Active
  <2>6. CASE link
    <3>1. Depth' = Depth
      BY <2>1, <2>6
    <3>2. Depth > 0 => Depth \in 1 .. Depth
      BY <1>0
    <3>3. \A k \in 1 .. Depth - 1 : k \in 1 .. Depth
      BY <1>0
    <3>4. CASE pc = "hello"
      BY <1>0, <2>1, <2>2, <2>4, <2>6, <3>1, <3>2, <3>4 DEF Matched, Active, Place
    <3>5. CASE pc = "ready"
      BY <1>0, <2>1, <2>2, <2>4, <2>6, <3>1, <3>5 DEF Matched, Active, Place
    <3>6. CASE pc = "await"
      BY <1>0, <2>1, <2>2, <2>4, <2>6, <3>1, <3>2, <3>3, <3>6 DEF Matched, Active, Place
    <3>7. CASE pc = "closed"
      BY <1>0, <2>1, <2>2, <2>4, <2>6, <3>7 DEF Matched, Active
    <3> QED
      BY <1>0, <3>4, <3>5, <3>6, <3>7 DEF StreamerTypeOK, ProgramTypeOK
  <2> QED
    BY <2>5, <2>6
<1>9. CASE (DeviceRuns /\ UNCHANGED streamerVars) \/ UNCHANGED vars
  <2>1. UNCHANGED <<channelVars, streamerVars>>
    BY <1>9 DEF DeviceRuns, vars
  <2>2. Depth' = Depth /\ \A k : Place(k)' = Place(k)
    BY <2>1 DEF channelVars, Depth, Place, PlaceIn
  <2> QED
    BY <2>1, <2>2 DEF Matched, Active, channelVars, streamerVars, Place
<1> QED
  BY <1>1, <1>2, <1>3, <1>4, <1>5, <1>6, <1>7, <1>8, <1>9 DEF Next, Run, Device

-------------------------------------------------------------------------------
(* The types of the streamer: the program and the device exchange only       *)
(* HELLO frames and feeds of a stream with at most a chunk of samples, the   *)
(* cursors stay inside the samples, and the device keeps its own types.      *)
THEOREM StreamerTypeCorrect == Spec => []StreamerTypeOK
<1>1. Init => StreamerTypeOK
  BY StreamerInitType
<1>2. StreamerTypeOK /\ [Next]_vars => StreamerTypeOK'
  BY StreamerTypeStep
<1> QED
  BY <1>1, <1>2, PTL DEF Spec

(* A run overfeeds no stream (main.rs 150, 161-174, 211-226), whatever the   *)
(* runs before it left in the channel and wherever they ended.  The low mark *)
(* is below the prefill level for every capacity from 3 on; the firmware's is *)
(* 2048.                                                                     *)
THEOREM LimitCorrect ==
  ASSUME LowMark < PrefillLevel
  PROVE  Spec => []LimitKept
<1> DEFINE Inv == StreamerTypeOK /\ OneEach /\ AckTells /\ LimitInv
<1>1. Init => Inv
  <2>1. Init => AckTells
    <3> SUFFICES ASSUME Init PROVE AckTells
      OBVIOUS
    <3>1. 1 .. Len(answers) = {}
      BY DEF Init, ChannelInit
    <3> QED
      BY <3>1 DEF AckTells
  <2> QED
    BY <2>1, StreamerInitType, OneEachInit, LimitInit
<1>2. Inv /\ [Next]_vars => Inv'
  BY StreamerTypeStep, OneEachStep, AckTellsStep, LimitStep
<1>3. Inv => LimitKept
  <2> SUFFICES ASSUME Inv, NEW s \in StreamId
               PROVE  Len(queue[s]) + InFlight(s) < PrefillLevel + ReadAhead + FeedChunk * starts
    BY DEF LimitKept
  <2>1. Level(s) \in Nat /\ Promised(s) \in Nat /\ Level(s) <= Promised(s)
    BY Counted
  <2>2. starts \in Nat
    BY DEF StreamerTypeOK, ProgramTypeOK
  <2>3. Promised(s) < Limit(starts) /\ Limit(starts) \in Nat
    BY <2>2, Limits DEF LimitInv
  <2>4. Level(s) < Limit(starts)
    BY <2>1, <2>3
  <2> QED
    BY <2>4 DEF Level, Limit
<1> QED
  BY <1>1, <1>2, <1>3, PTL DEF Spec

(* Of two runs, neither ever fails on an answer it gets (main.rs 364-380):   *)
(* the only answer it can find before its own is one to the HELLO_REQ of the *)
(* other run.  With a third run this does not hold: the run                  *)
(* streamer_restart shows it.                                                *)
THEOREM AnswersMatched ==
  ASSUME MaxStarts <= 2
  PROVE  Spec => []NeverFails
<1> DEFINE Inv == StreamerTypeOK /\ Matched
<1>1. Init => Inv
  BY StreamerInitType, MatchedInit
<1>2. Inv /\ [Next]_vars => Inv'
  BY StreamerTypeStep, MatchedStep
<1>3. Inv => NeverFails
  BY DEF Matched, NeverFails
<1> QED
  BY <1>1, <1>2, <1>3, PTL DEF Spec

-------------------------------------------------------------------------------
(* The feeds among the requests. *)
LEMMA PayloadType ==
  ASSUME NEW f \in StreamerFrames
  PROVE  /\ PayloadOf(f) \in Seq(Seq(Byte))
         /\ f = SentFrame => PayloadOf(f) = <<>>
         /\ f \in FeedFrames => PayloadOf(f) = <<f.payload>> /\ f.payload \in Seq(Byte)
<1>1. CASE f = SentFrame
  <2>1. f.op = HelloReq /\ HelloReq # Feed
    BY <1>1 DEF SentFrame, HelloReq, Feed
  <2>2. PayloadOf(f) = <<>> /\ f \notin FeedFrames
    BY <2>1 DEF PayloadOf, FeedFrames
  <2> QED
    BY <2>2, EmptySeq
<1>2. CASE f \in FeedFrames
  <2>1. f.op = Feed /\ f.payload \in Seq(Byte)
    BY <1>2 DEF FeedFrames
  <2>2. PayloadOf(f) = <<f.payload>> /\ f # SentFrame
    BY <2>1 DEF PayloadOf, SentFrame, HelloReq, Feed
  <2>3. <<f.payload>> \in Seq(Seq(Byte))
    BY <2>1
  <2> QED
    BY <2>1, <2>2, <2>3
<1> QED
  BY <1>1, <1>2 DEF StreamerFrames

Payloads(q) == [i \in DOMAIN q |-> PayloadOf(q[i])]

LEMMA PayloadsType ==
  ASSUME NEW q \in Seq(StreamerFrames)
  PROVE  /\ Payloads(q) \in Seq(Seq(Seq(Byte))) /\ Len(Payloads(q)) = Len(q)
         /\ \A i \in 1 .. Len(q) : Payloads(q)[i] = PayloadOf(q[i])
         /\ FeedPayloads(q) = FlattenSeq(Payloads(q)) /\ FeedPayloads(q) \in Seq(Seq(Byte))
<1> DEFINE p == Payloads(q)
<1>1. DOMAIN q = 1 .. Len(q) /\ Len(q) \in Nat /\ \A i \in 1 .. Len(q) : q[i] \in StreamerFrames
  BY LenProperties, ElementOfSeq
<1>2. p = [i \in 1 .. Len(q) |-> PayloadOf(q[i])]
  BY <1>1 DEF Payloads
<1>3. \A i \in 1 .. Len(q) : PayloadOf(q[i]) \in Seq(Seq(Byte))
  BY <1>1, PayloadType
<1>4. p \in Seq(Seq(Seq(Byte))) /\ DOMAIN p = 1 .. Len(q)
  BY <1>1, <1>2, <1>3
<1>5. FeedPayloads(q) = FlattenSeq(p)
  BY DEF FeedPayloads, Payloads
<1> HIDE DEF p
<1>6. Len(p) = Len(q)
  BY <1>1, <1>4, LenProperties
<1>7. FlattenSeq(p) \in Seq(Seq(Byte))
  BY <1>4, FlattenType
<1> QED
  BY <1>2, <1>4, <1>5, <1>6, <1>7 DEF p

LEMMA PayloadsEmpty == FeedPayloads(<<>>) = <<>>
<1>1. [i \in DOMAIN <<>> |-> PayloadOf(<<>>[i])] = <<>>
  BY EmptySeq
<1> QED
  BY <1>1, FlattenEmpty DEF FeedPayloads

LEMMA PayloadsAppend ==
  ASSUME NEW q \in Seq(StreamerFrames), NEW f \in StreamerFrames
  PROVE  FeedPayloads(Append(q, f)) = FeedPayloads(q) \o PayloadOf(f)
<1> DEFINE r == Append(q, f)
           a == Payloads(r)
           e == Payloads(q)
           b == Append(e, PayloadOf(f))
<1>1. /\ Len(q) \in Nat /\ r \in Seq(StreamerFrames) /\ Len(r) = Len(q) + 1 /\ r[Len(q) + 1] = f
      /\ \A i \in 1 .. Len(q) : r[i] = q[i]
  BY LenProperties, AppendProperties
<1> HIDE DEF r
<1>2. /\ a \in Seq(Seq(Seq(Byte))) /\ Len(a) = Len(r)
      /\ \A i \in 1 .. Len(r) : a[i] = PayloadOf(r[i])
      /\ FeedPayloads(r) = FlattenSeq(a)
  BY <1>1, PayloadsType
<1>3. /\ e \in Seq(Seq(Seq(Byte))) /\ Len(e) = Len(q)
      /\ \A i \in 1 .. Len(q) : e[i] = PayloadOf(q[i])
      /\ FeedPayloads(q) = FlattenSeq(e)
  BY PayloadsType
<1>4. PayloadOf(f) \in Seq(Seq(Byte))
  BY PayloadType
<1> HIDE DEF a, e
<1>5. /\ b \in Seq(Seq(Seq(Byte))) /\ Len(b) = Len(e) + 1 /\ b[Len(e) + 1] = PayloadOf(f)
      /\ \A i \in 1 .. Len(e) : b[i] = e[i]
  BY <1>3, <1>4, AppendProperties
<1> HIDE DEF b
<1>6. Len(a) = Len(b)
  BY <1>1, <1>2, <1>3, <1>5
<1>7. ASSUME NEW i \in 1 .. Len(a) PROVE a[i] = b[i]
  <2>1. CASE i = Len(q) + 1
    BY <1>1, <1>2, <1>3, <1>5, <2>1
  <2>2. CASE i # Len(q) + 1
    <3>1. i \in 1 .. Len(q) /\ i \in 1 .. Len(r)
      BY <1>1, <1>2, <2>2
    <3> QED
      BY <1>1, <1>2, <1>3, <1>5, <3>1
  <2> QED
    BY <2>1, <2>2
<1>8. a = b
  BY <1>2, <1>5, <1>6, <1>7, SeqEqual
<1>9. FlattenSeq(b) = FlattenSeq(e) \o PayloadOf(f)
  BY <1>3, <1>4, FlattenAppend DEF b
<1> QED
  BY <1>2, <1>3, <1>8, <1>9 DEF r

LEMMA PayloadsFirst ==
  ASSUME NEW q \in Seq(StreamerFrames), q # <<>>
  PROVE  /\ Head(q) \in StreamerFrames /\ Tail(q) \in Seq(StreamerFrames)
         /\ FeedPayloads(q) = PayloadOf(Head(q)) \o FeedPayloads(Tail(q))
<1> DEFINE t == Tail(q)
           e == Payloads(q)
           a == Payloads(t)
           b == Tail(e)
<1>1. /\ Head(q) \in StreamerFrames /\ t \in Seq(StreamerFrames) /\ Len(t) = Len(q) - 1
      /\ \A i \in 1 .. Len(t) : t[i] = q[i + 1]
      /\ Len(q) \in Nat \ {0} /\ Head(q) = q[1]
  BY HeadTailProperties, EmptySeq
<1> HIDE DEF t
<1>2. /\ e \in Seq(Seq(Seq(Byte))) /\ Len(e) = Len(q)
      /\ \A i \in 1 .. Len(q) : e[i] = PayloadOf(q[i])
      /\ FeedPayloads(q) = FlattenSeq(e)
  BY PayloadsType
<1>3. /\ a \in Seq(Seq(Seq(Byte))) /\ Len(a) = Len(t)
      /\ \A i \in 1 .. Len(t) : a[i] = PayloadOf(t[i])
      /\ FeedPayloads(t) = FlattenSeq(a)
  BY <1>1, PayloadsType
<1> HIDE DEF a, e
<1>4. e # <<>>
  BY <1>1, <1>2, EmptySeq
<1>5. Head(e) = PayloadOf(Head(q))
  BY <1>1, <1>2, <1>4
<1>6. /\ b \in Seq(Seq(Seq(Byte))) /\ Len(b) = Len(e) - 1
      /\ \A i \in 1 .. Len(b) : b[i] = e[i + 1]
  BY <1>2, <1>4, HeadTailProperties
<1> HIDE DEF b
<1>7. Len(a) = Len(b)
  BY <1>1, <1>2, <1>3, <1>6
<1>8. ASSUME NEW i \in 1 .. Len(a) PROVE a[i] = b[i]
  <2>1. i \in 1 .. Len(t) /\ i \in 1 .. Len(b) /\ i + 1 \in 1 .. Len(q)
    BY <1>1, <1>2, <1>3, <1>7
  <2> QED
    BY <1>1, <1>2, <1>3, <1>6, <2>1
<1>9. a = b
  BY <1>3, <1>6, <1>7, <1>8, SeqEqual
<1>10. FlattenSeq(e) = Head(e) \o FlattenSeq(b)
  BY <1>2, <1>4, FlattenFirst DEF b
<1> QED
  BY <1>1, <1>2, <1>3, <1>5, <1>9, <1>10 DEF t

(* A HELLO frame at the end, a feed at the head, the frames but the last.   *)
LEMMA PayloadsMove ==
  ASSUME NEW q \in Seq(StreamerFrames), NEW f \in StreamerFrames
  PROVE  /\ FeedPayloads(Append(q, SentFrame)) = FeedPayloads(q)
         /\ f \in FeedFrames => FeedPayloads(Append(q, f)) = Append(FeedPayloads(q), f.payload)
         /\ q # <<>> /\ Head(q) = SentFrame => FeedPayloads(q) = FeedPayloads(Tail(q))
         /\ q # <<>> /\ Head(q) \in FeedFrames =>
              /\ FeedPayloads(q) # <<>>
              /\ Head(FeedPayloads(q)) = Head(q).payload
              /\ Tail(FeedPayloads(q)) = FeedPayloads(Tail(q))
<1>1. FeedPayloads(q) \in Seq(Seq(Byte))
  BY PayloadsType
<1>2. FeedPayloads(q) \o <<>> = FeedPayloads(q)
  BY <1>1, ConcatEmptySeq
<1>3. FeedPayloads(Append(q, SentFrame)) = FeedPayloads(q)
  BY <1>2, PayloadsAppend, PayloadType, HelloFrame
<1>4. ASSUME f \in FeedFrames
      PROVE  FeedPayloads(Append(q, f)) = Append(FeedPayloads(q), f.payload)
  <2>1. PayloadOf(f) = <<f.payload>> /\ f.payload \in Seq(Byte)
    BY <1>4, PayloadType
  <2>2. FeedPayloads(Append(q, f)) = FeedPayloads(q) \o <<f.payload>>
    BY <2>1, PayloadsAppend
  <2> QED
    BY <1>1, <2>1, <2>2, AppendIsConcat
<1>5. ASSUME q # <<>>
      PROVE  /\ FeedPayloads(Tail(q)) \in Seq(Seq(Byte)) /\ Head(q) \in StreamerFrames
             /\ FeedPayloads(q) = PayloadOf(Head(q)) \o FeedPayloads(Tail(q))
  BY <1>5, PayloadsFirst, PayloadsType
<1>6. ASSUME q # <<>>, Head(q) = SentFrame
      PROVE  FeedPayloads(q) = FeedPayloads(Tail(q))
  <2>1. <<>> \o FeedPayloads(Tail(q)) = FeedPayloads(Tail(q))
    BY <1>5, <1>6, ConcatEmptySeq
  <2> QED
    BY <1>5, <1>6, <2>1, PayloadType
<1>7. ASSUME q # <<>>, Head(q) \in FeedFrames
      PROVE  /\ FeedPayloads(q) # <<>>
             /\ Head(FeedPayloads(q)) = Head(q).payload
             /\ Tail(FeedPayloads(q)) = FeedPayloads(Tail(q))
  <2> DEFINE rest == FeedPayloads(Tail(q))
             x == Head(q).payload
  <2>1. rest \in Seq(Seq(Byte)) /\ x \in Seq(Byte) /\ FeedPayloads(q) = <<x>> \o rest
    BY <1>5, <1>7, PayloadType
  <2> HIDE DEF rest, x
  <2>2. <<x>> \o rest # <<>> /\ Head(<<x>> \o rest) = x /\ Tail(<<x>> \o rest) = rest
    BY <2>1, ConsParts
  <2> QED
    BY <2>1, <2>2 DEF rest, x
<1> QED
  BY <1>3, <1>4, <1>6, <1>7

-------------------------------------------------------------------------------
(* The next sample of a stream: cursor c, of r samples, with u of the feed  *)
(* under way not taken.                                                     *)
NextAt(c, r, u) == (c + (r * u) - u) % r

LEMMA NextAtMoves ==
  ASSUME NEW r \in Nat \ {0}, NEW c \in 0 .. r - 1, NEW n \in Nat, NEW d \in 0 .. n
  PROVE  /\ NextAt(c, r, 0) = c
         /\ NextAt((c + n) % r, r, n) = c
         /\ NextAt(c, r, n - d) = (NextAt(c, r, n) + d) % r
         /\ (c + r - (n % r)) % r = NextAt(c, r, n)
<1>1. c % r = c
  BY Wrap
<1>2. NextAt(c, r, 0) = c
  <2>1. c + (r * 0) - 0 = c
    OBVIOUS
  <2> QED
    BY <1>1, <2>1 DEF NextAt
<1>3. NextAt((c + n) % r, r, n) = c
  <2> DEFINE x == (c + n) % r
             m == r * n
  <2>1. c + n \in Int /\ m \in Int /\ m - n \in Int /\ x \in Int
    BY DivMod
  <2>2. (x + (m - n)) % r = ((c + n) + (m - n)) % r
    <3> HIDE DEF m
    <3> QED
      BY <2>1, ModPlus
  <2>3. (c + m) % r = c % r
    BY ModShift
  <2> HIDE DEF m, x
  <2>4. x + m - n = x + (m - n) /\ (c + n) + (m - n) = c + m
    BY <2>1
  <2> QED
    BY <1>1, <2>2, <2>3, <2>4 DEF NextAt, m, x
<1>4. NextAt(c, r, n - d) = (NextAt(c, r, n) + d) % r
  <2> DEFINE m == r * n
             k == r * d
             e == r * (n - d)
             x == c + m - n
             y == c + e - (n - d)
  <2>1. m \in Int /\ k \in Int /\ e \in Int /\ d \in Int /\ e = m - k
    OBVIOUS
  <2>2. ((x % r) + d) % r = (x + d) % r
    <3>1. x \in Int
      BY <2>1
    <3> HIDE DEF x
    <3> QED
      BY <2>1, <3>1, ModPlus
  <2>3. (y + k) % r = y % r
    <3>1. y \in Int
      BY <2>1
    <3> HIDE DEF y
    <3> QED
      BY <2>1, <3>1, ModShift
  <2>4. y + k = x + d
    <3> HIDE DEF m, k, e
    <3> QED
      BY <2>1
  <2> HIDE DEF x, y
  <2>5. (NextAt(c, r, n) + d) % r = (x + d) % r
    BY <2>2 DEF NextAt, x
  <2>6. NextAt(c, r, n - d) = y % r
    BY DEF NextAt, y
  <2> QED
    BY <2>3, <2>4, <2>5, <2>6
<1>5. (c + r - (n % r)) % r = NextAt(c, r, n)
  <2> DEFINE q == n \div r
             x == n % r
             a == c + r - x
             m == r * n
             z == r * q
  <2>1. n = z + x /\ x \in Int /\ q \in Int /\ z \in Int /\ m \in Int
    BY DivMod
  <2> HIDE DEF q, x
  <2>2. r * ((n - q) - 1) = (m - z) - r
    BY <2>1
  <2>3. (a + r * ((n - q) - 1)) % r = a % r
    <3>1. a \in Int /\ (n - q) - 1 \in Int
      BY <2>1
    <3> HIDE DEF a
    <3> QED
      BY <3>1, ModShift
  <2>4. a + ((m - z) - r) = c + m - n
    <3> HIDE DEF m, z
    <3> QED
      BY <2>1
  <2> QED
    BY <2>2, <2>3, <2>4 DEF NextAt, x
<1> QED
  BY <1>2, <1>3, <1>4, <1>5

(* The samples of the feed under way, if the device has not carried it out. *)
OwnFeed ==
  link /\ pc = "await" /\ requests # <<>> =>
    requests[Len(requests)].payload = <<at>> \o PlaybackOf!Chunk(at, Position[at], chunkLen)

LEMMA PositionIs ==
  ASSUME StreamerTypeOK, NEW s \in StreamId
  PROVE  /\ Len(Samples[s]) \in Nat \ {0} /\ cur[s] \in 0 .. Len(Samples[s]) - 1 /\ chunkLen \in Nat
         /\ ~ Feeding => Position[s] = 0
         /\ Feeding => Position[s] = NextAt(cur[s], Len(Samples[s]), Unaccepted(s))
         /\ Feeding /\ Unaccepted(s) = 0 => Position[s] = cur[s]
<1>1. Len(Samples[s]) \in Nat \ {0} /\ cur[s] \in 0 .. Len(Samples[s]) - 1 /\ chunkLen \in Nat
  BY SamplesSize, StreamerAssumption DEF StreamerTypeOK, ProgramTypeOK
<1>2. /\ ~ Feeding => Position[s] = 0
      /\ Feeding => Position[s] = NextAt(cur[s], Len(Samples[s]), Unaccepted(s))
  BY DEF Position, NextAt
<1>3. NextAt(cur[s], Len(Samples[s]), 0) = cur[s]
  <2> DEFINE r == Len(Samples[s])
             c == cur[s]
  <2>1. r \in Nat \ {0} /\ c \in 0 .. r - 1 /\ 0 \in Nat /\ 0 \in 0 .. 0
    BY <1>1
  <2> HIDE DEF r, c
  <2>2. NextAt(c, r, 0) = c
    BY <2>1, NextAtMoves
  <2> QED
    BY <2>2 DEF r, c
<1> QED
  BY <1>1, <1>2, <1>3

(* The run reads the answer to its own feed only when nothing is behind it,  *)
(* and only HELLO frames are before it.                                      *)
LEMMA InTheChannel ==
  ASSUME StreamerTypeOK, Matched, Feeding
  PROVE  /\ \A i \in 1 .. Len(requests) :
              i < Len(requests) \/ pc = "ready" => requests[i] = SentFrame
         /\ pc = "await" /\ requests # <<>> =>
              /\ requests[Len(requests)] \in FeedsOf(at)
              /\ Len(requests[Len(requests)].payload) = chunkLen + 1
         /\ pc = "await" /\ requests = <<>> =>
              /\ answers # <<>> /\ answers[Len(answers)] \in AcksOf(at)
              /\ answers[Len(answers)].accepted \in 0 .. chunkLen
         /\ pc = "await" => \A i \in 1 .. Len(answers) : answers[i] \in Acks => requests = <<>> /\ i = Len(answers)
<1> DEFINE a == Len(answers)
           n == Len(requests)
<1>1. /\ link /\ pc \in {"ready", "await"}
      /\ requests \in Seq(StreamerFrames) /\ answers \in Seq(StreamerAnswers)
      /\ a \in Nat /\ n \in Nat /\ Depth = a + n
  BY LenProperties DEF StreamerTypeOK, ChannelTypeOK, Feeding, Depth
<1>2. ASSUME NEW i \in 1 .. n
      PROVE  a + i \in 1 .. Depth /\ Place(a + i) = requests[i]
  BY <1>1 DEF Place, PlaceIn
<1>3. ASSUME NEW i \in 1 .. a
      PROVE  i \in 1 .. Depth /\ Place(i) = answers[i]
  BY <1>1 DEF Place, PlaceIn
<1>4. /\ pc = "ready" => \A k \in 1 .. Depth : IsHello(Place(k))
      /\ pc = "await" => /\ Depth > 0 /\ IsOwn(Place(Depth), at, chunkLen)
                         /\ \A k \in 1 .. Depth - 1 : IsHello(Place(k))
  BY <1>1 DEF Matched
<1>5. ASSUME NEW i \in 1 .. n, i < n \/ pc = "ready"
      PROVE  requests[i] = SentFrame
  <2>1. a + i \in 1 .. Depth /\ Place(a + i) = requests[i]
    BY <1>2
  <2>2. pc = "await" => a + i \in 1 .. Depth - 1
    BY <1>1, <1>5
  <2>3. IsHello(requests[i])
    BY <1>1, <1>4, <2>1, <2>2
  <2>4. requests[i] \in StreamerFrames
    BY <1>1, ElementOfSeq
  <2>5. requests[i] # HelloResp
    BY <2>4 DEF StreamerFrames, SentFrame, FeedFrames, HelloResp, HelloReq, Feed
  <2> QED
    BY <2>3, <2>5 DEF IsHello
<1>6. ASSUME pc = "await", requests # <<>>
      PROVE  requests[n] \in FeedsOf(at) /\ Len(requests[n].payload) = chunkLen + 1
  <2>1. n \in 1 .. n /\ a + n = Depth
    BY <1>1, <1>6, EmptySeq
  <2>2. IsOwn(requests[n], at, chunkLen)
    BY <1>2, <1>4, <1>6, <2>1
  <2>3. requests[n] \in StreamerFrames
    BY <1>1, <2>1, ElementOfSeq
  <2>4. requests[n] \notin AcksOf(at)
    BY <2>3 DEF StreamerFrames, SentFrame, FeedFrames, AcksOf, Acks, HelloReq, Feed
  <2> QED
    BY <2>2, <2>4 DEF IsOwn
<1>7. ASSUME pc = "await", requests = <<>>
      PROVE  answers # <<>> /\ answers[a] \in AcksOf(at) /\ answers[a].accepted \in 0 .. chunkLen
  <2>1. n = 0 /\ a = Depth /\ a \in 1 .. a
    BY <1>1, <1>4, <1>7, EmptySeq
  <2>2. IsOwn(answers[a], at, chunkLen)
    BY <1>3, <1>4, <1>7, <2>1
  <2>3. answers[a] \in StreamerAnswers /\ answers # <<>>
    BY <1>1, <2>1, ElementOfSeq, EmptySeq
  <2>4. answers[a] \notin FeedsOf(at)
    BY <2>3 DEF StreamerAnswers, HelloResp, Acks, FeedsOf, FeedFrames
  <2>5. answers[a] \in AcksOf(at) /\ answers[a].accepted <= chunkLen
    BY <2>2, <2>4 DEF IsOwn
  <2>6. answers[a].accepted \in Nat /\ chunkLen \in Nat
    BY <2>5 DEF AcksOf, Acks, StreamerTypeOK, ProgramTypeOK
  <2> QED
    BY <2>3, <2>5, <2>6
<1>8. ASSUME pc = "await", NEW i \in 1 .. a, answers[i] \in Acks
      PROVE  requests = <<>> /\ i = a
  <2>1. i \in 1 .. Depth /\ Place(i) = answers[i]
    BY <1>3
  <2>2. ~ IsHello(answers[i])
    <3>1. answers[i].id \in StreamId /\ answers[i].accepted \in Nat /\ answers[i] \in AcksOf(answers[i].id)
      BY <1>8, StreamerAssumption DEF Acks, AcksOf
    <3>2. IsOwn(answers[i], answers[i].id, answers[i].accepted)
      BY <3>1 DEF IsOwn
    <3> QED
      BY <3>2, HelloIsNotOwn
  <2>3. i = Depth
    BY <1>1, <1>4, <1>8, <2>1, <2>2
  <2>4. n = 0 /\ i = a
    BY <1>1, <2>3
  <2> QED
    BY <1>1, <2>4, EmptySeq
<1> QED
  BY <1>5, <1>6, <1>7, <1>8

LEMMA ChunkType ==
  ASSUME NEW s \in StreamId, NEW i \in Nat, NEW n \in Nat
  PROVE  PlaybackOf!Chunk(s, i, n) \in Seq(Byte) /\ Len(PlaybackOf!Chunk(s, i, n)) = n
<1> DEFINE size == Len(Samples[s])
           place(k) == ((i + k - 1) % size) + 1
<1>1. Samples[s] \in Seq(Byte) /\ size \in Nat \ {0}
  BY SamplesSize, StreamerAssumption
<1>2. \A k \in 1 .. n : place(k) \in 1 .. size
  <2> HIDE DEF size
  <2> TAKE k \in 1 .. n
  <2>1. i + k - 1 \in Int
    OBVIOUS
  <2>2. (i + k - 1) % size \in 0 .. size - 1
    BY <1>1, <2>1, DivMod
  <2> QED
    BY <1>1, <2>2
<1>3. \A k \in 1 .. n : Samples[s][place(k)] \in Byte
  BY <1>1, <1>2, ElementOfSeq
<1> QED
  BY <1>3, IsASeq DEF PlaybackOf!Chunk

(* The last of a sequence, when the first is taken. *)
LEMMA TailLast ==
  ASSUME NEW S, NEW q \in Seq(S), q # <<>>
  PROVE  /\ Len(Tail(q)) = Len(q) - 1 /\ Len(q) \in Nat \ {0} /\ Head(q) = q[1]
         /\ Tail(q) = <<>> <=> Len(q) = 1
         /\ Tail(q) # <<>> => Tail(q)[Len(Tail(q))] = q[Len(q)]
<1> DEFINE t == Tail(q)
<1>1. /\ t \in Seq(S) /\ Len(t) = Len(q) - 1 /\ Len(q) \in Nat \ {0} /\ Head(q) = q[1]
      /\ \A i \in 1 .. Len(t) : t[i] = q[i + 1]
  BY HeadTailProperties, EmptySeq
<1> HIDE DEF t
<1>2. t = <<>> <=> Len(q) = 1
  BY <1>1, EmptySeq
<1>3. t # <<>> => t[Len(t)] = q[Len(q)]
  BY <1>1, <1>2
<1> QED
  BY <1>1, <1>2, <1>3 DEF t

LEMMA OwnFeedStep ==
  ASSUME StreamerTypeOK, Matched, OwnFeed, [Next]_vars
  PROVE  OwnFeed'
<1> SUFFICES ASSUME link', pc' = "await", requests' # <<>>
             PROVE  requests'[Len(requests')].payload = <<at'>> \o PlaybackOf!Chunk(at, Position[at], chunkLen)'
  BY DEF OwnFeed
<1>1. at \in StreamId /\ requests \in Seq(StreamerFrames)
  BY DEF StreamerTypeOK, ProgramTypeOK, ChannelTypeOK
<1>2. ASSUME UNCHANGED streamerVars, link, requests # <<>>, requests'[Len(requests')] = requests[Len(requests)]
      PROVE  OwnFeed'
  <2>1. pc = "await" /\ Feeding /\ Feeding'
    BY <1>2 DEF streamerVars, Feeding
  <2>2. Position[at] = Position'[at]
    <3>1. Unaccepted(at) = chunkLen /\ Unaccepted(at)' = chunkLen
      BY <1>2, <2>1 DEF Unaccepted, streamerVars
    <3> QED
      BY <1>1, <1>2, <2>1, <3>1 DEF Position, streamerVars
  <2>3. at' = at /\ chunkLen' = chunkLen
    BY <1>2 DEF streamerVars
  <2> QED
    BY <1>2, <2>1, <2>2, <2>3 DEF OwnFeed, PlaybackOf!Chunk
<1>3. CASE Prefill \/ Probe \/ Refill
  <2>1. PICK n \in 0 .. FeedChunk : SendFeed(n) /\ pc = "ready"
    BY <1>3, Feedings
  <2>2. /\ link /\ at' = at /\ chunkLen' = n
        /\ requests' = Append(requests, [op |-> Feed, payload |-> <<at>> \o NextSamples(n)])
        /\ cur' = [cur EXCEPT ![at] = (@ + n) % Len(Samples[at])]
    BY <2>1 DEF SendFeed, Request
  <2>3. requests'[Len(requests')].payload = <<at>> \o NextSamples(n)
    BY <1>1, <2>2
  <2>4. Position'[at] = cur[at]
    <3> DEFINE r == Len(Samples[at])
               c == cur[at]
    <3>1. r \in Nat \ {0} /\ c \in 0 .. r - 1 /\ n \in Nat /\ 0 \in 0 .. n
      BY <1>1, PositionIs, StreamerAssumption
    <3>2. Unaccepted(at)' = n /\ Feeding' /\ cur'[at] = (c + n) % r
      BY <1>1, <2>2 DEF Unaccepted, Feeding, StreamerTypeOK, ProgramTypeOK
    <3>3. Position'[at] = NextAt((c + n) % r, r, n)
      BY <1>1, <2>2, <3>2 DEF Position, NextAt
    <3> HIDE DEF r, c
    <3>4. NextAt((c + n) % r, r, n) = c
      BY <3>1, NextAtMoves
    <3> QED
      BY <3>3, <3>4 DEF c
  <2>5. PlaybackOf!Chunk(at, cur[at], n) = NextSamples(n)
    BY DEF PlaybackOf!Chunk, NextSamples
  <2> QED
    BY <2>2, <2>3, <2>4, <2>5 DEF PlaybackOf!Chunk
<1>4. CASE ReadAnswer
  <2>1. link' = link /\ requests' = requests
    BY <1>4 DEF ReadAnswer, TakeAnswer
  <2>2. UNCHANGED streamerVars
    BY <1>4 DEF ReadAnswer, Attach, Account, Forget
  <2> QED
    BY <1>2, <2>1, <2>2 DEF OwnFeed
<1>5. CASE Device
  <2>1. UNCHANGED streamerVars /\ (Handle \/ DeviceRuns)
    BY <1>5 DEF Device
  <2>2. CASE DeviceRuns
    BY <1>2, <2>1, <2>2 DEF DeviceRuns, channelVars, OwnFeed
  <2>3. CASE Handle
    <3>1. requests # <<>> /\ requests' = Tail(requests) /\ link' = link
      BY <2>3 DEF Handle
    <3>2. requests'[Len(requests')] = requests[Len(requests)]
      BY <1>1, <3>1, TailLast
    <3> QED
      BY <1>2, <2>1, <3>1, <3>2 DEF OwnFeed
  <2> QED
    BY <2>1, <2>2, <2>3
<1>6. CASE UNCHANGED vars
  BY <1>2, <1>6 DEF vars, channelVars, OwnFeed
<1>7. CASE Start \/ End \/ Discard \/ Link \/ SkipStream \/ \E isDue \in BOOLEAN : BeginPass(isDue)
  BY <1>7 DEF Start, End, Discard, Link, LinkDown, LinkUp, SkipStream, BeginPass, streamerVars
<1> QED
  BY <1>3, <1>4, <1>5, <1>6, <1>7 DEF Next, Run, OwnFeed

-------------------------------------------------------------------------------
(* Each step of the program, the channel and the device is one of Playback. *)
Plays == [PlaybackOf!Next]_(PlaybackOf!vars)

LEMMA Unseen ==
  ASSUME UNCHANGED deviceVars, Feeding' <=> Feeding, Position' = Position, Leftover' = Leftover
  PROVE  Plays
<1>1. Feeding' = Feeding
  BY DEF Feeding
<1> QED
  BY <1>1 DEF Plays, PlaybackOf!vars, PlaybackOf!deviceVars, deviceVars, PlaybackOf!streamVars, streamVars

(* While no run feeds, only what earlier runs left in the channel counts. *)
LEMMA Quiet ==
  /\ ~ Feeding => Leftover = FeedPayloads(requests) /\ Position = [s \in StreamId |-> 0]
  /\ ~ Feeding' => Leftover' = FeedPayloads(requests') /\ Position' = [s \in StreamId |-> 0]
BY DEF Leftover, Position

LEMMA UnseenQuiet ==
  ASSUME UNCHANGED deviceVars, ~ Feeding, ~ Feeding', FeedPayloads(requests') = FeedPayloads(requests)
  PROVE  Plays
BY Quiet, Unseen

LEMMA LeftoverType ==
  ASSUME StreamerTypeOK
  PROVE  /\ Leftover \in Seq(Seq(Byte)) /\ Len(Leftover) \in Nat
         /\ ~(Feeding /\ pc = "await" /\ requests # <<>>) => Leftover = FeedPayloads(requests)
         /\ Feeding /\ pc = "await" /\ requests # <<>> =>
              /\ SubSeq(requests, 1, Len(requests) - 1) \in Seq(StreamerFrames)
              /\ requests = Append(SubSeq(requests, 1, Len(requests) - 1), requests[Len(requests)])
              /\ Leftover = FeedPayloads(SubSeq(requests, 1, Len(requests) - 1))
<1> DEFINE q == SubSeq(requests, 1, Len(requests) - 1)
<1>1. requests \in Seq(StreamerFrames)
  BY DEF StreamerTypeOK, ChannelTypeOK
<1>2. ASSUME requests # <<>>
      PROVE  q \in Seq(StreamerFrames) /\ requests = Append(q, requests[Len(requests)])
  <2>1. PICK t \in Seq(StreamerFrames), x \in StreamerFrames : requests = Append(t, x) /\ Len(t) = Len(requests) - 1
    BY <1>1, <1>2, LastSplit
  <2>2. requests[Len(requests)] = x
    BY <2>1
  <2>3. q = t
    <3>1. Len(t) \in Nat /\ \A i \in 1 .. Len(t) : requests[i] = t[i] /\ t[i] \in StreamerFrames
      BY <2>1, AppendProperties, ElementOfSeq
    <3>2. q \in Seq(StreamerFrames) /\ Len(q) = Len(t) /\ \A i \in 1 .. Len(t) : q[i] = t[i]
      <4> DEFINE k == Len(t)
      <4>1. k \in Nat /\ q = SubSeq(requests, 1, k) /\ \A i \in 1 .. k : requests[i] = t[i] /\ requests[i] \in StreamerFrames
        BY <2>1, <3>1
      <4> HIDE DEF k, q
      <4>2. /\ q \in Seq(StreamerFrames) /\ Len(q) = (IF 1 <= k THEN k - 1 + 1 ELSE 0)
            /\ \A i \in 1 .. k - 1 + 1 : q[i] = requests[1 + i - 1]
        BY <4>1, SubSeqProperties
      <4>3. Len(q) = k /\ \A i \in 1 .. k : q[i] = requests[i]
        BY <4>1, <4>2
      <4> QED
        BY <4>1, <4>2, <4>3 DEF k
    <3> HIDE DEF q
    <3> QED
      BY <2>1, <3>1, <3>2, SeqEqual
  <2> QED
    BY <2>1, <2>2, <2>3
<1>3. Leftover \in Seq(Seq(Byte))
  BY <1>1, <1>2, PayloadsType DEF Leftover
<1> HIDE DEF q
<1>4. Len(Leftover) \in Nat
  BY <1>3, LenProperties
<1> QED
  BY <1>2, <1>3, <1>4 DEF Leftover, q

(* The position is a place in the samples, with or without a feed under way. *)
LEMMA PositionType ==
  ASSUME StreamerTypeOK, Matched, NEW s \in StreamId
  PROVE  Position[s] \in Nat /\ (Feeding => Unaccepted(s) \in 0 .. chunkLen)
<1> DEFINE r == Len(Samples[s])
           c == cur[s]
           v == Unaccepted(s)
<1>1. /\ r \in Nat \ {0} /\ c \in Int /\ chunkLen \in Nat
      /\ ~ Feeding => Position[s] = 0
      /\ Feeding => Position[s] = NextAt(c, r, v)
  BY PositionIs
<1>2. ASSUME Feeding
      PROVE  v \in 0 .. chunkLen
  <2>1. CASE pc # "await" \/ s # at \/ requests # <<>>
    BY <1>1, <2>1 DEF Unaccepted
  <2>2. CASE pc = "await" /\ s = at /\ requests = <<>>
    <3>1. answers[Len(answers)].accepted \in 0 .. chunkLen
      BY <1>2, <2>2, InTheChannel
    <3>2. v = chunkLen - answers[Len(answers)].accepted
      BY <2>2 DEF Unaccepted
    <3> QED
      BY <1>1, <3>1, <3>2
  <2> QED
    BY <2>1, <2>2
<1> HIDE DEF r, c, v
<1>3. ASSUME Feeding
      PROVE  NextAt(c, r, v) \in Nat
  <2> DEFINE x == c + (r * v) - v
  <2>1. x \in Int
    BY <1>1, <1>2, <1>3
  <2> HIDE DEF x
  <2>2. x % r \in 0 .. r - 1
    BY <1>1, <2>1, DivMod
  <2>3. x % r \in Nat
    BY <1>1, <2>2
  <2> QED
    BY <2>3 DEF NextAt, x
<1> QED
  BY <1>1, <1>2, <1>3 DEF v

(* How a run ends: with a part of what is under way. *)
LEMMA RunEnds ==
  ASSUME StreamerTypeOK, Matched, ~ Feeding', UNCHANGED deviceVars,
         \/ \E k \in 0 .. Len(Leftover) : Leftover' = SubSeq(Leftover, 1, k)
         \/ Leftover' = Append(Leftover, <<at>> \o PlaybackOf!Chunk(at, Position[at], chunkLen))
  PROVE  Plays
<1> DEFINE data == PlaybackOf!Chunk(at, Position[at], chunkLen)
           own == <<at>> \o data
           u == Append(Leftover, own)
<1>1. at \in StreamId /\ at \in Byte /\ chunkLen \in 0 .. FeedChunk /\ chunkLen \in Nat
  BY StreamerAssumption DEF StreamerTypeOK, ProgramTypeOK
<1>2. Position[at] \in Nat
  BY <1>1, PositionType
<1>3. data \in Seq(Byte)
  BY <1>1, <1>2, ChunkType
<1>4. own \in Seq(Byte)
  <2> HIDE DEF data
  <2> QED
    BY <1>1, <1>3, ConsParts
<1>5. Leftover \in Seq(Seq(Byte)) /\ Len(Leftover) \in Nat
  BY LeftoverType
<1> HIDE DEF own, data
<1>6. u \in Seq(Seq(Byte)) /\ Len(u) = Len(Leftover) + 1 /\ u = Leftover \o <<own>>
  BY <1>4, <1>5, AppendProperties, AppendIsConcat
<1>7. ASSUME NEW k \in 0 .. Len(Leftover)
      PROVE  SubSeq(u, 1, k) = SubSeq(Leftover, 1, k)
  <2>1. CASE k = 0
    BY <2>1, SubSeqEmpty
  <2>2. CASE k # 0
    <3>1. 1 \in 1 .. Len(Leftover) /\ k \in 1 .. Len(Leftover)
      BY <1>5, <2>2
    <3>2. <<own>> \in Seq(Seq(Byte))
      BY <1>4
    <3>3. SubSeq(Leftover \o <<own>>, 1, k) = SubSeq(Leftover, 1, k)
      BY <1>5, <3>1, <3>2, SubSeqOfConcat1
    <3> QED
      BY <1>6, <3>3
  <2> QED
    BY <2>1, <2>2
<1>8. SubSeq(u, 1, Len(u)) = u
  BY <1>6, SubSeqFull
<1> HIDE DEF u
<1>9. \E k \in 0 .. Len(u) : Leftover' = SubSeq(u, 1, k)
  <2>1. ASSUME NEW k \in 0 .. Len(Leftover), Leftover' = SubSeq(Leftover, 1, k)
        PROVE  \E j \in 0 .. Len(u) : Leftover' = SubSeq(u, 1, j)
    <3>1. k \in 0 .. Len(u)
      BY <1>5, <1>6
    <3> QED
      BY <1>7, <2>1, <3>1
  <2>2. ASSUME Leftover' = u
        PROVE  \E j \in 0 .. Len(u) : Leftover' = SubSeq(u, 1, j)
    <3>1. Len(u) \in 0 .. Len(u)
      BY <1>5, <1>6
    <3>2. Leftover' = SubSeq(u, 1, Len(u))
      BY <1>8, <2>2, Zenon
    <3> QED
      BY <3>1, <3>2, Zenon
  <2> QED
    BY <2>1, <2>2 DEF u, own, data
<1>10. \E s \in StreamId, n \in 0 .. FeedChunk :
         LET underWay == Append(Leftover, <<s>> \o PlaybackOf!Chunk(s, Position[s], n))
         IN \E k \in 0 .. Len(underWay) : Leftover' = SubSeq(underWay, 1, k)
  BY <1>1, <1>9, Zenon DEF u, own, data
<1>11. Feeding' = FALSE /\ Position' = [s \in StreamId |-> 0]
  BY Quiet DEF Feeding
<1>12. PlaybackOf!EndRun
  BY <1>10, <1>11, Zenon DEF PlaybackOf!EndRun, PlaybackOf!deviceVars, deviceVars, PlaybackOf!streamVars, streamVars,
     PlaybackOf!StreamId, StreamId
<1> QED
  BY <1>12 DEF Plays, PlaybackOf!Next

LEMMA EndPlays ==
  ASSUME StreamerTypeOK, Matched, OwnFeed, End
  PROVE  Plays
<1>1. /\ UNCHANGED <<deviceVars, link, requests, answers>> /\ pc' = "closed" /\ ~ Feeding'
      /\ pc \in {"hello", "ready", "await"}
  BY DEF End, channelVars, Feeding
<1>2. Leftover' = FeedPayloads(requests)
  BY <1>1, Quiet
<1>3. CASE ~ Feeding
  BY <1>1, <1>3, UnseenQuiet
<1>4. CASE Feeding /\ ~ (pc = "await" /\ requests # <<>>)
  <2>1. Leftover' = Leftover /\ Leftover \in Seq(Seq(Byte)) /\ Len(Leftover) \in 0 .. Len(Leftover)
    BY <1>2, <1>4, LeftoverType
  <2>2. Leftover' = SubSeq(Leftover, 1, Len(Leftover))
    BY <2>1, SubSeqFull
  <2> QED
    BY <1>1, <2>1, <2>2, RunEnds
<1>5. CASE Feeding /\ pc = "await" /\ requests # <<>>
  <2> DEFINE q == SubSeq(requests, 1, Len(requests) - 1)
             f == requests[Len(requests)]
  <2>1. q \in Seq(StreamerFrames) /\ requests = Append(q, f) /\ Leftover = FeedPayloads(q)
    BY <1>5, LeftoverType
  <2>2. f \in FeedFrames
    BY <1>5, InTheChannel DEF FeedsOf
  <2>3. f.payload = <<at>> \o PlaybackOf!Chunk(at, Position[at], chunkLen)
    BY <1>5 DEF OwnFeed, Feeding
  <2> HIDE DEF q, f
  <2>4. f \in StreamerFrames
    BY <2>2 DEF StreamerFrames
  <2>5. FeedPayloads(requests) = Append(Leftover, f.payload)
    BY <2>1, <2>2, <2>4, PayloadsMove
  <2> QED
    BY <1>1, <1>2, <2>3, <2>5, RunEnds
<1> QED
  BY <1>3, <1>4, <1>5

LEMMA StartPlays ==
  ASSUME StreamerTypeOK, Start
  PROVE  Plays
<1>1. /\ UNCHANGED deviceVars /\ ~ Feeding /\ ~ Feeding' /\ requests \in Seq(StreamerFrames)
      /\ requests' = Append(requests, SentFrame)
  BY DEF Start, Request, Feeding, SentFrame, StreamerTypeOK, ChannelTypeOK
<1>2. FeedPayloads(requests') = FeedPayloads(requests)
  BY <1>1, PayloadsMove, HelloFrame
<1> QED
  BY <1>1, <1>2, UnseenQuiet

(* The frames before the last one. *)
LEMMA FrontOfAppend ==
  ASSUME NEW S, NEW q \in Seq(S), NEW x \in S
  PROVE  SubSeq(Append(q, x), 1, Len(Append(q, x)) - 1) = q
<1> DEFINE r == Append(q, x)
           f == SubSeq(r, 1, Len(r) - 1)
<1>1. /\ r \in Seq(S) /\ Len(r) = Len(q) + 1 /\ Len(q) \in Nat /\ \A i \in 1 .. Len(q) : r[i] = q[i]
      /\ \A i \in 1 .. Len(q) : q[i] \in S
  BY AppendProperties, LenProperties, ElementOfSeq
<1> HIDE DEF r
<1>2. f = SubSeq(r, 1, Len(q))
  BY <1>1
<1> DEFINE n == Len(q)
           t == SubSeq(r, 1, n)
<1> HIDE DEF f
<1>3. n \in Nat /\ \A i \in 1 .. n : r[i] \in S
  BY <1>1
<1> HIDE DEF n, t
<1>4. /\ t \in Seq(S) /\ Len(t) = (IF 1 <= n THEN n - 1 + 1 ELSE 0)
      /\ \A i \in 1 .. n - 1 + 1 : t[i] = r[1 + i - 1]
  BY <1>1, <1>3, SubSeqProperties DEF t
<1>5. Len(t) = n /\ \A i \in 1 .. n : t[i] = r[i]
  BY <1>3, <1>4
<1>6. t = q
  BY <1>1, <1>4, <1>5, SeqEqual DEF n
<1> QED
  BY <1>2, <1>6 DEF t, n, f, r

(* A step that moves neither the cursors nor what is known of the feed.     *)
LEMMA PositionKept ==
  ASSUME Feeding, Feeding', cur' = cur, \A s \in StreamId : Unaccepted(s)' = Unaccepted(s)
  PROVE  Position' = Position
BY DEF Position

(* While a run is not waiting, nothing is under way. *)
LEMMA PositionReady ==
  ASSUME Feeding, Feeding', pc = "ready", pc' = "ready", cur' = cur
  PROVE  Position' = Position
<1>1. \A s \in StreamId : Unaccepted(s) = 0 /\ Unaccepted(s)' = 0
  BY DEF Unaccepted
<1> QED
  BY <1>1, PositionKept

LEMMA PassPlays ==
  ASSUME SkipStream \/ \E isDue \in BOOLEAN : BeginPass(isDue)
  PROVE  Plays
<1>1. UNCHANGED <<deviceVars, link, requests, pc, cur>> /\ pc = "ready"
  BY DEF SkipStream, BeginPass, channelVars
<1>2. Feeding' <=> Feeding
  BY <1>1 DEF Feeding
<1>3. Leftover' = Leftover
  BY <1>1 DEF Leftover
<1>4. CASE Feeding
  BY <1>1, <1>2, <1>3, <1>4, PositionReady, Unseen
<1>5. CASE ~ Feeding
  BY <1>1, <1>2, <1>3, <1>5, Quiet, Unseen
<1> QED
  BY <1>4, <1>5

(* A feed moves the cursor, and the samples it carries are not taken yet.   *)
LEMMA SendFeedPlays ==
  ASSUME StreamerTypeOK, NEW n \in 0 .. FeedChunk, SendFeed(n), pc = "ready"
  PROVE  Plays
<1> DEFINE r == Len(Samples[at])
           c == cur[at]
<1>1. /\ at \in StreamId /\ requests \in Seq(StreamerFrames) /\ n \in Nat /\ 0 \in 0 .. n
      /\ cur \in [StreamId -> Nat]
  BY StreamerAssumption DEF StreamerTypeOK, ProgramTypeOK, ChannelTypeOK
<1>2. /\ link /\ link' = link /\ UNCHANGED deviceVars /\ at' = at /\ chunkLen' = n /\ pc' = "await"
      /\ cur' = [cur EXCEPT ![at] = (@ + n) % Len(Samples[at])]
  BY DEF SendFeed, Request
<1>3. Feeding /\ Feeding'
  BY <1>2 DEF Feeding
<1>4. PICK f \in FeedsOf(at) : Sends(f)
  BY ProgramSends
<1>5. f \in StreamerFrames /\ requests' = Append(requests, f)
  BY <1>4 DEF Sends, Request
<1>6. requests' # <<>>
  BY <1>1, <1>5, AppendProperties
<1>7. Leftover' = Leftover
  <2>1. SubSeq(requests', 1, Len(requests') - 1) = requests
    BY <1>1, <1>5, FrontOfAppend
  <2>2. Leftover' = FeedPayloads(requests)
    BY <1>2, <1>3, <1>6, <2>1 DEF Leftover
  <2>3. Leftover = FeedPayloads(requests)
    BY DEF Leftover
  <2> QED
    BY <2>2, <2>3
<1>8. Position'[at] = Position[at]
  <2>1. r \in Nat \ {0} /\ c \in 0 .. r - 1 /\ Position[at] = c
    BY <1>1, <1>3, PositionIs DEF Unaccepted
  <2>2. Unaccepted(at)' = n /\ cur'[at] = (c + n) % r
    BY <1>1, <1>2, <1>6 DEF Unaccepted
  <2>3. Position'[at] = NextAt((c + n) % r, r, n)
    BY <1>1, <1>2, <1>3, <2>2 DEF Position, NextAt
  <2> HIDE DEF r, c
  <2>4. NextAt((c + n) % r, r, n) = c
    BY <1>1, <2>1, NextAtMoves
  <2> QED
    BY <2>1, <2>3, <2>4
<1>9. ASSUME NEW s \in StreamId, s # at PROVE Position'[s] = Position[s]
  <2>1. Unaccepted(s) = 0 /\ Unaccepted(s)' = 0 /\ cur'[s] = cur[s]
    BY <1>1, <1>2, <1>9 DEF Unaccepted
  <2> QED
    BY <1>2, <1>3, <2>1 DEF Position
<1>10. Position' = Position
  BY <1>8, <1>9 DEF Position
<1> QED
  BY <1>2, <1>3, <1>7, <1>10, Unseen

-------------------------------------------------------------------------------
(* A run starts at the first sample of each stream. *)
Rewound ==
  pc \in {"closed", "hello", "failed"} => cur = [s \in StreamId |-> 0] /\ chunkLen = 0

LEMMA RewoundInit == Init => Rewound
BY DEF Init, Rewound

LEMMA RewoundStep ==
  ASSUME Rewound, [Next]_vars
  PROVE  Rewound'
<1>1. CASE Start
  BY <1>1 DEF Start, Rewound
<1>2. CASE Prefill \/ Probe \/ Refill \/ SkipStream \/ \E isDue \in BOOLEAN : BeginPass(isDue)
  BY <1>2 DEF Prefill, Probe, Refill, SkipStream, BeginPass, SendFeed, Rewound
<1>3. CASE ReadAnswer
  BY <1>3 DEF ReadAnswer, Attach, Account, Forget, Rewound, streamerVars
<1>4. CASE End
  BY <1>4 DEF End, Forget, Rewound
<1>5. CASE Discard \/ Link \/ Device \/ UNCHANGED vars
  BY <1>5 DEF Discard, Link, Device, vars, streamerVars, Rewound
<1> QED
  BY <1>1, <1>2, <1>3, <1>4, <1>5 DEF Next, Run

LEMMA AttachPlays ==
  ASSUME StreamerTypeOK, Rewound, TakeAnswer, Attach, pc = "hello"
  PROVE  Plays
<1>1. /\ link /\ link' = link /\ UNCHANGED deviceVars /\ requests' = requests /\ cur' = cur /\ pc' = "ready"
      /\ cur = [s \in StreamId |-> 0]
  BY NextAnswer DEF TakeAnswer, Attach, Rewound
<1>2. ~ Feeding /\ Feeding' /\ Feeding \in BOOLEAN /\ Feeding' \in BOOLEAN
  BY <1>1 DEF Feeding
<1>3. Leftover' = Leftover
  BY <1>1, <1>2 DEF Leftover
<1>4. ASSUME NEW s \in StreamId PROVE Position'[s] = 0
  <2> DEFINE r == Len(Samples[s])
             c == 0
  <2>1. r \in Nat \ {0}
    BY SamplesSize
  <2>2. cur'[s] = c /\ Unaccepted(s)' = 0
    BY <1>1 DEF Unaccepted
  <2>3. Position'[s] = NextAt(c, r, 0)
    BY <1>2, <2>2 DEF Position, NextAt
  <2> HIDE DEF r
  <2>4. c \in 0 .. r - 1 /\ 0 \in Nat /\ 0 \in 0 .. 0
    BY <2>1
  <2> HIDE DEF c
  <2>5. NextAt(c, r, 0) = c
    BY <2>1, <2>4, NextAtMoves
  <2> QED
    BY <2>3, <2>5 DEF c
<1>5. Position' = Position
  BY <1>2, <1>4, Quiet DEF Position
<1>6. PlaybackOf!BeginRun
  <2>1. Feeding' = TRUE
    BY <1>2
  <2> QED
    BY <1>1, <1>2, <1>3, <1>5, <2>1 DEF PlaybackOf!BeginRun, PlaybackOf!deviceVars, deviceVars,
       PlaybackOf!streamVars, streamVars
<1> QED
  BY <1>6 DEF Plays, PlaybackOf!Next

(* The acknowledgement of the run's own feed: the cursor goes back by what  *)
(* was not accepted, to the sample the stream is to take next.              *)
LEMMA AccountPlays ==
  ASSUME StreamerTypeOK, Matched, TakeAnswer, pc = "await",
         Head(answers) \in Acks, Account(Head(answers))
  PROVE  Plays
<1> DEFINE a == Head(answers)
           r == Len(Samples[at])
           c == cur[at]
           n == chunkLen - a.accepted
<1>1. /\ link /\ link' = link /\ UNCHANGED deviceVars /\ requests' = requests /\ a = answers[1]
      /\ answers # <<>> /\ Len(answers) \in Nat \ {0}
  BY NextAnswer DEF TakeAnswer
<1>2. Feeding
  BY <1>1 DEF Feeding
<1>3. /\ requests = <<>> /\ Len(answers) = 1
      /\ a \in AcksOf(at) /\ a.accepted \in 0 .. chunkLen
  <2>1. 1 \in 1 .. Len(answers)
    BY <1>1
  <2>2. requests = <<>> /\ Len(answers) = 1
    BY <1>1, <1>2, <2>1, InTheChannel
  <2> QED
    BY <1>1, <1>2, <2>2, InTheChannel
<1>4. /\ at \in StreamId /\ chunkLen \in Nat /\ r \in Nat \ {0} /\ c \in 0 .. r - 1
      /\ cur \in [StreamId -> Nat] /\ n \in Nat /\ a.accepted <= chunkLen /\ a.id = at
  <2>1. at \in StreamId /\ chunkLen \in Nat /\ cur \in [StreamId -> Nat]
    BY StreamerAssumption DEF StreamerTypeOK, ProgramTypeOK
  <2>2. r \in Nat \ {0} /\ c \in 0 .. r - 1
    BY <2>1, PositionIs
  <2>3. a.accepted \in 0 .. chunkLen /\ a.id = at
    BY <1>3 DEF AcksOf
  <2> HIDE DEF a
  <2>4. n \in Nat /\ a.accepted <= chunkLen
    BY <2>1, <2>3
  <2> QED
    BY <2>1, <2>2, <2>3, <2>4
<1>5. /\ pc' = "ready"
      /\ cur' = [cur EXCEPT ![at] = (@ + r - (n % r)) % r]
  BY <1>4 DEF Account, RewindCursor
<1>6. Feeding'
  BY <1>1, <1>5 DEF Feeding
<1>7. Leftover' = Leftover
  BY <1>1, <1>3, <1>5 DEF Leftover
<1>8. ASSUME NEW s \in StreamId, s # at PROVE Position'[s] = Position[s]
  <2>1. Unaccepted(s) = 0 /\ Unaccepted(s)' = 0 /\ cur'[s] = cur[s]
    BY <1>4, <1>5, <1>8 DEF Unaccepted
  <2> QED
    BY <1>2, <1>6, <2>1 DEF Position
<1>9. Position'[at] = Position[at]
  <2>1. /\ Unaccepted(at) = n /\ cur'[at] = (c + r - (n % r)) % r
        /\ \A s \in StreamId : Unaccepted(s)' = 0
    BY <1>1, <1>3, <1>4, <1>5 DEF Unaccepted
  <2>2. Position[at] = NextAt(c, r, n)
    BY <1>2, <1>4, <2>1, PositionIs
  <2>3. Position'[at] = NextAt((c + r - (n % r)) % r, r, 0)
    BY <1>4, <1>6, <2>1 DEF Position, NextAt
  <2> HIDE DEF r, c, n, a
  <2>4. (c + r - (n % r)) % r = NextAt(c, r, n)
    <3>1. n \in 0 .. n
      BY <1>4
    <3> QED
      BY <1>4, <3>1, NextAtMoves
  <2>5. PICK x \in 0 .. r - 1 : x = NextAt(c, r, n)
    <3> DEFINE y == c + (r * n) - n
    <3>1. y \in Int
      BY <1>4
    <3> HIDE DEF y
    <3>2. y % r \in 0 .. r - 1
      BY <1>4, <3>1, DivMod
    <3> QED
      BY <3>2 DEF NextAt, y
  <2>6. NextAt(x, r, 0) = x
    <3>1. 0 \in Nat /\ 0 \in 0 .. 0
      OBVIOUS
    <3> QED
      BY <1>4, <3>1, NextAtMoves
  <2> QED
    BY <2>2, <2>3, <2>4, <2>5, <2>6
<1>10. Position' = Position
  BY <1>8, <1>9 DEF Position
<1> QED
  BY <1>1, <1>2, <1>6, <1>7, <1>10, Unseen

LEMMA SkippedPlays ==
  ASSUME StreamerTypeOK, Matched, TakeAnswer, UNCHANGED streamerVars,
         \/ pc = "await" /\ Head(answers) = HelloResp
         \/ pc \notin {"ready", "await"}
  PROVE  Plays
<1>1. /\ link' = link /\ UNCHANGED deviceVars /\ requests' = requests /\ Head(answers) = answers[1]
      /\ answers \in Seq(StreamerAnswers) /\ answers # <<>> /\ answers' = Tail(answers)
      /\ UNCHANGED <<pc, at, cur, chunkLen>> /\ link
  BY NextAnswer DEF TakeAnswer, StreamerTypeOK, ChannelTypeOK, streamerVars
<1>2. CASE pc \notin {"ready", "await"}
  BY <1>1, <1>2, UnseenQuiet DEF Feeding
<1>3. CASE pc = "await" /\ Head(answers) = HelloResp
  <2>1. Feeding /\ Feeding'
    BY <1>1, <1>3 DEF Feeding
  <2>2. Leftover' = Leftover
    BY <1>1, <2>1 DEF Leftover
  <2>3. ASSUME requests = <<>>
        PROVE  answers'[Len(answers')] = answers[Len(answers)]
    <3>1. answers[Len(answers)] \in AcksOf(at)
      BY <1>3, <2>1, <2>3, InTheChannel
    <3>2. Len(answers) # 1
      BY <1>1, <1>3, <3>1, HelloAnswer
    <3>3. Tail(answers) # <<>>
      BY <1>1, <3>2, TailLast
    <3> QED
      BY <1>1, <3>3, TailLast
  <2>4. \A s \in StreamId : Unaccepted(s)' = Unaccepted(s)
    BY <1>1, <2>3 DEF Unaccepted
  <2>5. Position' = Position
    BY <1>1, <2>1, <2>4, PositionKept
  <2> QED
    BY <1>1, <2>1, <2>2, <2>5, Unseen
<1> QED
  BY <1>2, <1>3

LEMMA ReadAnswerPlays ==
  ASSUME StreamerTypeOK, Matched, Rewound, ReadAnswer
  PROVE  Plays
<1>1. /\ TakeAnswer
      /\ Head(answers).op = "FeedAck" <=> Head(answers) \in Acks
      /\ Head(answers).op = "HelloResp" <=> Head(answers) = HelloResp
  BY NextAnswer DEF ReadAnswer
<1>2. CASE pc = "hello" /\ Attach
  BY <1>1, <1>2, AttachPlays
<1>3. CASE pc = "await" /\ Head(answers) \in Acks /\ Account(Head(answers))
  BY <1>1, <1>3, AccountPlays
<1>4. CASE pc = "hello" /\ UNCHANGED streamerVars
  BY <1>1, <1>4, SkippedPlays
<1>5. CASE pc = "await" /\ Head(answers) = HelloResp /\ UNCHANGED streamerVars
  BY <1>1, <1>5, SkippedPlays
<1> QED
  BY <1>1, <1>2, <1>3, <1>4, <1>5 DEF ReadAnswer

-------------------------------------------------------------------------------
LEMMA SameFeed ==
  ASSUME NEW s, NEW data, FeedStream(s, data)
  PROVE  /\ PlaybackOf!FeedStream(s, data)
         /\ PlaybackOf!Accepted(queue[s], data) = Accepted(queue[s], data)
BY DEF PlaybackOf!FeedStream, FeedStream, PlaybackOf!Accepted, Accepted,
   PlaybackOf!PushBack, PushBack, PlaybackOf!Free, Free

(* The oldest payload of an earlier run arrives. *)
LEMMA LeftoverPlays ==
  ASSUME StreamerTypeOK, Handle, UNCHANGED streamerVars, ~ Feeding, Head(requests) \in FeedFrames
  PROVE  Plays
<1> DEFINE f == Head(requests)
<1>1. /\ requests \in Seq(StreamerFrames) /\ requests # <<>> /\ requests' = Tail(requests)
      /\ link' = link /\ ahead' = ahead /\ CarryOut(f.op, f.payload)
  BY DEF Handle, StreamerTypeOK, ChannelTypeOK
<1>2. ~ Feeding' /\ Feeding' = Feeding
  BY <1>1 DEF Feeding, streamerVars
<1>3. FeedStream(Head(f.payload), Tail(f.payload))
  <2>1. IsFeed(f.op, f.payload)
    BY DEF FeedFrames, IsFeed
  <2>2. ~ IsReset(f.op, f.payload)
    BY DEF FeedFrames, IsReset, Feed, ResetStreams
  <2> QED
    BY <1>1, <2>1, <2>2 DEF CarryOut
<1>4. /\ FeedPayloads(requests) # <<>> /\ Head(FeedPayloads(requests)) = f.payload
      /\ Tail(FeedPayloads(requests)) = FeedPayloads(requests')
  BY <1>1, PayloadsMove, HelloFrame
<1>5. Leftover # <<>> /\ Head(Leftover) = f.payload /\ Leftover' = Tail(Leftover)
  BY <1>2, <1>4, Quiet
<1>6. Position' = Position
  BY <1>2, Quiet
<1>7. PlaybackOf!FeedStream(Head(Head(Leftover)), Tail(Head(Leftover)))
  BY <1>3, <1>5, SameFeed, Zenon
<1>8. PlaybackOf!TakeLeftover
  BY <1>1, <1>2, <1>5, <1>6, <1>7 DEF PlaybackOf!TakeLeftover
<1> QED
  BY <1>8 DEF Plays, PlaybackOf!Next

(* The device takes of the feed under way what its stream has room for.     *)
LEMMA OwnFeedPlays ==
  ASSUME StreamerTypeOK, Matched, OwnFeed, Handle, UNCHANGED streamerVars, Feeding,
         Head(requests) \in FeedFrames
  PROVE  Plays
<1> DEFINE f == Head(requests)
           data == PlaybackOf!Chunk(at, Position[at], chunkLen)
           acc == Accepted(queue[at], data)
           r == Len(Samples[at])
           c == cur[at]
<1>1. /\ requests \in Seq(StreamerFrames) /\ requests # <<>> /\ requests' = Tail(requests)
      /\ link' = link /\ ahead' = ahead /\ CarryOut(f.op, f.payload)
      /\ answers \in Seq(StreamerAnswers) /\ link
      /\ answers' = Append(answers, Answer(f.op, f.payload))
      /\ UNCHANGED <<pc, at, cur, chunkLen>>
  BY DEF Handle, StreamerTypeOK, ChannelTypeOK, Feeding, streamerVars
<1>2. Feeding' /\ Feeding' = Feeding
  BY <1>1 DEF Feeding
<1>3. /\ at \in StreamId /\ at \in Byte /\ chunkLen \in 0 .. FeedChunk /\ chunkLen \in Nat
      /\ r \in Nat \ {0} /\ c \in 0 .. r - 1
      /\ queue[at] \in Seq(Byte) /\ Len(queue[at]) <= Capacity
  <2>1. at \in StreamId /\ chunkLen \in 0 .. FeedChunk
    BY DEF StreamerTypeOK, ProgramTypeOK
  <2>2. queue[at] \in Seq(Byte) /\ Len(queue[at]) <= Capacity
    BY <2>1 DEF StreamerTypeOK, ChannelTypeOK, DeviceTypeOK, StreamsTypeOK
  <2> QED
    BY <2>1, <2>2, PositionIs, StreamerAssumption
<1>4. pc = "await" /\ Len(requests) = 1 /\ requests[1] = f
  <2>1. Len(requests) \in Nat \ {0} /\ f = requests[1]
    BY <1>1, TailLast
  <2>2. f # SentFrame
    BY DEF FeedFrames, SentFrame, Feed, HelloReq
  <2>3. 1 \in 1 .. Len(requests)
    BY <2>1
  <2>4. ~ (1 < Len(requests) \/ pc = "ready")
    BY <2>1, <2>2, <2>3, InTheChannel
  <2>5. pc = "await"
    BY <2>4 DEF Feeding
  <2> HIDE DEF f
  <2>6. Len(requests) = 1
    <3>1. PICK k \in Nat \ {0} : k = Len(requests)
      BY <2>1
    <3>2. ~ (1 < k)
      BY <2>4, <3>1
    <3>3. k = 1
      BY <3>2
    <3> QED
      BY <3>1, <3>3
  <2> QED
    BY <2>1, <2>5, <2>6
<1>5. data \in Seq(Byte) /\ Len(data) = chunkLen
  BY <1>3, PositionType, ChunkType
<1> HIDE DEF data
<1>6. f.payload = <<at>> \o data
  BY <1>1, <1>4 DEF OwnFeed, data
<1>7. /\ f.payload # <<>> /\ Head(f.payload) = at /\ Tail(f.payload) = data /\ f.op = Feed
  <2>1. f.op = Feed
    BY DEF FeedFrames
  <2> QED
    BY <1>3, <1>5, <1>6, <2>1, ConsParts
<1>8. FeedStream(at, data) /\ Answer(f.op, f.payload) = FeedAnswer(at, data)
  <2>1. IsFeed(f.op, f.payload) /\ ~ IsReset(f.op, f.payload)
    BY <1>3, <1>7 DEF IsFeed, IsReset, Feed, ResetStreams
  <2>2. Answer(f.op, f.payload) = FeedAnswer(at, data)
    <3>1. f.op # HelloReq
      BY <1>7 DEF HelloReq, Feed
    <3> DEFINE op == f.op
               load == f.payload
    <3> HIDE DEF op, load
    <3>2. /\ op # HelloReq /\ IsFeed(op, load) /\ ~ IsReset(op, load)
          /\ Head(load) = at /\ Tail(load) = data
      BY <1>7, <2>1, <3>1 DEF op, load
    <3>3. Answer(op, load) = FeedAnswer(at, data)
      BY <3>2 DEF Answer
    <3> QED
      BY <3>3 DEF op, load
  <2>3. FeedStream(at, data)
    BY <1>1, <1>7, <2>1 DEF CarryOut
  <2> QED
    BY <2>2, <2>3
<1>9. acc \in 0 .. chunkLen
  BY <1>3, <1>5, PushBackFits
<1>10. requests' = <<>> /\ Len(answers') = Len(answers) + 1 /\ answers'[Len(answers')] = FeedAnswer(at, data)
  BY <1>1, <1>4, <1>8, TailLast
<1>11. answers'[Len(answers')].accepted = acc
  BY <1>10 DEF FeedAnswer, FeedAck
<1> HIDE DEF acc, f
<1>12. Leftover' = Leftover
  <2>1. SubSeq(requests, 1, Len(requests) - 1) = <<>>
    BY <1>4, SubSeqEmpty
  <2> QED
    BY <1>1, <1>2, <1>4, <1>10, <2>1 DEF Leftover
<1>13. ASSUME NEW s \in StreamId, s # at PROVE Position'[s] = Position[s]
  <2>1. Unaccepted(s) = 0 /\ Unaccepted(s)' = 0
    BY <1>1, <1>13 DEF Unaccepted
  <2> QED
    BY <1>1, <1>2, <2>1 DEF Position
<1>14. Position'[at] = (Position[at] + acc) % r
  <2>1. Unaccepted(at) = chunkLen /\ Unaccepted(at)' = chunkLen - acc
    BY <1>1, <1>4, <1>10, <1>11 DEF Unaccepted
  <2>2. Position[at] = NextAt(c, r, chunkLen)
    BY <1>2, <1>3, <2>1, PositionIs
  <2>3. Position'[at] = NextAt(c, r, chunkLen - acc)
    BY <1>1, <1>2, <1>3, <2>1 DEF Position, NextAt
  <2> HIDE DEF r, c
  <2>4. PICK n \in Nat : n = chunkLen
    BY <1>3
  <2>5. PICK d \in 0 .. n : d = acc
    BY <1>9, <2>4
  <2>6. NextAt(c, r, n - d) = (NextAt(c, r, n) + d) % r
    BY <1>3, NextAtMoves
  <2> QED
    BY <2>2, <2>3, <2>4, <2>5, <2>6
<1>15. Position' = [Position EXCEPT ![at] = (@ + acc) % r]
  BY <1>3, <1>13, <1>14 DEF Position
<1>16. PlaybackOf!FeedStream(at, data) /\ PlaybackOf!Accepted(queue[at], data) = acc
  BY <1>8, SameFeed DEF acc
<1>17. PlaybackOf!Take(at, chunkLen)
  BY <1>1, <1>2, <1>12, <1>15, <1>16 DEF PlaybackOf!Take, data, r
<1>18. PlaybackOf!StreamId = StreamId
  BY DEF PlaybackOf!StreamId, StreamId
<1> QED
  BY <1>3, <1>17, <1>18 DEF Plays, PlaybackOf!Next

(* A HELLO_REQ does nothing to the streams. *)
LEMMA HelloPlays ==
  ASSUME StreamerTypeOK, Matched, Handle, UNCHANGED streamerVars, Head(requests) = SentFrame
  PROVE  Plays
<1> DEFINE f == Head(requests)
           p == SubSeq(requests, 1, Len(requests) - 1)
           x == requests[Len(requests)]
<1>1. /\ requests \in Seq(StreamerFrames) /\ requests # <<>> /\ requests' = Tail(requests)
      /\ link' = link /\ ahead' = ahead /\ CarryOut(f.op, f.payload)
      /\ UNCHANGED <<pc, at, cur, chunkLen>>
  BY DEF Handle, StreamerTypeOK, ChannelTypeOK, streamerVars
<1>2. UNCHANGED deviceVars
  <2>1. f.op = HelloReq /\ ~ IsFeed(f.op, f.payload) /\ ~ IsReset(f.op, f.payload)
    BY DEF SentFrame, IsFeed, IsReset, HelloReq, Feed, ResetStreams
  <2> QED
    BY <1>1, <2>1 DEF CarryOut, deviceVars
<1>3. Feeding' = Feeding
  BY <1>1 DEF Feeding
<1>4. FeedPayloads(requests') = FeedPayloads(requests)
  BY <1>1, PayloadsMove, HelloFrame
<1>5. CASE ~ Feeding
  BY <1>2, <1>3, <1>4, <1>5, UnseenQuiet
<1>6. CASE Feeding /\ pc = "ready"
  <2>1. Leftover' = Leftover
    BY <1>1, <1>4, <1>6 DEF Leftover
  <2> QED
    BY <1>1, <1>2, <1>3, <1>6, <2>1, PositionReady, Unseen
<1>7. CASE Feeding /\ pc = "await"
  <2>1. p \in Seq(StreamerFrames) /\ requests = Append(p, x) /\ Leftover = FeedPayloads(p)
    BY <1>1, <1>7, LeftoverType
  <2>2. x \in FeedsOf(at) /\ x \in StreamerFrames
    BY <1>1, <1>7, InTheChannel DEF FeedsOf, StreamerFrames
  <2> HIDE DEF p, x
  <2>3. x # SentFrame
    BY <2>2, HelloFrame
  <2>4. p # <<>> /\ Head(p) = SentFrame /\ requests' = Append(Tail(p), x)
    BY <1>1, <2>1, <2>3, HeadTailAppend
  <2>5. Tail(p) \in Seq(StreamerFrames) /\ requests' # <<>>
    BY <2>1, <2>2, <2>4, HeadTailProperties, AppendProperties
  <2>6. SubSeq(requests', 1, Len(requests') - 1) = Tail(p)
    BY <2>2, <2>4, <2>5, FrontOfAppend
  <2>7. Leftover' = FeedPayloads(Tail(p))
    BY <1>1, <1>3, <1>7, <2>5, <2>6 DEF Leftover
  <2>8. Leftover' = Leftover
    BY <2>1, <2>4, <2>7, PayloadsMove, HelloFrame
  <2>9. \A s \in StreamId : Unaccepted(s)' = Unaccepted(s)
    BY <1>1, <2>5 DEF Unaccepted
  <2>10. Position' = Position
    BY <1>1, <1>3, <1>7, <2>9, PositionKept
  <2> QED
    BY <1>2, <1>3, <2>8, <2>10, Unseen
<1> QED
  BY <1>5, <1>6, <1>7 DEF Feeding

LEMMA HandlePlays ==
  ASSUME StreamerTypeOK, Matched, OwnFeed, Handle, UNCHANGED streamerVars
  PROVE  Plays
<1>1. Head(requests) \in StreamerFrames
  <2>1. requests \in Seq(StreamerFrames) /\ requests # <<>>
    BY DEF Handle, StreamerTypeOK, ChannelTypeOK
  <2> QED
    BY <2>1, HeadTailProperties
<1>2. CASE Head(requests) = SentFrame
  BY <1>2, HelloPlays
<1>3. CASE Head(requests) \in FeedFrames /\ Feeding
  BY <1>3, OwnFeedPlays
<1>4. CASE Head(requests) \in FeedFrames /\ ~ Feeding
  BY <1>4, LeftoverPlays
<1> QED
  BY <1>1, <1>2, <1>3, <1>4 DEF StreamerFrames

LEMMA FirstOnly ==
  ASSUME NEW S, NEW q \in Seq(S), q # <<>>
  PROVE  SubSeq(q, 1, 1) = <<q[1]>>
<1> DEFINE t == SubSeq(q, 1, 1)
           u == <<q[1]>>
<1>1. Len(q) \in Nat \ {0} /\ 1 \in 1 .. Len(q)
  BY EmptySeq
<1>2. q[1] \in S
  BY <1>1, ElementOfSeq
<1>3. u \in Seq(S) /\ Len(u) = 1 /\ u[1] = q[1]
  BY <1>2
<1>4. \A i \in 1 .. 1 : q[i] \in S
  BY <1>2
<1> HIDE DEF t
<1>5. t \in Seq(S) /\ Len(t) = 1 /\ t[1] = q[1]
  BY <1>4, SubSeqProperties DEF t
<1>6. \A i \in 1 .. Len(t) : t[i] = u[i]
  BY <1>3, <1>5
<1> HIDE DEF u
<1>7. t = u
  BY <1>3, <1>5, <1>6, SeqEqual
<1> QED
  BY <1>7 DEF t, u

(* When the link goes down, at most the frame in hand is carried out.      *)
LEMMA LinkDownPlays ==
  ASSUME StreamerTypeOK, Matched, OwnFeed, LinkDown, UNCHANGED streamerVars
  PROVE  Plays
<1>1. UNCHANGED deviceVars /\ link /\ ~ Feeding' /\ requests \in Seq(StreamerFrames) /\ at \in StreamId
  BY DEF LinkDown, Feeding, StreamerTypeOK, ChannelTypeOK, ProgramTypeOK
<1>2. PICK n \in 0 .. 1 : n <= Len(requests) /\ requests' = SubSeq(requests, 1, n)
  BY DEF LinkDown
<1>3. Leftover' = FeedPayloads(requests')
  BY <1>1, Quiet
<1>4. Leftover \in Seq(Seq(Byte)) /\ Len(Leftover) \in Nat /\ 0 \in 0 .. Len(Leftover)
  BY LeftoverType
<1>5. SubSeq(Leftover, 1, 0) = <<>>
  BY SubSeqEmpty
<1>6. CASE Leftover' = <<>>
  <2>1. \E k \in 0 .. Len(Leftover) : Leftover' = SubSeq(Leftover, 1, k)
    BY <1>4, <1>5, <1>6
  <2> QED
    BY <1>1, <2>1, RunEnds
<1>7. CASE n = 0
  <2>1. requests' = <<>>
    BY <1>2, <1>7, SubSeqEmpty
  <2> QED
    BY <1>3, <1>6, <2>1, PayloadsEmpty
<1>8. ASSUME n = 1
      PROVE  /\ requests # <<>> /\ Head(requests) \in StreamerFrames /\ Head(requests) = requests[1]
             /\ requests' = <<Head(requests)>> /\ Len(requests) \in Nat \ {0}
  <2>1. requests # <<>>
    BY <1>2, <1>8, EmptySeq
  <2>2. /\ Len(requests) \in Nat \ {0} /\ Head(requests) = requests[1] /\ Head(requests) \in StreamerFrames
        /\ 1 \in 1 .. Len(requests)
    BY <1>1, <2>1, TailLast, HeadTailProperties
  <2>3. SubSeq(requests, 1, 1) = <<requests[1]>>
    BY <1>1, <2>1, FirstOnly
  <2> QED
    BY <1>2, <1>8, <2>1, <2>2, <2>3
<1>9. CASE n = 1 /\ Head(requests) = SentFrame
  <2>1. requests' = Append(<<>>, SentFrame)
    BY <1>8, <1>9
  <2>2. FeedPayloads(requests') = <<>>
    BY <2>1, PayloadsMove, PayloadsEmpty, HelloFrame, EmptySeq
  <2> QED
    BY <1>3, <1>6, <2>2
<1>10. CASE n = 1 /\ Head(requests) \in FeedFrames
  <2> DEFINE f == Head(requests)
  <2>1. f \in StreamerFrames /\ requests' = Append(<<>>, f)
    BY <1>8, <1>10
  <2>2. Leftover' = <<f.payload>>
    <3>1. FeedPayloads(Append(<<>>, f)) = Append(<<>>, f.payload)
      BY <1>10, <2>1, PayloadsMove, PayloadsEmpty, EmptySeq
    <3> QED
      BY <1>3, <2>1, <3>1
  <2>3. CASE Feeding /\ pc = "await"
    <3>1. Len(requests) = 1
      <4>1. f # SentFrame /\ requests[1] = f
        BY <1>8, <1>10 DEF FeedFrames, SentFrame, Feed, HelloReq
      <4>2. PICK k \in Nat \ {0} : k = Len(requests)
        BY <1>8, <1>10
      <4>3. ~ (1 < k)
        <5>1. 1 \in 1 .. k
          BY <4>2
        <5> QED
          BY <2>3, <4>1, <4>2, <5>1, InTheChannel
      <4>4. k = 1
        BY <4>3
      <4> QED
        BY <4>2, <4>4
    <3>2. f.payload = <<at>> \o PlaybackOf!Chunk(at, Position[at], chunkLen)
      BY <1>1, <1>8, <1>10, <2>3, <3>1 DEF OwnFeed
    <3>3. Leftover = <<>>
      <4>1. SubSeq(requests, 1, Len(requests) - 1) = <<>>
        BY <3>1, SubSeqEmpty
      <4> QED
        BY <1>8, <1>10, <2>3, <4>1, PayloadsEmpty DEF Leftover
    <3> HIDE DEF f
    <3>4. Leftover' = Append(Leftover, f.payload)
      BY <2>2, <3>3
    <3> QED
      BY <1>1, <3>2, <3>4, RunEnds
  <2>4. CASE ~ (Feeding /\ pc = "await")
    <3>1. Leftover = FeedPayloads(requests)
      BY <2>4, LeftoverType
    <3>2. Leftover # <<>> /\ Head(Leftover) = f.payload
      BY <1>1, <1>8, <1>10, <3>1, PayloadsMove, HelloFrame
    <3> HIDE DEF f
    <3>3. Len(Leftover) \in Nat \ {0} /\ Leftover[1] = f.payload
      BY <1>4, <3>2, TailLast
    <3>4. SubSeq(Leftover, 1, 1) = <<Leftover[1]>>
      BY <1>4, <3>2, FirstOnly
    <3>5. 1 \in 0 .. Len(Leftover) /\ Leftover' = SubSeq(Leftover, 1, 1)
      BY <2>2, <3>3, <3>4
    <3> QED
      BY <1>1, <3>5, RunEnds
  <2> QED
    BY <2>3, <2>4
<1>11. n = 0 \/ n = 1
  OBVIOUS
<1> QED
  BY <1>7, <1>8, <1>9, <1>10, <1>11 DEF StreamerFrames

LEMMA LinkPlays ==
  ASSUME StreamerTypeOK, Matched, OwnFeed, Link
  PROVE  Plays
<1>1. CASE LinkDown
  BY <1>1, LinkDownPlays DEF Link
<1>2. CASE pc \in {"closed", "failed"} /\ LinkUp
  BY <1>2, UnseenQuiet DEF Link, LinkUp, Feeding, streamerVars
<1> QED
  BY <1>1, <1>2 DEF Link

(* The I2C task is the same in both. *)
LEMMA DeviceRunsPlays ==
  ASSUME DeviceRuns, UNCHANGED streamerVars
  PROVE  Plays
<1>1. Feeding' = Feeding /\ Position' = Position /\ Leftover' = Leftover
  BY DEF DeviceRuns, channelVars, streamerVars, Feeding, Position, Leftover, Unaccepted
<1>2. PlaybackOf!EmbeddedAddr = EmbeddedAddr /\ PlaybackOf!StreamId = StreamId
      /\ PlaybackOf!streamVars = streamVars
  BY DEF PlaybackOf!EmbeddedAddr, EmbeddedAddr, PlaybackOf!StreamId, StreamId, PlaybackOf!streamVars, streamVars
<1>3. CASE \E s \in StreamId : I2cPops(s)
  <2>1. PICK s \in StreamId : I2cPops(s)
    BY <1>3
  <2>2. PlaybackOf!I2cPops(s)
    BY <2>1 DEF PlaybackOf!I2cPops, I2cPops, PlaybackOf!PopByte, PopByte, PlaybackOf!HostPop, HostPop
  <2> QED
    BY <1>1, <1>2, <2>2 DEF Plays, PlaybackOf!Next, PlaybackOf!I2cTask
<1>4. CASE I2cRollsBack
  <2>1. ASSUME NEW e, RollbackEffect(e)
        PROVE  PlaybackOf!RollbackEffect(e)
    BY <2>1 DEF PlaybackOf!RollbackEffect, RollbackEffect, PlaybackOf!streamVars, streamVars,
       PlaybackOf!RetreatCursor, RetreatCursor, PlaybackOf!UnpopByte, UnpopByte,
       PlaybackOf!UncountUnderrun, UncountUnderrun, PlaybackOf!PushFrontOne, PushFrontOne
  <2>2. PlaybackOf!I2cRollsBack
    BY <1>4, <2>1 DEF PlaybackOf!I2cRollsBack, I2cRollsBack
  <2> QED
    BY <1>1, <2>2 DEF Plays, PlaybackOf!Next, PlaybackOf!I2cTask
<1>5. CASE I2cDelivers
  <2>1. PlaybackOf!I2cDelivers
    BY <1>5 DEF PlaybackOf!I2cDelivers, I2cDelivers, PlaybackOf!streamVars, streamVars
  <2> QED
    BY <1>1, <2>1 DEF Plays, PlaybackOf!Next, PlaybackOf!I2cTask
<1> QED
  BY <1>3, <1>4, <1>5 DEF DeviceRuns, I2cTask

LEMMA StepPlays ==
  ASSUME StreamerTypeOK, Matched, OwnFeed, Rewound, [Next]_vars
  PROVE  Plays
<1>1. CASE Start
  BY <1>1, StartPlays
<1>2. CASE Prefill \/ Probe \/ Refill
  <2>1. PICK n \in 0 .. FeedChunk : SendFeed(n) /\ pc = "ready"
    BY <1>2, Feedings
  <2> QED
    BY <2>1, SendFeedPlays
<1>3. CASE SkipStream \/ \E isDue \in BOOLEAN : BeginPass(isDue)
  BY <1>3, PassPlays
<1>4. CASE ReadAnswer
  BY <1>4, ReadAnswerPlays
<1>5. CASE End
  BY <1>5, EndPlays
<1>6. CASE Discard
  BY <1>6, SkippedPlays DEF Discard
<1>7. CASE Link
  BY <1>7, LinkPlays
<1>8. CASE Device
  BY <1>8, HandlePlays, DeviceRunsPlays DEF Device
<1>9. CASE UNCHANGED vars
  <2>1. UNCHANGED deviceVars /\ Feeding' = Feeding /\ Position' = Position /\ Leftover' = Leftover
    BY <1>9 DEF vars, channelVars, streamerVars, Feeding, Position, Leftover, Unaccepted
  <2> QED
    BY <2>1, Unseen
<1> QED
  BY <1>1, <1>2, <1>3, <1>4, <1>5, <1>6, <1>7, <1>8, <1>9 DEF Next, Run

LEMMA InitPlays == Init => PlaybackOf!Init
<1> SUFFICES ASSUME Init PROVE PlaybackOf!Init
  OBVIOUS
<1>1. DeviceInit /\ ~ Feeding /\ requests = <<>>
  BY DEF Init, ChannelInit, Feeding
<1>2. Feeding = FALSE /\ Position = [s \in StreamId |-> 0] /\ Leftover = <<>>
  BY <1>1, Quiet, PayloadsEmpty DEF Feeding
<1>3. PlaybackOf!DeviceInit /\ PlaybackOf!StreamId = StreamId
  BY <1>1 DEF PlaybackOf!DeviceInit, DeviceInit, PlaybackOf!StreamsInit, StreamsInit,
     PlaybackOf!EmbeddedAddr, EmbeddedAddr, PlaybackOf!StreamId, StreamId
<1> QED
  BY <1>2, <1>3 DEF PlaybackOf!Init

(* However the device takes a chunk and wherever a run ends, the next byte a *)
(* stream takes is the sample after the one it took last: the program with   *)
(* the channel and the device implements Playback (main.rs 342-417).  Two    *)
(* runs at most, for the reason of AnswersMatched.                           *)
THEOREM PlaybackImplemented ==
  ASSUME MaxStarts <= 2
  PROVE  Spec => PlaysBack
<1> DEFINE Inv == StreamerTypeOK /\ Matched /\ OwnFeed /\ Rewound
<1>1. Init => Inv
  <2>1. Init => OwnFeed
    BY DEF Init, OwnFeed
  <2> QED
    BY <2>1, StreamerInitType, MatchedInit, RewoundInit
<1>2. Inv /\ [Next]_vars => Inv'
  BY StreamerTypeStep, MatchedStep, OwnFeedStep, RewoundStep
<1>3. Inv /\ [Next]_vars => Plays
  BY StepPlays
<1>4. Init => PlaybackOf!Init
  BY InitPlays
<1> QED
  BY <1>1, <1>2, <1>3, <1>4, PTL DEF Spec, PlaysBack, PlaybackOf!Spec, Plays

===============================================================================
