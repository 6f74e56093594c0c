------------------------------- MODULE UsbProofs -------------------------------
(***************************************************************************)
(* The stream channel, for every packet size, buffer size and set of       *)
(* frames: nothing runs out of its array, how stale the free space in an   *)
(* answer may be, and that the frames of the host are found in the bytes   *)
(* and answered in order.                                                  *)
(***************************************************************************)
EXTENDS UsbProperties, DeviceProofs, DataLemmas

-------------------------------------------------------------------------------
(* The answers the device gives. *)
AnswerSet ==
  {HelloResp, ResetAck}
    \cup [op : {"FeedAck"}, id : StreamId, accepted : Nat, free : 0 .. Capacity]
    \cup [op : {"Error"}, code : {"InvalidStreamId", "BadPayload", "UnknownOpcode", "BadFrame"}]

LEMMA AckFree ==
  ASSUME NEW a \in AnswerSet, NEW s, IsAckOf(a, s)
  PROVE  a.free \in 0 .. Capacity
BY DEF AnswerSet, IsAckOf, HelloResp, ResetAck

(* The bytes of a frame. *)
LEMMA EncodeType ==
  ASSUME NEW f \in Frames
  PROVE  Encode(f) \in Seq(Byte)
<1>1. /\ f.op \in Byte /\ f.payload \in Seq(Byte) /\ Len(f.payload) \in Nat
      /\ Len(f.payload) < LenBase * LenBase /\ LenBase \in Nat \ {0} /\ Byte = 0 .. LenBase - 1
  BY UsbAssumption, LenProperties
<1>2. Len(f.payload) % LenBase \in Byte /\ Len(f.payload) \div LenBase \in Byte
  BY <1>1, TwoDigits
<1>3. ASSUME NEW x \in Byte, NEW y \in Byte, NEW z \in Byte
      PROVE  <<x, y, z>> \in Seq(Byte)
  OBVIOUS
<1>4. <<f.op, Len(f.payload) % LenBase, Len(f.payload) \div LenBase>> \in Seq(Byte)
  BY <1>1, <1>2, <1>3
<1> QED
  BY <1>1, <1>4, ConcatProperties DEF Encode

LEMMA DropType ==
  ASSUME NEW q \in Seq(Byte), NEW n \in 0 .. Len(q)
  PROVE  Drop(q, n) \in Seq(Byte) /\ Len(Drop(q, n)) = Len(q) - n
<1>1. Len(q) \in Nat /\ \A i \in n + 1 .. Len(q) : q[i] \in Byte
  BY ElementOfSeq, LenProperties
<1>2. n + 1 \in Int /\ Len(q) \in Int
  BY <1>1
<1>3. /\ SubSeq(q, n + 1, Len(q)) \in Seq(Byte)
      /\ Len(SubSeq(q, n + 1, Len(q))) = IF n + 1 <= Len(q) THEN Len(q) - (n + 1) + 1 ELSE 0
  BY <1>1, <1>2, SubSeqProperties
<1> QED
  BY <1>1, <1>3 DEF Drop

LEMMA PrefixOfBytes ==
  ASSUME NEW q \in Seq(Byte), NEW n \in 1 .. Len(q)
  PROVE  SubSeq(q, 1, n) \in Seq(Byte) /\ Len(SubSeq(q, 1, n)) = n
<1>1. Len(q) \in Nat /\ n \in Int /\ \A i \in 1 .. n : q[i] \in Byte
  BY ElementOfSeq, LenProperties
<1>2. /\ SubSeq(q, 1, n) \in Seq(Byte)
      /\ Len(SubSeq(q, 1, n)) = IF 1 <= n THEN n - 1 + 1 ELSE 0
  BY <1>1, SubSeqProperties
<1> QED
  BY <1>1, <1>2

(* A header says how long its frame is. *)
LEMMA FrameLenType ==
  ASSUME accum \in Seq(Byte), HasHeader
  PROVE  FrameLen \in Nat /\ FrameLen >= HeaderBytes /\ accum[1] \in Byte
<1>1. Len(accum) \in Nat /\ Len(accum) >= 3 /\ HeaderBytes = 3 /\ Byte = 0 .. LenBase - 1 /\ LenBase \in Nat
  BY UsbAssumption, LenProperties DEF HasHeader
<1>2. accum[1] \in Byte /\ accum[2] \in Byte /\ accum[3] \in Byte
  BY <1>1, ElementOfSeq
<1>3. ASSUME NEW x \in Nat, NEW y \in Nat
      PROVE  3 + x + LenBase * y \in Nat /\ 3 + x + LenBase * y >= 3
  <2>1. LenBase * y \in Nat
    BY <1>1
  <2> QED
    BY <2>1
<1>4. accum[2] \in Nat /\ accum[3] \in Nat
  BY <1>1, <1>2
<1> QED
  BY <1>1, <1>2, <1>3, <1>4, Zenon DEF FrameLen

(* What the frame at the front of accum holds. *)
LEMMA PayloadType ==
  ASSUME accum \in Seq(Byte), HasFrame
  PROVE  SubSeq(accum, HeaderBytes + 1, FrameLen) \in Seq(Byte)
<1>1. FrameLen \in Nat /\ FrameLen <= Len(accum) /\ HeaderBytes = 3 /\ Len(accum) \in Nat
  BY FrameLenType, UsbAssumption, LenProperties DEF HasFrame
<1>2. \A i \in 4 .. FrameLen : accum[i] \in Byte
  BY <1>1, ElementOfSeq
<1> HIDE DEF FrameLen
<1>3. SubSeq(accum, 4, FrameLen) \in Seq(Byte)
  BY <1>1, <1>2, SubSeqProperties
<1> QED
  BY <1>1, <1>3

LEMMA AnswerType ==
  ASSUME DeviceTypeOK, NEW op, NEW payload \in Seq(Byte)
  PROVE  Answer(op, payload) \in AnswerSet
<1>1. CASE op = HelloReq
  <2>1. Answer(op, payload) = HelloResp
    BY <1>1 DEF Answer, IsFeed, IsReset, HelloReq, Feed, ResetStreams
  <2> QED
    BY <2>1 DEF AnswerSet
<1>2. CASE op # HelloReq /\ IsFeed(op, payload)
  <2> DEFINE s == Head(payload)
             data == Tail(payload)
  <2>1. s \in StreamId /\ data \in Seq(Byte)
    BY <1>2, FeedParts
  <2>2. queue[s] \in Seq(Byte) /\ Len(queue[s]) <= Capacity
    BY <2>1 DEF DeviceTypeOK, StreamsTypeOK
  <2> HIDE DEF s, data
  <2>3. /\ Accepted(queue[s], data) \in 0 .. Len(data)
        /\ PushBack(queue[s], data) \in Seq(Byte)
        /\ Len(PushBack(queue[s], data)) <= Capacity
    BY <2>1, <2>2, PushBackFits
  <2>4. Accepted(queue[s], data) \in Nat /\ Free(PushBack(queue[s], data)) \in 0 .. Capacity
    BY <2>1, <2>3, LenProperties, CapacityAssumption DEF Free
  <2>5. Answer(op, payload) = FeedAnswer(s, data)
    BY <1>2 DEF Answer, s, data, IsFeed, IsReset, HelloReq, Feed, ResetStreams
  <2> QED
    BY <2>1, <2>4, <2>5 DEF FeedAnswer, FeedAck, AnswerSet
<1>3. CASE op # HelloReq /\ ~IsFeed(op, payload)
  <2>1. Answer(op, payload) \in {ResetAck, Error(ErrorCode(op, payload))}
    BY <1>3 DEF Answer
  <2>2. ErrorCode(op, payload) \in {"InvalidStreamId", "BadPayload", "UnknownOpcode"}
    BY DEF ErrorCode
  <2> QED
    BY <2>1, <2>2 DEF AnswerSet, Error
<1> QED
  BY <1>1, <1>2, <1>3

-------------------------------------------------------------------------------
(* The invariant of the task: TypeOK with what it rests on.  The link going  *)
(* down empties what is in transit, and a BadFrame answer empties accum.     *)
UsbInv ==
  /\ TypeOK
  /\ DeviceTypeOK
  /\ inbound \in Seq(Byte)
  /\ (pc = "send" /\ frameLen = 0 => accum = <<>>)
  /\ (~link => outbound = <<>>)
  /\ outbound \in Seq(AnswerSet)
  /\ (pc = "send" => reply \in AnswerSet)

(* The last ack of s among the answers T, if there is one, reports a free    *)
(* space that level s bytes overrun by no more than ReadAhead.               *)
Current(T, s, level) ==
  \A i \in 1 .. Len(T) :
    IsAckOf(T[i], s) /\ (\A j \in i + 1 .. Len(T) : ~IsAckOf(T[j], s)) =>
      T[i].free + level <= Capacity + ReadAhead

AllCurrent == \A s \in StreamId : Current(InTransit, s, Level(s))

LEMMA UsbInitInv == Init => UsbInv
<1> SUFFICES ASSUME Init PROVE UsbInv
  OBVIOUS
<1>1. DeviceTypeOK /\ StreamsTypeOK
  BY DeviceInitType DEF Init, DeviceTypeOK
<1>2. Len(accum) = 0 /\ accum \in Seq(Byte) /\ inbound \in Seq(Byte) /\ outbound \in Seq(AnswerSet)
  BY EmptySeq DEF Init
<1>3. TypeOK
  BY <1>1, <1>2, UsbAssumption DEF Init, TypeOK
<1> QED
  BY <1>1, <1>2, <1>3 DEF Init, UsbInv

(* An empty accum holds no frame. *)
LEMMA NothingCollected ==
  ASSUME accum' = <<>>
  PROVE  Len(accum') = 0 /\ accum' \in Seq(Byte) /\ ~HasFrame'
<1>1. Len(accum') = 0 /\ accum' \in Seq(Byte)
  BY EmptySeq
<1> QED
  BY <1>1, UsbAssumption DEF HasFrame, HasHeader

(* Only a frame and the I2C task touch the device. *)
LEMMA UsbDeviceType ==
  ASSUME UsbInv, Next
  PROVE  DeviceTypeOK'
<1>1. ASSUME UNCHANGED deviceVars PROVE DeviceTypeOK'
  BY <1>1, StreamsUnchanged DEF UsbInv, DeviceTypeOK, deviceVars
<1>2. CASE ProcessFrame
  <2>1. SubSeq(accum, HeaderBytes + 1, FrameLen) \in Seq(Byte)
    BY <1>2, PayloadType DEF ProcessFrame, UsbInv, TypeOK
  <2> QED
    BY <1>2, <2>1, CarryOutType DEF ProcessFrame, UsbInv
<1>3. CASE I2cTaskRuns
  BY <1>3, I2cTaskType DEF I2cTaskRuns, UsbInv
<1>4. CASE Next /\ ~ProcessFrame /\ ~I2cTaskRuns
  BY <1>1, <1>4 DEF Next, Task, Host, Connect, ConnectionLost, Overflow, Collect, ReadPacket,
     Oversize, AwaitMore, Sent, Plug, Unplug, HostSends, HostReads
<1> QED
  BY <1>2, <1>3, <1>4

(* What ReadPacket takes. *)
LEMMA PacketType ==
  ASSUME UsbInv, NEW n \in 1 .. MaxPacket, ReadPacket(n)
  PROVE  /\ inbound' \in Seq(Byte)
         /\ SubSeq(inbound, 1, n) \in Seq(Byte)
         /\ Len(SubSeq(inbound, 1, n)) = n
<1>1. inbound \in Seq(Byte) /\ n <= Len(inbound) /\ Len(inbound) \in Nat /\ n \in Nat
  BY UsbAssumption, LenProperties DEF UsbInv, ReadPacket
<1>2. n \in 0 .. Len(inbound) /\ n \in 1 .. Len(inbound)
  BY <1>1
<1> QED
  BY <1>1, <1>2, DropType, PrefixOfBytes DEF ReadPacket

LEMMA BadFrameInv ==
  ASSUME UsbInv, BadFrame, DeviceTypeOK', inbound' \in Seq(Byte),
         UNCHANGED <<link, outbound>>
  PROVE  UsbInv'
<1>1. accum' = <<>> /\ pc' = "send" /\ reply' = Error("BadFrame") /\ frameLen' = 0
  BY DEF BadFrame, Send
<1>2. Len(accum') = 0 /\ accum' \in Seq(Byte)
  BY <1>1, NothingCollected
<1>3. TypeOK'
  BY <1>1, <1>2, UsbAssumption DEF TypeOK, DeviceTypeOK
<1>4. reply' \in AnswerSet
  BY <1>1 DEF AnswerSet, Error
<1> QED
  BY <1>1, <1>3, <1>4 DEF UsbInv

LEMMA TaskInv ==
  ASSUME UsbInv, Task, DeviceTypeOK'
  PROVE  UsbInv'
<1>0. StreamsTypeOK' /\ accum \in Seq(Byte) /\ Len(accum) \in Nat
  BY LenProperties DEF UsbInv, TypeOK, DeviceTypeOK
<1>1. CASE Connect
  <2>1. Len(accum') = 0 /\ accum' \in Seq(Byte) /\ ~HasFrame'
    BY <1>1, NothingCollected DEF Connect
  <2>2. TypeOK'
    BY <1>0, <1>1, <2>1, UsbAssumption DEF Connect, UsbInv, TypeOK
  <2> QED
    BY <1>1, <2>2 DEF Connect, UsbInv, hostVars
<1>2. CASE ConnectionLost
  <2>1. TypeOK'
    BY <1>0, <1>2 DEF ConnectionLost, UsbInv, TypeOK
  <2> QED
    BY <1>2, <2>1 DEF ConnectionLost, UsbInv, hostVars
<1>3. ASSUME NEW n \in 1 .. MaxPacket, Overflow(n)
      PROVE  UsbInv'
  BY <1>3, PacketType, BadFrameInv DEF Overflow, ReadPacket
<1>4. ASSUME NEW n \in 1 .. MaxPacket, Collect(n)
      PROVE  UsbInv'
  <2>1. inbound' \in Seq(Byte) /\ SubSeq(inbound, 1, n) \in Seq(Byte)
        /\ Len(SubSeq(inbound, 1, n)) = n
    BY <1>4, PacketType DEF Collect
  <2>2. accum' \in Seq(Byte) /\ Len(accum') = Len(accum) + n
    BY <1>0, <1>4, <2>1, ConcatProperties DEF Collect
  <2>3. TypeOK'
    BY <1>0, <1>4, <2>2 DEF Collect, UsbInv, TypeOK
  <2> QED
    BY <1>4, <2>1, <2>3 DEF Collect, ReadPacket, UsbInv
<1>5. CASE Oversize
  BY <1>5, BadFrameInv DEF Oversize, UsbInv, hostVars
<1>6. CASE AwaitMore
  <2>1. ~HasFrame'
    <3>1. ~HasFrame
      <4>1. HasHeader => Len(accum) < FrameLen /\ FrameLen \in Nat
        BY <1>0, <1>6, FrameLenType DEF AwaitMore
      <4> QED
        BY <1>0, <4>1 DEF HasFrame
    <3> QED
      BY <1>6, <3>1 DEF AwaitMore, HasFrame, HasHeader, FrameLen
  <2>2. TypeOK'
    BY <1>0, <1>6, <2>1 DEF AwaitMore, UsbInv, TypeOK
  <2> QED
    BY <1>6, <2>2 DEF AwaitMore, UsbInv, hostVars
<1>7. CASE ProcessFrame
  <2>1. /\ pc' = "send" /\ frameLen' = FrameLen /\ accum' = accum
        /\ reply' = Answer(accum[1], SubSeq(accum, HeaderBytes + 1, FrameLen))
        /\ FrameLen <= Len(accum) /\ FrameLen <= AccumBytes /\ HasHeader /\ HasFrame
    BY <1>7 DEF ProcessFrame, Send, HasFrame
  <2>2. FrameLen \in Nat /\ FrameLen # 0
    BY <1>0, <2>1, FrameLenType, UsbAssumption
  <2>3. reply' \in AnswerSet
    BY <1>0, <2>1, PayloadType, AnswerType DEF UsbInv
  <2>4. frameLen' \in 0 .. AccumBytes /\ frameLen' # 0
    <3> HIDE DEF FrameLen
    <3> QED
      BY <2>1, <2>2, UsbAssumption
  <2>5. TypeOK'
    BY <1>0, <2>1, <2>4 DEF UsbInv, TypeOK
  <2> QED
    BY <1>7, <2>1, <2>3, <2>4, <2>5 DEF ProcessFrame, UsbInv, hostVars
<1>8. CASE Sent
  <2>1. frameLen \in 0 .. Len(accum) /\ frameLen <= AccumBytes
    BY <1>0, <1>8, UsbAssumption DEF Sent, UsbInv, TypeOK
  <2>2. accum' \in Seq(Byte) /\ Len(accum') = Len(accum) - frameLen
    BY <1>0, <1>8, <2>1, DropType DEF Sent
  <2>3. pc' \in {"receive", "parse"} /\ (pc' = "receive" => frameLen = 0)
    BY <1>8 DEF Sent, AfterFrame
  <2>4. ASSUME frameLen = 0 PROVE ~HasFrame'
    <3>1. Len(accum) = 0
      BY <1>8, <2>4, EmptySeq DEF Sent, UsbInv
    <3>2. Len(accum') = 0
      BY <2>2, <2>4, <3>1
    <3> QED
      BY <3>2, UsbAssumption DEF HasFrame, HasHeader
  <2>5. Len(accum') <= AccumBytes
    BY <1>0, <2>1, <2>2, UsbAssumption DEF UsbInv, TypeOK
  <2>6. TypeOK'
    BY <1>0, <1>8, <2>2, <2>3, <2>4, <2>5 DEF Sent, UsbInv, TypeOK
  <2>7. outbound' \in Seq(AnswerSet)
    BY <1>8, AppendProperties DEF Sent, UsbInv
  <2> QED
    BY <1>8, <2>3, <2>6, <2>7 DEF Sent, UsbInv
<1> QED
  BY <1>1, <1>2, <1>3, <1>4, <1>5, <1>6, <1>7, <1>8 DEF Task

LEMMA UsbNextInv == UsbInv /\ [Next]_vars => UsbInv'
<1> SUFFICES ASSUME UsbInv, [Next]_vars PROVE UsbInv'
  OBVIOUS
<1>1. CASE UNCHANGED vars
  BY <1>1, StreamsUnchanged DEF vars, deviceVars, taskVars, hostVars, UsbInv, TypeOK, DeviceTypeOK,
     HasFrame, HasHeader, FrameLen
<1>2. CASE Next
  <2>0. DeviceTypeOK' /\ StreamsTypeOK'
    BY <1>2, UsbDeviceType DEF DeviceTypeOK
  <2>1. CASE Task
    BY <2>0, <2>1, TaskInv
  <2>2. ASSUME UNCHANGED taskVars PROVE TypeOK'
    BY <2>0, <2>2 DEF taskVars, UsbInv, TypeOK, HasFrame, HasHeader, FrameLen
  <2>3. CASE Plug
    BY <2>0, <2>2, <2>3 DEF Plug, UsbInv, taskVars
  <2>4. CASE Unplug
    <3>1. inbound' \in Seq(Byte) /\ outbound' \in Seq(AnswerSet)
      BY <2>4, EmptySeq DEF Unplug
    <3> QED
      BY <2>0, <2>2, <2>4, <3>1 DEF Unplug, UsbInv, taskVars
  <2>5. ASSUME NEW f \in Frames, HostSends(f)
        PROVE  UsbInv'
    <3>1. inbound' \in Seq(Byte)
      BY <2>5, EncodeType, ConcatProperties DEF HostSends, UsbInv
    <3> QED
      BY <2>0, <2>2, <2>5, <3>1 DEF HostSends, UsbInv, taskVars
  <2>6. CASE HostReads
    <3>1. outbound' \in Seq(AnswerSet) /\ outbound # <<>>
      BY <2>6, HeadTailProperties DEF HostReads, UsbInv
    <3> QED
      BY <2>0, <2>2, <2>6, <3>1 DEF HostReads, UsbInv, taskVars
  <2>7. CASE I2cTaskRuns
    BY <2>0, <2>2, <2>7 DEF I2cTaskRuns, UsbInv, taskVars, hostVars
  <2> QED
    BY <1>2, <2>1, <2>3, <2>4, <2>5, <2>6, <2>7 DEF Next, Host
<1> QED
  BY <1>1, <1>2

THEOREM UsbInvHolds == Spec => []UsbInv
BY UsbInitInv, UsbNextInv, PTL DEF Spec

(* Whenever the task waits for a packet it has taken every whole frame it    *)
(* collected, and what it collected never outgrows its array                 *)
(* (usb_stream.rs 71-121).                                                   *)
THEOREM UsbTypeOK == Spec => []TypeOK
<1>1. UsbInv => TypeOK
  BY DEF UsbInv
<1> QED
  BY <1>1, UsbInvHolds, PTL

-------------------------------------------------------------------------------
(* What keeps the answers current: a lower level, ... *)
LEMMA CurrentLower ==
  ASSUME NEW T \in Seq(AnswerSet), NEW s, NEW k \in Nat, NEW l \in Nat, l <= k,
         Current(T, s, k)
  PROVE  Current(T, s, l)
<1> SUFFICES ASSUME NEW i \in 1 .. Len(T), IsAckOf(T[i], s),
                    \A j \in i + 1 .. Len(T) : ~IsAckOf(T[j], s)
             PROVE  T[i].free + l <= Capacity + ReadAhead
  BY DEF Current
<1>1. T[i] \in AnswerSet
  BY ElementOfSeq
<1>2. T[i].free \in Nat /\ T[i].free + k <= Capacity + ReadAhead
  BY <1>1, AckFree, CapacityAssumption DEF Current
<1> DEFINE x == T[i].free
<1> HIDE DEF x
<1>3. x \in Nat /\ x + k <= Capacity + ReadAhead
  BY <1>2 DEF x
<1>4. x + l <= Capacity + ReadAhead
  BY <1>3, CapacityAssumption, ReadAheadAssumption
<1> QED
  BY <1>4 DEF x

(* ... the oldest answer taken away, ... *)
LEMMA CurrentTail ==
  ASSUME NEW T \in Seq(AnswerSet), T # <<>>, NEW s, NEW l \in Nat, Current(T, s, l)
  PROVE  Current(Tail(T), s, l)
<1>1. /\ Len(T) \in Nat
      /\ Len(Tail(T)) = Len(T) - 1
      /\ \A i \in 1 .. Len(Tail(T)) : Tail(T)[i] = T[i + 1]
  BY HeadTailProperties, LenProperties
<1> SUFFICES ASSUME NEW i \in 1 .. Len(Tail(T)), IsAckOf(Tail(T)[i], s),
                    \A j \in i + 1 .. Len(Tail(T)) : ~IsAckOf(Tail(T)[j], s)
             PROVE  Tail(T)[i].free + l <= Capacity + ReadAhead
  BY DEF Current
<1>2. i + 1 \in 1 .. Len(T) /\ Tail(T)[i] = T[i + 1]
  BY <1>1
<1>3. ASSUME NEW j \in i + 1 + 1 .. Len(T) PROVE ~IsAckOf(T[j], s)
  <2>1. j - 1 \in i + 1 .. Len(Tail(T)) /\ j - 1 \in 1 .. Len(Tail(T)) /\ (j - 1) + 1 = j
    BY <1>1
  <2>2. Tail(T)[j - 1] = T[j]
    BY <1>1, <2>1
  <2> QED
    BY <2>1, <2>2
<1> QED
  BY <1>2, <1>3 DEF Current

(* ... and a new answer, as long as it is current itself or no ack of s.     *)
LEMMA CurrentAppend ==
  ASSUME NEW T \in Seq(AnswerSet), NEW a \in AnswerSet, NEW s, NEW l \in Nat,
         IF IsAckOf(a, s) THEN a.free + l <= Capacity + ReadAhead ELSE Current(T, s, l)
  PROVE  Current(Append(T, a), s, l)
<1> DEFINE R == Append(T, a)
           n == Len(T) + 1
<1>1. /\ Len(T) \in Nat /\ Len(R) = n /\ n \in 1 .. n /\ R[n] = a
      /\ \A i \in 1 .. Len(T) : R[i] = T[i]
  BY AppendProperties, LenProperties
<1> HIDE DEF R
<1> SUFFICES ASSUME NEW i \in 1 .. Len(R), IsAckOf(R[i], s),
                    \A j \in i + 1 .. Len(R) : ~IsAckOf(R[j], s)
             PROVE  R[i].free + l <= Capacity + ReadAhead
  BY DEF Current, R
<1>2. CASE i = n
  BY <1>1, <1>2
<1>3. CASE i # n
  <2>1. i \in 1 .. Len(T) /\ n \in i + 1 .. Len(R)
    BY <1>1, <1>3
  <2>2. ~IsAckOf(a, s)
    BY <1>1, <2>1
  <2>3. ASSUME NEW j \in i + 1 .. Len(T) PROVE ~IsAckOf(T[j], s)
    <3>1. j \in i + 1 .. Len(R) /\ j \in 1 .. Len(T)
      BY <1>1, <2>1
    <3> QED
      BY <1>1, <3>1
  <2>4. Current(T, s, l) /\ R[i] = T[i] /\ IsAckOf(T[i], s)
    BY <1>1, <2>1, <2>2
  <2> QED
    BY <2>1, <2>3, <2>4 DEF Current
<1> QED
  BY <1>2, <1>3

(* The newest answer is the last ack of its stream if it is one.             *)
LEMMA CurrentNewest ==
  ASSUME NEW T \in Seq(AnswerSet), NEW a \in AnswerSet, NEW s, NEW l \in Nat,
         Current(Append(T, a), s, l), IsAckOf(a, s)
  PROVE  a.free + l <= Capacity + ReadAhead
<1> DEFINE R == Append(T, a)
           n == Len(T) + 1
<1>1. Len(T) \in Nat /\ Len(R) = n /\ n \in 1 .. n /\ R[n] = a
  BY AppendProperties, LenProperties
<1> HIDE DEF R
<1>2. n \in 1 .. Len(R) /\ n + 1 .. Len(R) = {}
  BY <1>1
<1>3. Current(R, s, l)
  BY DEF R
<1> QED
  BY <1>1, <1>2, <1>3 DEF Current

LEMMA TailOfAppend ==
  ASSUME NEW T \in Seq(AnswerSet), T # <<>>, NEW a \in AnswerSet
  PROVE  Append(T, a) # <<>> /\ Tail(Append(T, a)) = Append(Tail(T), a)
<1>1. /\ Len(T) \in Nat \ {0}
      /\ Len(Append(T, a)) = Len(T) + 1
      /\ Append(T, a) \in Seq(AnswerSet)
  BY AppendProperties, LenProperties, EmptySeq
<1>2. Append(T, a) # <<>>
  BY <1>1, EmptySeq
<1> QED
  BY <1>1, <1>2

LEMMA CurrentNone ==
  ASSUME NEW s, NEW l
  PROVE  Current(<<>>, s, l)
<1>1. 1 .. Len(<<>>) = {}
  BY EmptySeq
<1> QED
  BY <1>1 DEF Current

LEMMA InTransitType ==
  ASSUME UsbInv
  PROVE  InTransit \in Seq(AnswerSet)
BY AppendProperties DEF UsbInv, InTransit

LEMMA LevelIsNat ==
  ASSUME UsbInv, NEW s \in StreamId
  PROVE  Level(s) \in Nat
BY LevelType DEF UsbInv

(* An answer is taken into transit when its frame is carried out.            *)
LEMMA ProcessFrameCurrent ==
  ASSUME UsbInv, AllCurrent, ProcessFrame
  PROVE  AllCurrent'
<1> DEFINE op == accum[1]
           payload == SubSeq(accum, HeaderBytes + 1, FrameLen)
           answer == Answer(op, payload)
<1>1. /\ CarryOut(op, payload) /\ ahead' = ahead
      /\ InTransit = outbound /\ InTransit' = Append(InTransit, answer)
  BY DEF ProcessFrame, Send, InTransit, hostVars
<1>2. payload \in Seq(Byte) /\ DeviceTypeOK
  BY PayloadType DEF ProcessFrame, UsbInv, TypeOK
<1> HIDE DEF op, payload
<1>3. answer \in AnswerSet /\ InTransit \in Seq(AnswerSet)
  BY <1>2, AnswerType, InTransitType
<1> SUFFICES ASSUME NEW s \in StreamId PROVE Current(InTransit, s, Level(s))'
  BY DEF AllCurrent
<1> DEFINE k == Level(s)
           l == Level(s)'
           R == InTransit'
<1>4. /\ k \in Nat /\ l \in Nat
      /\ IF IsFeed(op, payload) /\ Head(payload) = s
         THEN answer.free + l <= Capacity + ReadAhead
         ELSE l <= k
  BY <1>1, <1>2, CarryOutLevel, LevelIsNat
<1>5. IsAckOf(answer, s) <=> IsFeed(op, payload) /\ Head(payload) = s
  <2>1. CASE IsFeed(op, payload)
    <3>1. answer = FeedAnswer(Head(payload), Tail(payload))
      BY <2>1 DEF Answer, IsFeed, IsReset, HelloReq, Feed, ResetStreams
    <3> QED
      BY <2>1, <3>1 DEF FeedAnswer, FeedAck, IsAckOf
  <2>2. CASE ~IsFeed(op, payload)
    <3>1. answer.op # "FeedAck"
      BY <2>2 DEF Answer, HelloResp, ResetAck, Error
    <3> QED
      BY <2>2, <3>1 DEF IsAckOf
  <2> QED
    BY <2>1, <2>2
<1>6. Current(InTransit, s, k)
  BY DEF AllCurrent
<1> HIDE DEF answer, k, l
<1>7. IF IsAckOf(answer, s) THEN answer.free + l <= Capacity + ReadAhead
      ELSE Current(InTransit, s, l)
  BY <1>3, <1>4, <1>5, <1>6, CurrentLower
<1>8. Current(R, s, l)
  BY <1>1, <1>3, <1>4, <1>7, CurrentAppend
<1> QED
  BY <1>8 DEF l, Current

(* No other action of the task, and nothing the host does, adds an ack or    *)
(* raises a level.                                                           *)
LEMMA OthersCurrent ==
  ASSUME UsbInv, AllCurrent, NEW s \in StreamId,
         Next, ~ProcessFrame, ~I2cTaskRuns
  PROVE  Current(InTransit, s, Level(s))'
<1> DEFINE k == Level(s)
           R == InTransit'
<1>1. k \in Nat /\ InTransit \in Seq(AnswerSet) /\ Current(InTransit, s, k)
  BY LevelIsNat, InTransitType DEF AllCurrent
<1>2. Level(s)' = k
  <2>1. UNCHANGED deviceVars
    BY DEF Next, Task, Host, Connect, ConnectionLost, Overflow, Collect, ReadPacket,
       Oversize, AwaitMore, Sent, Plug, Unplug, HostSends, HostReads
  <2> QED
    BY <2>1, UntouchedLevel
<1> HIDE DEF k
<1>3. SUFFICES Current(R, s, k)
  BY <1>2 DEF Current
<1>4. ASSUME R = InTransit PROVE Current(R, s, k)
  BY <1>1, <1>4
<1>5. CASE Connect
  BY <1>4, <1>5 DEF Connect, InTransit, hostVars
<1>6. CASE ConnectionLost
  <2>1. R = <<>>
    BY <1>6 DEF ConnectionLost, InTransit, hostVars, UsbInv
  <2> QED
    BY <2>1, CurrentNone
<1>7. ASSUME BadFrame, outbound' = outbound, pc # "send" PROVE Current(R, s, k)
  <2>1. R = Append(InTransit, Error("BadFrame"))
    BY <1>7 DEF BadFrame, Send, InTransit
  <2>2. Error("BadFrame") \in AnswerSet /\ ~IsAckOf(Error("BadFrame"), s)
    BY DEF Error, AnswerSet, IsAckOf
  <2> QED
    BY <1>1, <2>1, <2>2, CurrentAppend
<1>8. ASSUME NEW n \in 1 .. MaxPacket, Overflow(n) PROVE Current(R, s, k)
  BY <1>7, <1>8 DEF Overflow, ReadPacket
<1>9. ASSUME NEW n \in 1 .. MaxPacket, Collect(n) PROVE Current(R, s, k)
  BY <1>4, <1>9 DEF Collect, ReadPacket, InTransit
<1>10. CASE Oversize
  BY <1>7, <1>10 DEF Oversize, hostVars
<1>11. CASE AwaitMore
  BY <1>4, <1>11 DEF AwaitMore, InTransit, hostVars
<1>12. CASE Sent
  BY <1>4, <1>12 DEF Sent, AfterFrame, InTransit
<1>13. CASE Plug
  BY <1>4, <1>13 DEF Plug, InTransit, taskVars
<1>14. CASE Unplug
  <2>1. R = IF pc = "send" THEN Append(<<>>, reply) ELSE <<>>
    BY <1>14 DEF Unplug, InTransit, taskVars
  <2>2. CASE pc = "send"
    <3>1. reply \in AnswerSet /\ InTransit = Append(outbound, reply) /\ outbound \in Seq(AnswerSet)
      BY <2>2 DEF UsbInv, InTransit
    <3>2. IsAckOf(reply, s) => reply.free + k <= Capacity + ReadAhead
      BY <1>1, <3>1, CurrentNewest
    <3>3. <<>> \in Seq(AnswerSet)
      BY EmptySeq
    <3>4. Current(Append(<<>>, reply), s, k)
      BY <1>1, <3>1, <3>2, <3>3, CurrentNone, CurrentAppend
    <3> QED
      BY <2>1, <2>2, <3>4
  <2>3. CASE pc # "send"
    BY <2>1, <2>3, CurrentNone
  <2> QED
    BY <2>2, <2>3
<1>15. ASSUME NEW f \in Frames, HostSends(f) PROVE Current(R, s, k)
  BY <1>4, <1>15 DEF HostSends, InTransit, taskVars
<1>16. CASE HostReads
  <2>1. InTransit # <<>> /\ R = Tail(InTransit)
    BY <1>16, TailOfAppend DEF HostReads, InTransit, taskVars, UsbInv
  <2> QED
    BY <1>1, <2>1, CurrentTail
<1> QED
  BY <1>5, <1>6, <1>8, <1>9, <1>10, <1>11, <1>12, <1>13, <1>14, <1>15, <1>16 DEF Next, Task, Host

LEMMA UsbNextCurrent == UsbInv /\ AllCurrent /\ [Next]_vars => AllCurrent'
<1> SUFFICES ASSUME UsbInv, AllCurrent, [Next]_vars PROVE AllCurrent'
  OBVIOUS
<1>1. CASE UNCHANGED vars
  <2>1. InTransit' = InTransit
    BY <1>1 DEF vars, taskVars, hostVars, InTransit
  <2>2. ASSUME NEW s \in StreamId PROVE Current(InTransit, s, Level(s))'
    <3>1. Level(s)' = Level(s)
      BY <1>1, UntouchedLevel DEF vars
    <3>2. Current(InTransit, s, Level(s))
      BY DEF AllCurrent
    <3> QED
      BY <2>1, <3>1, <3>2 DEF Current
  <2> QED
    BY <2>2 DEF AllCurrent
<1>2. CASE ProcessFrame
  BY <1>2, ProcessFrameCurrent
<1>3. CASE I2cTaskRuns
  <2> SUFFICES ASSUME NEW s \in StreamId PROVE Current(InTransit, s, Level(s))'
    BY DEF AllCurrent
  <2>1. InTransit' = InTransit /\ I2cTask
    BY <1>3 DEF I2cTaskRuns, InTransit, taskVars, hostVars
  <2> DEFINE k == Level(s)
             l == Level(s)'
  <2>2. k \in Nat /\ l \in Nat /\ l <= k
    BY <2>1, LevelIsNat, I2cTaskLevel DEF UsbInv
  <2>3. InTransit \in Seq(AnswerSet) /\ Current(InTransit, s, k)
    BY InTransitType DEF AllCurrent
  <2> HIDE DEF k, l
  <2>4. Current(InTransit, s, l)
    BY <2>2, <2>3, CurrentLower
  <2> QED
    BY <2>1, <2>4 DEF l, Current
<1>4. CASE Next /\ ~ProcessFrame /\ ~I2cTaskRuns
  BY <1>4, OthersCurrent DEF AllCurrent
<1> QED
  BY <1>1, <1>2, <1>3, <1>4

LEMMA UsbInitCurrent == Init => AllCurrent
<1> SUFFICES ASSUME Init, NEW s \in StreamId PROVE Current(InTransit, s, Level(s))
  BY DEF AllCurrent
<1>1. InTransit = <<>>
  BY DEF Init, InTransit
<1> QED
  BY <1>1, CurrentNone

(* The free space an answer reports is overrun by no more than the bytes     *)
(* the I2C task may put back, for every capacity, every read-ahead and every *)
(* host (usb_stream.rs 167-178).                                             *)
THEOREM FreeStaysCurrent == Spec => []FreeIsCurrent
<1>1. Spec => []AllCurrent
  BY UsbInvHolds, UsbInitCurrent, UsbNextCurrent, PTL DEF Spec
<1>2. UsbInv /\ AllCurrent => FreeIsCurrent
  <2> SUFFICES ASSUME UsbInv, AllCurrent, NEW s \in StreamId, NEW i \in 1 .. Len(InTransit),
                      IsAckOf(InTransit[i], s),
                      \A j \in i + 1 .. Len(InTransit) : ~IsAckOf(InTransit[j], s)
               PROVE  InTransit[i].free + InFlight(s) <= Free(queue[s]) + ReadAhead
    BY DEF FreeIsCurrent
  <2>1. InTransit[i] \in AnswerSet
    BY InTransitType, ElementOfSeq
  <2> DEFINE x == InTransit[i].free
  <2>2. x \in Nat /\ x + Level(s) <= Capacity + ReadAhead
    BY <2>1, AckFree, CapacityAssumption DEF AllCurrent, Current
  <2> HIDE DEF x
  <2>3. Len(queue[s]) \in Nat /\ InFlight(s) \in Nat
    BY LevelType, InFlightBounded, CapacityAssumption, ReadAheadAssumption DEF UsbInv
  <2>4. x + (Len(queue[s]) + InFlight(s)) <= Capacity + ReadAhead
    BY <2>2 DEF Level
  <2> DEFINE y == Len(queue[s])
             z == InFlight(s)
  <2>5. y \in Nat /\ z \in Nat /\ Capacity \in Int /\ ReadAhead \in Int
        /\ x + (y + z) <= Capacity + ReadAhead
    BY <2>3, <2>4, CapacityAssumption, ReadAheadAssumption
  <2> HIDE DEF y, z
  <2>6. x + z <= (Capacity - y) + ReadAhead
    BY <2>2, <2>5
  <2> QED
    BY <2>6 DEF x, y, z, Free
<1> QED
  BY <1>1, <1>2, UsbInvHolds, PTL

-------------------------------------------------------------------------------
(* The first element of a sequence, as a sequence. *)
LEMMA FirstOnly ==
  ASSUME NEW S, NEW q \in Seq(S), q # <<>>
  PROVE  SubSeq(q, 1, 1) = <<Head(q)>>
<1>1. Len(q) \in Nat \ {0} /\ Head(q) \in S
  BY EmptySeq, HeadTailProperties
<1>2. 1 \in 1 .. Len(q) /\ 2 \in Int /\ 1 < 2
  BY <1>1
<1>3. SubSeq(q, 1, 1) = <<q[1]>> \o SubSeq(q, 1 + 1, 1)
  BY <1>2, SubSeqRecursiveFirst
<1>4. SubSeq(q, 2, 1) = <<>>
  BY SubSeqEmpty
<1>5. <<q[1]>> \in Seq(S) /\ q[1] = Head(q)
  BY <1>1
<1>6. <<q[1]>> \o <<>> = <<q[1]>>
  BY <1>5, ConcatEmptySeq
<1>7. 1 + 1 = 2
  OBVIOUS
<1> QED
  BY <1>3, <1>4, <1>5, <1>6, <1>7, Zenon

(* What is left of a sequence when its first n elements are taken away.      *)
LEMMA DropElements ==
  ASSUME NEW S, NEW q \in Seq(S), NEW n \in 0 .. Len(q)
  PROVE  /\ Drop(q, n) \in Seq(S)
         /\ Len(Drop(q, n)) = Len(q) - n
         /\ \A i \in 1 .. Len(q) - n : Drop(q, n)[i] = q[n + i]
<1>1. Len(q) \in Nat /\ n \in Nat /\ n <= Len(q) /\ \A i \in n + 1 .. Len(q) : q[i] \in S
  BY ElementOfSeq, LenProperties
<1>2. n + 1 \in Int /\ Len(q) \in Int
  BY <1>1
<1>3. /\ SubSeq(q, n + 1, Len(q)) \in Seq(S)
      /\ Len(SubSeq(q, n + 1, Len(q))) = IF n + 1 <= Len(q) THEN Len(q) - (n + 1) + 1 ELSE 0
      /\ \A i \in 1 .. Len(q) - (n + 1) + 1 : SubSeq(q, n + 1, Len(q))[i] = q[n + 1 + i - 1]
  BY <1>1, <1>2, SubSeqProperties
<1>4. PICK l : l = Len(SubSeq(q, n + 1, Len(q)))
  OBVIOUS
<1>5. ASSUME NEW i \in 1 .. Len(q) - n PROVE SubSeq(q, n + 1, Len(q))[i] = q[n + i]
  <2>1. i \in 1 .. Len(q) - (n + 1) + 1 /\ n + 1 + i - 1 = n + i
    BY <1>1
  <2> QED
    BY <1>3, <2>1
<1>6. Drop(q, n) = SubSeq(q, n + 1, Len(q))
  BY DEF Drop
<1>7. Len(SubSeq(q, n + 1, Len(q))) = Len(q) - n
  <2>1. l = IF n + 1 <= Len(q) THEN Len(q) - (n + 1) + 1 ELSE 0
    BY <1>3, <1>4, Zenon
  <2>2. l = Len(q) - n
    BY <1>1, <2>1
  <2> QED
    BY <1>4, <2>2
<1> QED
  BY <1>3, <1>5, <1>6, <1>7, Zenon

LEMMA DropNone ==
  ASSUME NEW S, NEW q \in Seq(S)
  PROVE  Drop(q, 0) = q
BY SubSeqFull DEF Drop

(* A sequence is its first n elements and the others behind them. *)
LEMMA CutAt ==
  ASSUME NEW S, NEW q \in Seq(S), NEW n \in 1 .. Len(q)
  PROVE  SubSeq(q, 1, n) \o Drop(q, n) = q
<1>1. Len(q) \in Nat /\ 1 \in 1 .. Len(q) + 1 /\ n \in 1 - 1 .. Len(q) /\ Len(q) \in n .. Len(q)
  BY LenProperties
<1>2. SubSeq(q, 1, n) \o SubSeq(q, n + 1, Len(q)) = SubSeq(q, 1, Len(q))
  BY <1>1, ConcatAdjacentSubSeq
<1> QED
  BY <1>2, SubSeqFull DEF Drop

LEMMA DropAppend ==
  ASSUME NEW S, NEW q \in Seq(S), NEW x \in S, NEW n \in 0 .. Len(q)
  PROVE  Drop(Append(q, x), n) = Append(Drop(q, n), x)
<1> DEFINE r == Append(q, x)
           a == Drop(r, n)
           d == Drop(q, n)
           b == Append(d, x)
<1>1. /\ Len(q) \in Nat /\ n \in Nat /\ n <= Len(q)
      /\ r \in Seq(S) /\ Len(r) = Len(q) + 1 /\ r[Len(q) + 1] = x
      /\ \A i \in 1 .. Len(q) : r[i] = q[i]
  BY LenProperties, AppendProperties
<1> HIDE DEF r
<1>2. n \in 0 .. Len(r)
  BY <1>1
<1>3. /\ a \in Seq(S) /\ Len(a) = Len(r) - n
      /\ \A i \in 1 .. Len(r) - n : a[i] = r[n + i]
  BY <1>1, <1>2, DropElements
<1>4. /\ d \in Seq(S) /\ Len(d) = Len(q) - n
      /\ \A i \in 1 .. Len(q) - n : d[i] = q[n + i]
  BY DropElements
<1> HIDE DEF a, d
<1>5. /\ b \in Seq(S) /\ Len(b) = Len(d) + 1 /\ b[Len(d) + 1] = x
      /\ \A i \in 1 .. Len(d) : b[i] = d[i]
  BY <1>4, AppendProperties
<1> HIDE DEF b
<1>6. Len(a) = Len(b)
  BY <1>1, <1>3, <1>4, <1>5
<1>7. ASSUME NEW i \in 1 .. Len(a) PROVE a[i] = b[i]
  <2>1. CASE i = Len(d) + 1
    <3>1. n + i = Len(q) + 1
      BY <1>1, <1>4, <2>1
    <3> QED
      BY <1>1, <1>3, <1>5, <2>1, <3>1
  <2>2. CASE i # Len(d) + 1
    <3>1. i \in 1 .. Len(d) /\ i \in 1 .. Len(q) - n /\ n + i \in 1 .. Len(q)
      BY <1>1, <1>3, <1>4, <2>2
    <3> QED
      BY <1>1, <1>3, <1>4, <1>5, <3>1
  <2> QED
    BY <2>1, <2>2
<1>8. a = b
  BY <1>3, <1>5, <1>6, <1>7, SeqEqual
<1> QED
  BY <1>8 DEF a, b, d, r

LEMMA DropOfTail ==
  ASSUME NEW S, NEW q \in Seq(S), q # <<>>, NEW n \in 1 .. Len(q)
  PROVE  Drop(Tail(q), n - 1) = Drop(q, n)
<1>0. PICK m, t : m = n - 1 /\ t = Tail(q)
  OBVIOUS
<1> DEFINE a == Drop(t, m)
           d == Drop(q, n)
<1>1. /\ Len(q) \in Nat /\ n \in Nat /\ n <= Len(q) /\ n >= 1
      /\ t \in Seq(S) /\ Len(t) = Len(q) - 1
      /\ \A i \in 1 .. Len(t) : t[i] = q[i + 1]
  BY <1>0, LenProperties, HeadTailProperties
<1>2. m \in 0 .. Len(t) /\ n \in 0 .. Len(q)
  BY <1>0, <1>1
<1>3. /\ a \in Seq(S) /\ Len(a) = Len(t) - m
      /\ \A i \in 1 .. Len(t) - m : a[i] = t[m + i]
  <2>1. t \in Seq(S) /\ m \in 0 .. Len(t)
    BY <1>1, <1>2
  <2> QED
    BY <2>1, DropElements
<1>4. /\ d \in Seq(S) /\ Len(d) = Len(q) - n
      /\ \A i \in 1 .. Len(q) - n : d[i] = q[n + i]
  BY <1>2, DropElements
<1> HIDE DEF a, d
<1>5. Len(a) = Len(d)
  BY <1>0, <1>1, <1>3, <1>4
<1>6. ASSUME NEW i \in 1 .. Len(a) PROVE a[i] = d[i]
  <2>1. i \in 1 .. Len(t) - m /\ i \in 1 .. Len(q) - n /\ m + i \in 1 .. Len(t)
        /\ m + i + 1 = n + i
    BY <1>0, <1>1, <1>3, <1>4
  <2> QED
    BY <1>1, <1>3, <1>4, <2>1
<1>7. a = d
  BY <1>3, <1>4, <1>5, <1>6, SeqEqual
<1> QED
  BY <1>0, <1>7 DEF a, d

LEMMA DropOneMore ==
  ASSUME NEW S, NEW q \in Seq(S), NEW n \in 0 .. Len(q), Drop(q, n) # <<>>
  PROVE  /\ n + 1 \in 0 .. Len(q)
         /\ Tail(Drop(q, n)) = Drop(q, n + 1)
<1>1. /\ Len(q) \in Nat /\ n \in Nat /\ n <= Len(q)
      /\ Drop(q, n) \in Seq(S) /\ Len(Drop(q, n)) = Len(q) - n
  BY DropElements, LenProperties
<1>2. Len(Drop(q, n)) \in Nat \ {0}
  BY <1>1, EmptySeq
<1>3. n + 1 \in 1 .. Len(q) /\ Len(q) \in n + 1 .. Len(q) /\ n + 1 \in 0 .. Len(q)
  BY <1>1, <1>2
<1>4. Tail(SubSeq(q, n + 1, Len(q))) = SubSeq(q, n + 1 + 1, Len(q))
  BY <1>3, HeadTailOfSubSeq
<1> QED
  BY <1>3, <1>4 DEF Drop

-------------------------------------------------------------------------------
(* The bytes of frames, one frame behind the other. *)
Encoded(frames) == [i \in 1 .. Len(frames) |-> Encode(frames[i])]
Bytes(frames) == FlattenSeq(Encoded(frames))

LEMMA EncodedType ==
  ASSUME NEW q \in Seq(Frames)
  PROVE  /\ Encoded(q) \in Seq(Seq(Byte))
         /\ Len(Encoded(q)) = Len(q)
         /\ \A i \in 1 .. Len(q) : Encoded(q)[i] = Encode(q[i])
<1>1. Len(q) \in Nat
  BY LenProperties
<1>2. \A i \in 1 .. Len(q) : Encode(q[i]) \in Seq(Byte)
  BY ElementOfSeq, EncodeType
<1> QED
  BY <1>1, <1>2 DEF Encoded

LEMMA BytesType ==
  ASSUME NEW q \in Seq(Frames)
  PROVE  Bytes(q) \in Seq(Byte)
BY EncodedType, FlattenType DEF Bytes

LEMMA BytesNone == Bytes(<<>>) = <<>>
<1>1. Encoded(<<>>) \in Seq(Seq(Byte)) /\ Len(Encoded(<<>>)) = 0
  BY EncodedType, EmptySeq
<1>2. Encoded(<<>>) = <<>>
  BY <1>1, EmptySeq
<1> QED
  BY <1>2, FlattenEmpty DEF Bytes

LEMMA BytesAppend ==
  ASSUME NEW q \in Seq(Frames), NEW f \in Frames
  PROVE  Bytes(Append(q, f)) = Bytes(q) \o Encode(f)
<1> DEFINE r == Append(q, f)
           a == Encoded(r)
           e == Encoded(q)
           b == Append(e, Encode(f))
<1>1. /\ Len(q) \in Nat /\ r \in Seq(Frames) /\ Len(r) = Len(q) + 1 /\ r[Len(q) + 1] = f
      /\ \A i \in 1 .. Len(q) : r[i] = q[i]
  BY LenProperties, AppendProperties
<1> HIDE DEF r
<1>2. /\ a \in Seq(Seq(Byte)) /\ Len(a) = Len(r)
      /\ \A i \in 1 .. Len(r) : a[i] = Encode(r[i])
  BY <1>1, EncodedType
<1>3. /\ e \in Seq(Seq(Byte)) /\ Len(e) = Len(q)
      /\ \A i \in 1 .. Len(q) : e[i] = Encode(q[i])
  BY EncodedType
<1>4. Encode(f) \in Seq(Byte)
  BY EncodeType
<1> HIDE DEF a, e
<1>5. /\ b \in Seq(Seq(Byte)) /\ Len(b) = Len(e) + 1 /\ b[Len(e) + 1] = Encode(f)
      /\ \A i \in 1 .. Len(e) : b[i] = e[i]
  BY <1>3, <1>4, AppendProperties
<1> HIDE DEF b
<1>6. Len(a) = Len(b)
  BY <1>1, <1>2, <1>3, <1>5
<1>7. ASSUME NEW i \in 1 .. Len(a) PROVE a[i] = b[i]
  <2>1. CASE i = Len(q) + 1
    BY <1>1, <1>2, <1>3, <1>5, <2>1
  <2>2. CASE i # Len(q) + 1
    <3>1. i \in 1 .. Len(q) /\ i \in 1 .. Len(r)
      BY <1>1, <1>2, <2>2
    <3> QED
      BY <1>1, <1>2, <1>3, <1>5, <3>1
  <2> QED
    BY <2>1, <2>2
<1>8. a = b
  BY <1>2, <1>5, <1>6, <1>7, SeqEqual
<1>9. FlattenSeq(b) = FlattenSeq(e) \o Encode(f)
  BY <1>3, <1>4, FlattenAppend DEF b
<1> QED
  BY <1>8, <1>9 DEF Bytes, a, e, r

LEMMA BytesFirst ==
  ASSUME NEW q \in Seq(Frames), q # <<>>
  PROVE  /\ Head(q) \in Frames /\ Tail(q) \in Seq(Frames)
         /\ Bytes(q) = Encode(Head(q)) \o Bytes(Tail(q))
<1> DEFINE t == Tail(q)
           e == Encoded(q)
           a == Encoded(t)
           b == Tail(e)
<1>1. /\ Head(q) \in Frames /\ t \in Seq(Frames) /\ Len(t) = Len(q) - 1
      /\ \A i \in 1 .. Len(t) : t[i] = q[i + 1]
      /\ Len(q) \in Nat \ {0} /\ Head(q) = q[1]
  BY HeadTailProperties, EmptySeq
<1> HIDE DEF t
<1>2. /\ e \in Seq(Seq(Byte)) /\ Len(e) = Len(q)
      /\ \A i \in 1 .. Len(q) : e[i] = Encode(q[i])
  BY EncodedType
<1>3. /\ a \in Seq(Seq(Byte)) /\ Len(a) = Len(t)
      /\ \A i \in 1 .. Len(t) : a[i] = Encode(t[i])
  BY <1>1, EncodedType
<1> HIDE DEF a, e
<1>4. e # <<>>
  BY <1>1, <1>2, EmptySeq
<1>5. Head(e) = Encode(Head(q))
  BY <1>1, <1>2, <1>4
<1>6. /\ b \in Seq(Seq(Byte)) /\ Len(b) = Len(e) - 1
      /\ \A i \in 1 .. Len(b) : b[i] = e[i + 1]
  BY <1>2, <1>4, HeadTailProperties
<1> HIDE DEF b
<1>7. Len(a) = Len(b)
  BY <1>1, <1>2, <1>3, <1>6
<1>8. ASSUME NEW i \in 1 .. Len(a) PROVE a[i] = b[i]
  <2>1. i \in 1 .. Len(t) /\ i \in 1 .. Len(b) /\ i + 1 \in 1 .. Len(q)
    BY <1>1, <1>2, <1>3, <1>7
  <2> QED
    BY <1>1, <1>2, <1>3, <1>6, <2>1
<1>9. a = b
  BY <1>3, <1>6, <1>7, <1>8, SeqEqual
<1>10. FlattenSeq(e) = Head(e) \o FlattenSeq(b)
  BY <1>2, <1>4, FlattenFirst DEF b
<1> QED
  BY <1>1, <1>5, <1>9, <1>10 DEF Bytes, a, e, t

LEMMA ConcatOfBytes == \A x, y, z \in Seq(Byte) : (x \o y) \o z = x \o (y \o z)
BY ConcatAssociative

(* What the bytes of a frame say of it. *)
LEMMA EncodeParts ==
  ASSUME NEW f \in Frames
  PROVE  LET e == Encode(f)
         IN /\ e \in Seq(Byte)
            /\ Len(e) = HeaderBytes + Len(f.payload)
            /\ e[1] = f.op
            /\ HeaderBytes + e[2] + LenBase * e[3] = Len(e)
            /\ \A i \in 1 .. Len(f.payload) : e[HeaderBytes + i] = f.payload[i]
<1>0. PICK n : n = Len(f.payload)
  OBVIOUS
<1> DEFINE h == <<f.op, n % LenBase, n \div LenBase>>
           e == Encode(f)
<1>1. /\ f.op \in Byte /\ f.payload \in Seq(Byte) /\ n \in Nat /\ n < LenBase * LenBase
      /\ LenBase \in Nat \ {0} /\ Byte = 0 .. LenBase - 1 /\ HeaderBytes = 3
  BY <1>0, UsbAssumption, LenProperties
<1>2. /\ n % LenBase \in Byte /\ n \div LenBase \in Byte
      /\ n = (LenBase * (n \div LenBase)) + (n % LenBase)
  <2>1. n % LenBase \in Byte /\ n \div LenBase \in Byte
    BY <1>1, TwoDigits
  <2>2. n \in Int /\ LenBase \in Nat \ {0}
    BY <1>1
  <2>3. n = (LenBase * (n \div LenBase)) + (n % LenBase)
    BY <2>2, DivMod
  <2> QED
    BY <2>1, <2>3
<1>3. \A x, y, z \in Byte : /\ <<x, y, z>> \in Seq(Byte) /\ Len(<<x, y, z>>) = 3
                            /\ <<x, y, z>>[1] = x /\ <<x, y, z>>[2] = y /\ <<x, y, z>>[3] = z
  OBVIOUS
<1>4. /\ h \in Seq(Byte) /\ Len(h) = 3
      /\ h[1] = f.op /\ h[2] = n % LenBase /\ h[3] = n \div LenBase
  BY <1>1, <1>2, <1>3
<1> HIDE DEF h
<1>5. e = h \o f.payload
  BY <1>0 DEF Encode, h
<1>10. PICK p : p = f.payload
  OBVIOUS
<1>11. p \in Seq(Byte) /\ Len(p) = n
  BY <1>0, <1>1, <1>10
<1> HIDE DEF e
<1>6. /\ e \in Seq(Byte) /\ Len(e) = 3 + n
      /\ \A i \in 1 .. 3 + n : e[i] = IF i <= 3 THEN h[i] ELSE p[i - 3]
  <2>1. /\ h \o p \in Seq(Byte) /\ Len(h \o p) = Len(h) + Len(p)
        /\ \A i \in 1 .. Len(h) + Len(p) : (h \o p)[i] = IF i <= Len(h) THEN h[i] ELSE p[i - Len(h)]
    BY <1>4, <1>11, ConcatProperties
  <2> QED
    BY <1>4, <1>5, <1>10, <1>11, <2>1
<1>7. e[1] = f.op /\ e[2] = n % LenBase /\ e[3] = n \div LenBase
  BY <1>1, <1>4, <1>6
<1>8. \A i \in 1 .. n : e[3 + i] = p[i]
  <2> TAKE i \in 1 .. n
  <2>1. 3 + i \in 1 .. 3 + n /\ ~(3 + i <= 3) /\ 3 + i - 3 = i
    BY <1>1
  <2> QED
    BY <1>6, <2>1
<1>9. 3 + e[2] + LenBase * e[3] = 3 + n
  <2> DEFINE r == n % LenBase
             c == LenBase * (n \div LenBase)
  <2>1. r \in Int /\ c \in Int /\ n = c + r
    <3>1. n \div LenBase \in Int /\ n % LenBase \in Int
      BY <1>1, <1>2
    <3>2. LenBase * (n \div LenBase) \in Int
      BY <1>1, <3>1
    <3> QED
      BY <1>2, <3>1, <3>2
  <2> HIDE DEF r, c
  <2>2. 3 + r + c = 3 + n
    BY <1>1, <2>1
  <2> QED
    BY <1>7, <2>2 DEF r, c
<1> QED
  BY <1>1, <1>6, <1>7, <1>8, <1>9, <1>0, <1>10 DEF e

-------------------------------------------------------------------------------
(* The bytes c, collected, and b, not read yet, are those of the frames U: a *)
(* whole header in c is that of the first frame, ...                         *)
LEMMA FirstHeader ==
  ASSUME NEW U \in Seq(Frames), NEW c \in Seq(Byte), NEW b \in Seq(Byte),
         c \o b = Bytes(U), c \o b # <<>>
  PROVE  /\ U # <<>> /\ Head(U) \in Frames
         /\ Len(c) >= HeaderBytes =>
              /\ c[1] = Head(U).op
              /\ HeaderBytes + c[2] + LenBase * c[3] = Len(Encode(Head(U)))
<1>1. U # <<>>
  BY BytesNone
<1> DEFINE f == Head(U)
           e == Encode(f)
           r == Bytes(Tail(U))
<1>2. f \in Frames /\ r \in Seq(Byte) /\ c \o b = e \o r
  BY <1>1, BytesFirst, BytesType
<1> HIDE DEF r, f
<1>3. /\ e \in Seq(Byte) /\ Len(e) = HeaderBytes + Len(f.payload) /\ e[1] = f.op
      /\ HeaderBytes + e[2] + LenBase * e[3] = Len(e)
      /\ Len(f.payload) \in Nat /\ HeaderBytes = 3
  BY <1>2, EncodeParts, UsbAssumption, LenProperties
<1> HIDE DEF e
<1>4. /\ \A i \in 1 .. Len(c) + Len(b) : (c \o b)[i] = IF i <= Len(c) THEN c[i] ELSE b[i - Len(c)]
      /\ Len(c) \in Nat /\ Len(b) \in Nat
  BY ConcatProperties, LenProperties
<1>5. /\ \A i \in 1 .. Len(e) + Len(r) : (e \o r)[i] = IF i <= Len(e) THEN e[i] ELSE r[i - Len(e)]
      /\ Len(e) \in Nat /\ Len(r) \in Nat
  BY <1>2, <1>3, ConcatProperties, LenProperties
<1>6. ASSUME Len(c) >= 3, NEW i \in 1 .. 3 PROVE c[i] = e[i]
  <2>1. i \in 1 .. Len(c) + Len(b) /\ i <= Len(c)
    BY <1>4, <1>6
  <2>2. i \in 1 .. Len(e) + Len(r) /\ i <= Len(e)
    BY <1>3, <1>5
  <2> QED
    BY <1>2, <1>4, <1>5, <2>1, <2>2
<1>7. ASSUME Len(c) >= 3 PROVE c[1] = e[1] /\ c[2] = e[2] /\ c[3] = e[3]
  BY <1>6, <1>7
<1>8. ASSUME Len(c) >= 3
      PROVE  c[1] = f.op /\ HeaderBytes + c[2] + LenBase * c[3] = Len(e)
  BY <1>3, <1>7, <1>8, Zenon
<1> QED
  BY <1>1, <1>2, <1>3, <1>8 DEF e, f

(* ... and when c holds the whole frame, its payload is there and the bytes  *)
(* behind it are those of the other frames.                                  *)
LEMMA FirstTaken ==
  ASSUME NEW U \in Seq(Frames), U # <<>>, NEW c \in Seq(Byte), NEW b \in Seq(Byte),
         c \o b = Bytes(U), NEW n \in 1 .. Len(c), n = Len(Encode(Head(U)))
  PROVE  /\ SubSeq(c, HeaderBytes + 1, n) = Head(U).payload
         /\ Drop(c, n) \o b = Bytes(Tail(U))
<1> DEFINE f == Head(U)
           e == Encode(f)
           r == Bytes(Tail(U))
           d == Drop(c, n)
           g == SubSeq(c, 1, n)
<1>1. f \in Frames /\ r \in Seq(Byte) /\ c \o b = e \o r
  BY BytesFirst, BytesType
<1>2. n = Len(e)
  OBVIOUS
<1> HIDE DEF r, f
<1>3. /\ e \in Seq(Byte) /\ Len(e) = 3 + Len(f.payload)
      /\ \A i \in 1 .. Len(f.payload) : e[3 + i] = f.payload[i]
      /\ f.payload \in Seq(Byte) /\ Len(f.payload) \in Nat /\ HeaderBytes = 3
  BY <1>1, EncodeParts, UsbAssumption, LenProperties
<1> HIDE DEF e
<1>4. /\ \A i \in 1 .. Len(c) + Len(b) : (c \o b)[i] = IF i <= Len(c) THEN c[i] ELSE b[i - Len(c)]
      /\ Len(c) \in Nat /\ Len(b) \in Nat
  BY ConcatProperties, LenProperties
<1>5. /\ \A i \in 1 .. Len(e) + Len(r) : (e \o r)[i] = IF i <= Len(e) THEN e[i] ELSE r[i - Len(e)]
      /\ Len(e) \in Nat /\ Len(r) \in Nat
  BY <1>1, <1>3, ConcatProperties, LenProperties
<1>6. ASSUME NEW i \in 1 .. n PROVE c[i] = e[i]
  <2>1. i \in 1 .. Len(c) + Len(b) /\ i <= Len(c)
    BY <1>4
  <2>2. i \in 1 .. Len(e) + Len(r) /\ i <= Len(e)
    BY <1>2, <1>5
  <2> QED
    BY <1>1, <1>4, <1>5, <2>1, <2>2
<1>7. SubSeq(c, HeaderBytes + 1, n) = f.payload
  <2> DEFINE s == SubSeq(c, 4, n)
  <2>1. PICK p : p = f.payload
    OBVIOUS
  <2>2. p \in Seq(Byte) /\ n = 3 + Len(p) /\ Len(p) \in Nat /\ \A i \in 1 .. Len(p) : e[3 + i] = p[i]
    BY <1>2, <1>3, <2>1
  <2>3. n \in Int /\ 4 \in Int /\ \A i \in 4 .. n : c[i] \in Byte
    BY <1>4, ElementOfSeq
  <2>4. /\ s \in Seq(Byte) /\ Len(s) = IF 4 <= n THEN n - 4 + 1 ELSE 0
        /\ \A i \in 1 .. n - 4 + 1 : s[i] = c[4 + i - 1]
    BY <2>3, SubSeqProperties
  <2> HIDE DEF s
  <2>5. Len(s) = Len(p)
    BY <2>2, <2>4
  <2>6. ASSUME NEW i \in 1 .. Len(s) PROVE s[i] = p[i]
    <3>1. i \in 1 .. n - 4 + 1 /\ 4 + i - 1 = 3 + i /\ i \in 1 .. Len(p) /\ 3 + i \in 1 .. n
      BY <2>2, <2>5
    <3>2. c[3 + i] = e[3 + i]
      BY <1>6, <3>1
    <3> QED
      BY <2>2, <2>4, <3>1, <3>2
  <2>7. s = p
    BY <2>2, <2>4, <2>5, <2>6, SeqEqual
  <2>8. HeaderBytes + 1 = 4
    BY <1>3
  <2> QED
    BY <2>1, <2>7, <2>8, Zenon DEF s
<1>8. g \in Seq(Byte) /\ Len(g) = n /\ \A i \in 1 .. n : g[i] = c[i]
  <2>1. n \in Int /\ 1 \in Int /\ \A i \in 1 .. n : c[i] \in Byte
    BY <1>4, ElementOfSeq
  <2>2. /\ SubSeq(c, 1, n) \in Seq(Byte)
        /\ Len(SubSeq(c, 1, n)) = IF 1 <= n THEN n - 1 + 1 ELSE 0
        /\ \A i \in 1 .. n - 1 + 1 : SubSeq(c, 1, n)[i] = c[1 + i - 1]
    BY <2>1, SubSeqProperties
  <2> HIDE DEF g
  <2>3. n - 1 + 1 = n /\ \A i \in 1 .. n : 1 + i - 1 = i
    OBVIOUS
  <2> QED
    BY <2>2, <2>3 DEF g
<1>9. g \o d = c
  BY CutAt
<1>10. d \in Seq(Byte)
  BY DropElements
<1> HIDE DEF g, d
<1>11. g = e
  BY <1>2, <1>3, <1>6, <1>8, SeqEqual
<1>12. (e \o d) \o b = e \o (d \o b) /\ d \o b \in Seq(Byte)
  BY <1>3, <1>10, ConcatOfBytes, ConcatProperties
<1>13. e \o (d \o b) = e \o r
  BY <1>1, <1>9, <1>11, <1>12
<1>14. d \o b = r
  <2>1. \A S : \A s, t, v \in Seq(S) : s \o t = s \o v => t = v
    BY ConcatSimplifications
  <2> QED
    BY <1>1, <1>3, <1>12, <1>13, <2>1
<1> QED
  BY <1>7, <1>14 DEF d, f, r

-------------------------------------------------------------------------------
(* What the framing rests on: an answer in transit is that of a frame the    *)
(* host still counts, and a link that is down holds nothing.                 *)
Framed ==
  /\ link \in BOOLEAN /\ rejected \in BOOLEAN
  /\ outstanding \in Seq(Frames)
  /\ (~link => inbound = <<>> /\ outstanding = <<>> /\ ~rejected)
  /\ (Intact => Len(InTransit) <= Len(outstanding))
  /\ (Intact => Unparsed = Bytes(Unhandled))

LEMMA UsbInitFramed == Init => Framed
<1> SUFFICES ASSUME Init PROVE Framed
  OBVIOUS
<1>1. outstanding \in Seq(Frames)
  BY EmptySeq DEF Init
<1> QED
  BY <1>1 DEF Init, Framed, Intact

LEMMA UnhandledType ==
  ASSUME UsbInv, Framed, Intact
  PROVE  /\ Len(InTransit) \in 0 .. Len(outstanding)
         /\ Unhandled \in Seq(Frames)
<1>1. Len(InTransit) \in 0 .. Len(outstanding)
  BY InTransitType, LenProperties DEF Framed
<1> QED
  BY <1>1, DropElements DEF Unhandled, Framed

(* What changes nothing of the host's side, the bytes to interpret and the   *)
(* answers in transit. *)
LEMMA SameFramed ==
  ASSUME UsbInv, Framed, UNCHANGED <<link, outstanding, rejected>>,
         ~link => inbound' = <<>>,
         Intact => Unparsed' = Unparsed /\ Len(InTransit)' = Len(InTransit)
  PROVE  Framed'
<1>1. Intact' <=> Intact
  BY DEF Intact
<1>2. ASSUME Intact PROVE Unhandled' = Unhandled
  BY <1>2 DEF Unhandled, Drop
<1> QED
  BY <1>1, <1>2, Zenon DEF Framed

LEMMA BadFrameFramed ==
  ASSUME UsbInv, Framed, BadFrame, UNCHANGED <<link, outstanding>>,
         ~link => inbound' = <<>>
  PROVE  Framed'
BY DEF BadFrame, Framed, Intact

(* A frame with its header in front is the oldest one without an answer.     *)
LEMMA OldestInFront ==
  ASSUME UsbInv, Framed, Intact, pc \in {"receive", "parse"}, accum \o inbound # <<>>
  PROVE  /\ Unhandled # <<>> /\ Head(Unhandled) \in Frames
         /\ HasHeader => accum[1] = Head(Unhandled).op /\ FrameLen = Len(Encode(Head(Unhandled)))
<1>1. Unhandled \in Seq(Frames) /\ accum \in Seq(Byte) /\ inbound \in Seq(Byte)
  BY UnhandledType DEF UsbInv, TypeOK
<1>2. accum \o inbound = Bytes(Unhandled)
  BY DEF Framed, Unparsed
<1> QED
  BY <1>1, <1>2, FirstHeader DEF HasHeader, FrameLen

(* The frame ProcessFrame takes is that frame. *)
LEMMA OldestTaken ==
  ASSUME UsbInv, Framed, Intact, pc = "parse", HasFrame
  PROVE  /\ Unhandled # <<>> /\ Head(Unhandled) \in Frames
         /\ accum[1] = Head(Unhandled).op
         /\ SubSeq(accum, HeaderBytes + 1, FrameLen) = Head(Unhandled).payload
         /\ Drop(accum, FrameLen) \o inbound = Bytes(Tail(Unhandled))
<1>1. Unhandled \in Seq(Frames) /\ accum \in Seq(Byte) /\ inbound \in Seq(Byte)
  BY UnhandledType DEF UsbInv, TypeOK
<1>2. accum \o inbound = Bytes(Unhandled)
  BY DEF Framed, Unparsed
<1>3. HasHeader /\ FrameLen \in 1 .. Len(accum)
  <2>1. HasHeader /\ FrameLen \in Nat /\ FrameLen >= HeaderBytes /\ HeaderBytes = 3
        /\ Len(accum) >= FrameLen /\ Len(accum) \in Nat
    BY <1>1, FrameLenType, UsbAssumption, LenProperties DEF HasFrame
  <2> HIDE DEF FrameLen
  <2> QED
    BY <2>1
<1>4. accum # <<>>
  BY <1>3, EmptySeq, UsbAssumption DEF HasHeader
<1>5. accum \o inbound # <<>>
  BY <1>1, <1>4, ConcatEqualIffEmpty
<1>6. /\ Unhandled # <<>> /\ Head(Unhandled) \in Frames
      /\ accum[1] = Head(Unhandled).op /\ FrameLen = Len(Encode(Head(Unhandled)))
  BY <1>3, <1>5, OldestInFront
<1> HIDE DEF FrameLen, Unhandled
<1>7. /\ SubSeq(accum, HeaderBytes + 1, FrameLen) = Head(Unhandled).payload
      /\ Drop(accum, FrameLen) \o inbound = Bytes(Tail(Unhandled))
  BY <1>1, <1>2, <1>3, <1>6, FirstTaken
<1> QED
  BY <1>6, <1>7

(* What a frame, an answer read and a frame sent do to what is in transit.   *)
LEMMA FrameHandled ==
  ASSUME UsbInv, Framed, Intact, ProcessFrame
  PROVE  /\ Unhandled # <<>>
         /\ Unhandled' = Tail(Unhandled)
         /\ InTransit' = Append(InTransit, reply')
         /\ Len(InTransit') <= Len(outstanding')
<1>0. Len(InTransit) \in Nat
  BY InTransitType, LenProperties
<1>1. /\ pc = "parse" /\ pc' = "send" /\ HasFrame
      /\ UNCHANGED <<outbound, outstanding>>
  BY DEF ProcessFrame, Send, hostVars
<1>2. Unhandled # <<>>
  BY <1>1, OldestTaken
<1>3. InTransit = outbound /\ InTransit' = Append(outbound, reply')
  BY <1>1 DEF InTransit
<1>4. Len(InTransit') = Len(InTransit) + 1
  <2>1. reply' \in AnswerSet
    BY PayloadType, AnswerType DEF ProcessFrame, Send, UsbInv, TypeOK
  <2>2. outbound \in Seq(AnswerSet)
    BY DEF UsbInv
  <2> QED
    BY <1>3, <2>1, <2>2, AppendProperties
<1>5. /\ outstanding \in Seq(Frames) /\ Len(InTransit) \in 0 .. Len(outstanding)
      /\ Drop(outstanding, Len(InTransit)) # <<>>
  BY <1>2, UnhandledType DEF Framed, Unhandled
<1>6. PICK n : n = Len(InTransit)
  OBVIOUS
<1>7. n + 1 \in 0 .. Len(outstanding) /\ Tail(Drop(outstanding, n)) = Drop(outstanding, n + 1)
  BY <1>5, <1>6, DropOneMore
<1>8. Unhandled' = Tail(Unhandled)
  BY <1>1, <1>4, <1>6, <1>7 DEF Unhandled, Drop
<1>9. Len(InTransit') <= Len(outstanding')
  BY <1>1, <1>4, <1>5, <1>6, <1>7, LenProperties
<1> QED
  BY <1>2, <1>3, <1>8, <1>9

LEMMA FrameSent ==
  ASSUME UsbInv, Framed, NEW f \in Frames, HostSends(f)
  PROVE  /\ Unhandled \in Seq(Frames) /\ Unhandled' = Append(Unhandled, f)
         /\ outstanding' \in Seq(Frames)
         /\ InTransit' = InTransit
         /\ Len(InTransit') <= Len(outstanding')
<1>0. outstanding \in Seq(Frames) /\ Len(outstanding) \in Nat
  BY LenProperties DEF Framed
<1>1. /\ Intact /\ outstanding' = Append(outstanding, f)
      /\ UNCHANGED <<pc, reply, outbound>>
  BY DEF HostSends, taskVars, Intact
<1>2. InTransit' = InTransit /\ Len(InTransit) \in 0 .. Len(outstanding) /\ Unhandled \in Seq(Frames)
  BY <1>1, UnhandledType DEF InTransit
<1>3. PICK n : n = Len(InTransit)
  OBVIOUS
<1>4. Unhandled' = Append(Unhandled, f)
  BY <1>0, <1>1, <1>2, <1>3, DropAppend DEF Unhandled
<1>5. Len(outstanding') = Len(outstanding) + 1 /\ outstanding' \in Seq(Frames)
  BY <1>0, <1>1, AppendProperties
<1>6. Len(InTransit') <= Len(outstanding')
  BY <1>0, <1>2, <1>5
<1> QED
  BY <1>2, <1>4, <1>5, <1>6

LEMMA AnswerRead ==
  ASSUME UsbInv, Framed, Intact, HostReads
  PROVE  /\ InTransit # <<>>
         /\ InTransit' = Tail(InTransit)
         /\ Unhandled' = Unhandled
         /\ Len(InTransit') <= Len(outstanding')
<1>0. /\ outstanding \in Seq(Frames) /\ Len(outstanding) \in Nat
      /\ InTransit \in Seq(AnswerSet) /\ Len(InTransit) \in Nat
  BY InTransitType, LenProperties DEF Framed
<1>1. InTransit # <<>> /\ InTransit' = Tail(InTransit)
  BY TailOfAppend DEF HostReads, InTransit, taskVars, UsbInv
<1>2. Len(InTransit') = Len(InTransit) - 1 /\ Len(InTransit) \in Nat \ {0}
  BY <1>0, <1>1, HeadTailProperties, EmptySeq
<1>3. Len(InTransit) \in 1 .. Len(outstanding) /\ outstanding # <<>>
  BY <1>0, <1>2, EmptySeq DEF Framed
<1>4. outstanding' = Tail(outstanding) /\ Len(outstanding') = Len(outstanding) - 1
  BY <1>0, <1>3, HeadTailProperties DEF HostReads
<1>5. PICK n : n = Len(InTransit)
  OBVIOUS
<1>6. Drop(Tail(outstanding), n - 1) = Drop(outstanding, n)
  BY <1>0, <1>3, <1>5, DropOfTail
<1>7. Unhandled' = Unhandled
  BY <1>2, <1>4, <1>5, <1>6 DEF Unhandled, Drop
<1>8. Len(InTransit') <= Len(outstanding')
  BY <1>0, <1>2, <1>3, <1>4
<1> QED
  BY <1>1, <1>7, <1>8

LEMMA TaskFramed ==
  ASSUME UsbInv, Framed, Task
  PROVE  Framed'
<1>0. /\ accum \in Seq(Byte) /\ inbound \in Seq(Byte) /\ Len(accum) \in Nat
      /\ Len(InTransit) \in Nat
  BY InTransitType, LenProperties DEF UsbInv, TypeOK
<1>1. CASE Connect
  <2>1. accum' \o inbound' = inbound
    BY <1>0, <1>1, ConcatEmptySeq DEF Connect, hostVars
  <2>2. Unparsed' = Unparsed /\ InTransit' = InTransit
    BY <1>1, <2>1 DEF Connect, Unparsed, InTransit, hostVars
  <2> QED
    BY <1>1, <2>2, SameFramed DEF Connect, hostVars, Framed
<1>2. CASE ConnectionLost
  <2>1. ~Intact
    BY <1>2 DEF ConnectionLost, Intact
  <2> QED
    BY <1>2, <2>1, SameFramed DEF ConnectionLost, hostVars, Framed
<1>3. ASSUME NEW n \in 1 .. MaxPacket, Overflow(n)
      PROVE  Framed'
  BY <1>3, BadFrameFramed DEF Overflow, ReadPacket
<1>4. ASSUME NEW n \in 1 .. MaxPacket, Collect(n)
      PROVE  Framed'
  <2> DEFINE g == SubSeq(inbound, 1, n)
             d == Drop(inbound, n)
  <2>1. /\ accum' = accum \o g /\ inbound' = d /\ pc = "receive" /\ pc' = "parse" /\ link
        /\ n \in 1 .. Len(inbound) /\ UNCHANGED <<link, outbound, outstanding, rejected>>
    BY <1>0, <1>4, LenProperties DEF Collect, ReadPacket
  <2>2. g \in Seq(Byte) /\ d \in Seq(Byte) /\ g \o d = inbound
    BY <1>0, <1>4, <2>1, PacketType, CutAt DEF Collect, ReadPacket
  <2> HIDE DEF g, d
  <2>3. (accum \o g) \o d = accum \o (g \o d)
    BY <1>0, <2>2, ConcatOfBytes
  <2>4. Unparsed' = Unparsed /\ InTransit' = InTransit
    BY <2>1, <2>2, <2>3 DEF Unparsed, InTransit
  <2> QED
    BY <2>1, <2>4, SameFramed
<1>5. CASE Oversize
  BY <1>5, BadFrameFramed DEF Oversize, hostVars, Framed
<1>6. CASE AwaitMore
  <2>1. Unparsed' = Unparsed /\ InTransit' = InTransit
    BY <1>6 DEF AwaitMore, Unparsed, InTransit, hostVars
  <2> QED
    BY <1>6, <2>1, SameFramed DEF AwaitMore, hostVars, Framed
<1>7. CASE ProcessFrame
  <2>1. /\ pc = "parse" /\ pc' = "send" /\ frameLen' = FrameLen /\ accum' = accum /\ HasFrame
        /\ UNCHANGED <<link, inbound, outbound, outstanding, rejected>>
    BY <1>7 DEF ProcessFrame, Send, hostVars
  <2>2. CASE ~Intact
    BY <2>1, <2>2 DEF Framed, Intact
  <2>3. CASE Intact
    <3>1. Drop(accum, FrameLen) \o inbound = Bytes(Tail(Unhandled))
      BY <2>1, <2>3, OldestTaken
    <3>2. Unhandled' = Tail(Unhandled) /\ Len(InTransit') <= Len(outstanding')
      BY <1>7, <2>3, FrameHandled
    <3>3. Unparsed' = Drop(accum, FrameLen) \o inbound
      BY <2>1 DEF Unparsed, Drop
    <3>4. Unparsed' = Bytes(Unhandled')
      BY <3>1, <3>2, <3>3
    <3> QED
      BY <2>1, <3>2, <3>4 DEF Framed, Intact
  <2> QED
    BY <2>2, <2>3
<1>8. CASE Sent
  <2>1. InTransit' = InTransit /\ Unparsed' = Unparsed
    BY <1>8 DEF Sent, AfterFrame, Unparsed, InTransit
  <2> QED
    BY <1>8, <2>1, SameFramed DEF Sent, Framed
<1> QED
  BY <1>1, <1>2, <1>3, <1>4, <1>5, <1>6, <1>7, <1>8 DEF Task

LEMMA HostFramed ==
  ASSUME UsbInv, Framed, Host
  PROVE  Framed'
<1>0. /\ accum \in Seq(Byte) /\ inbound \in Seq(Byte) /\ Len(accum) \in Nat
      /\ outstanding \in Seq(Frames)
      /\ InTransit \in Seq(AnswerSet) /\ Len(InTransit) \in Nat
  BY InTransitType, LenProperties DEF UsbInv, TypeOK, Framed
<1>1. CASE Plug
  <2>1. /\ ~link /\ pc = "connect" /\ inbound = <<>> /\ outstanding = <<>> /\ outbound = <<>>
        /\ UNCHANGED <<pc, accum, frameLen, reply, inbound, outbound, outstanding, rejected>>
    BY <1>1 DEF Plug, taskVars, Framed, UsbInv
  <2>2. Unparsed' = <<>> /\ InTransit' = <<>>
    BY <2>1 DEF Unparsed, InTransit
  <2>3. Unhandled' = Drop(<<>>, 0)
    BY <2>1, <2>2, EmptySeq DEF Unhandled, Drop
  <2>4. Unhandled' = <<>> /\ Len(InTransit') = 0 /\ Len(outstanding') = 0 /\ outstanding' \in Seq(Frames)
    BY <1>0, <2>1, <2>2, <2>3, EmptySeq, DropNone
  <2> QED
    BY <2>1, <2>2, <2>4, <1>1, BytesNone DEF Plug, Framed, Intact
<1>2. CASE Unplug
  <2>1. outstanding' \in Seq(Frames)
    BY <1>2, EmptySeq DEF Unplug
  <2> QED
    BY <1>2, <2>1 DEF Unplug, Framed, Intact
<1>3. ASSUME NEW f \in Frames, HostSends(f)
      PROVE  Framed'
  <2> DEFINE e == Encode(f)
  <2>1. /\ Intact /\ inbound' = inbound \o e /\ outstanding' = Append(outstanding, f)
        /\ UNCHANGED <<pc, accum, frameLen, reply, link, outbound, rejected>>
    BY <1>3 DEF HostSends, taskVars, Intact
  <2>2. e \in Seq(Byte)
    BY EncodeType
  <2> HIDE DEF e
  <2>3. /\ Unhandled \in Seq(Frames) /\ Unhandled' = Append(Unhandled, f)
        /\ outstanding' \in Seq(Frames) /\ Len(InTransit') <= Len(outstanding')
    BY <1>3, FrameSent
  <2>4. Unparsed' = Unparsed \o e
    <3>1. CASE pc = "connect"
      BY <2>1, <3>1 DEF Unparsed
    <3>2. CASE pc = "send"
      <4> DEFINE d == Drop(accum, frameLen)
      <4>1. d \in Seq(Byte)
        BY <1>0, <3>2, DropElements DEF UsbInv, TypeOK
      <4>2. d' = d /\ Unparsed = d \o inbound /\ Unparsed' = d' \o inbound'
        BY <2>1, <3>2 DEF Unparsed, Drop
      <4> HIDE DEF d
      <4>3. (d \o inbound) \o e = d \o (inbound \o e)
        BY <1>0, <2>2, <4>1, ConcatOfBytes
      <4> QED
        BY <2>1, <4>2, <4>3
    <3>3. CASE pc \notin {"connect", "send"}
      <4>1. (accum \o inbound) \o e = accum \o (inbound \o e)
        BY <1>0, <2>2, ConcatOfBytes
      <4> QED
        BY <2>1, <3>3, <4>1 DEF Unparsed
    <3> QED
      BY <3>1, <3>2, <3>3
  <2>5. Unparsed' = Bytes(Unhandled')
    <3>1. Unparsed = Bytes(Unhandled)
      BY <2>1 DEF Framed
    <3>2. Bytes(Append(Unhandled, f)) = Bytes(Unhandled) \o e
      BY <2>3, BytesAppend DEF e
    <3> QED
      BY <2>3, <2>4, <3>1, <3>2
  <2> QED
    BY <2>1, <2>3, <2>5 DEF Framed, Intact
<1>4. CASE HostReads
  <2>1. /\ outbound # <<>> /\ link
        /\ UNCHANGED <<pc, accum, frameLen, reply, link, inbound, rejected>>
    BY <1>4 DEF HostReads, taskVars, UsbInv
  <2>2. outstanding' \in Seq(Frames)
    BY <1>0, <1>4, EmptySeq, HeadTailProperties DEF HostReads
  <2>3. CASE ~Intact
    BY <2>1, <2>2, <2>3 DEF Framed, Intact
  <2>4. CASE Intact
    <3>1. Unhandled' = Unhandled /\ Len(InTransit') <= Len(outstanding')
      BY <1>4, <2>4, AnswerRead
    <3>2. Unparsed' = Unparsed
      BY <2>1 DEF Unparsed, Drop
    <3> QED
      BY <2>1, <2>2, <3>1, <3>2 DEF Framed, Intact
  <2> QED
    BY <2>3, <2>4
<1> QED
  BY <1>1, <1>2, <1>3, <1>4 DEF Host

LEMMA UsbNextFramed == UsbInv /\ Framed /\ [Next]_vars => Framed'
<1> SUFFICES ASSUME UsbInv, Framed, [Next]_vars PROVE Framed'
  OBVIOUS
<1>1. CASE I2cTaskRuns \/ UNCHANGED vars
  <2>1. UNCHANGED <<pc, accum, frameLen, reply, link, inbound, outbound, outstanding, rejected>>
    BY <1>1 DEF I2cTaskRuns, vars, taskVars, hostVars
  <2>2. Unparsed' = Unparsed /\ InTransit' = InTransit
    BY <2>1 DEF Unparsed, InTransit, Drop
  <2> QED
    BY <2>1, <2>2, SameFramed DEF Framed
<1> QED
  BY <1>1, TaskFramed, HostFramed DEF Next

THEOREM FramedHolds == Spec => []Framed
BY UsbInvHolds, UsbInitFramed, UsbNextFramed, PTL DEF Spec

(* However packets cut the byte stream, and however many frames are on their *)
(* way, the device stays at a frame boundary of the host until it answers    *)
(* BadFrame, for every packet size, buffer size and set of frames            *)
(* (usb_stream.rs 71-121).                                                   *)
THEOREM FramingCorrect == Spec => []FramingKept
<1>1. Framed => FramingKept
  BY DEF Framed, FramingKept, Bytes, Encoded
<1> QED
  BY <1>1, FramedHolds, PTL

-------------------------------------------------------------------------------
LEMMA RejectsLong ==
  ASSUME UsbInv, Framed, Next, ~rejected, rejected'
  PROVE  Len(Encode(Head(Unhandled))) > AccumBytes + 1 - MaxPacket
<1>0. /\ accum \in Seq(Byte) /\ inbound \in Seq(Byte) /\ Len(accum) \in Nat /\ Len(inbound) \in Nat
      /\ AccumBytes \in Nat /\ MaxPacket \in Nat \ {0} /\ HeaderBytes = 3
  BY UsbAssumption, LenProperties DEF UsbInv, TypeOK
<1>1. ASSUME HasHeader, Len(accum) + Len(inbound) # 0, Intact, pc \in {"receive", "parse"}
      PROVE  FrameLen = Len(Encode(Head(Unhandled))) /\ FrameLen \in Nat
  <2>1. accum \o inbound # <<>>
    BY <1>0, <1>1, EmptySeq, ConcatProperties
  <2> QED
    BY <1>0, <1>1, <2>1, OldestInFront, FrameLenType
<1>2. ASSUME NEW n \in 1 .. MaxPacket, Overflow(n)
      PROVE  Len(Encode(Head(Unhandled))) > AccumBytes + 1 - MaxPacket
  <2>1. /\ pc = "receive" /\ Intact /\ n <= Len(inbound) /\ Len(accum) + n > AccumBytes
        /\ ~HasFrame /\ n \in Nat \ {0} /\ n <= MaxPacket
    BY <1>0, <1>2 DEF Overflow, ReadPacket, BadFrame, Intact, UsbInv, TypeOK
  <2>2. Len(accum) > AccumBytes - MaxPacket /\ Len(accum) + Len(inbound) # 0
    BY <1>0, <2>1
  <2>3. CASE HasHeader
    <3> HIDE DEF FrameLen
    <3>1. FrameLen = Len(Encode(Head(Unhandled))) /\ FrameLen \in Nat
      BY <1>1, <2>1, <2>2, <2>3
    <3>2. Len(accum) < FrameLen
      BY <1>0, <2>1, <2>3, <3>1 DEF HasFrame
    <3> QED
      BY <1>0, <2>2, <3>1, <3>2
  <2>4. CASE ~HasHeader
    <3>1. Len(accum) < 3
      BY <1>0, <2>4 DEF HasHeader
    <3>2. accum \o inbound # <<>>
      BY <1>0, <2>2, EmptySeq, ConcatProperties
    <3>3. Head(Unhandled) \in Frames
      BY <2>1, <3>2, OldestInFront
    <3>4. PICK f \in Frames : f = Head(Unhandled)
      BY <3>3
    <3>5. Len(Encode(f)) = 3 + Len(f.payload) /\ Len(f.payload) \in Nat
      BY <1>0, EncodeParts, UsbAssumption, LenProperties
    <3>6. Len(Encode(f)) > AccumBytes + 1 - MaxPacket
      BY <1>0, <2>2, <3>1, <3>5
    <3> QED
      BY <3>4, <3>6
  <2> QED
    BY <2>3, <2>4
<1>3. CASE Oversize
  <2> HIDE DEF FrameLen
  <2>1. pc = "parse" /\ Intact /\ HasHeader /\ FrameLen > AccumBytes
    BY <1>3 DEF Oversize, BadFrame, Intact
  <2>2. Len(accum) + Len(inbound) # 0
    BY <1>0, <2>1 DEF HasHeader
  <2>3. FrameLen = Len(Encode(Head(Unhandled))) /\ FrameLen \in Nat
    BY <1>1, <2>1, <2>2
  <2>4. FrameLen > AccumBytes + 1 - MaxPacket
    BY <1>0, <2>1, <2>3
  <2> QED
    BY <2>3, <2>4
<1>4. ASSUME rejected' = rejected \/ ~rejected' PROVE FALSE
  BY <1>4
<1> QED
  BY <1>2, <1>3, <1>4 DEF Next, Task, Host, Connect, ConnectionLost, Collect, ReadPacket,
     AwaitMore, ProcessFrame, Sent, Plug, Unplug, HostSends, HostReads, I2cTaskRuns

(* A host whose frames leave room for a packet behind them never gets        *)
(* BadFrame, for every packet size and buffer size (usb_stream.rs 71, 93).   *)
THEOREM RejectionCorrect == Spec => OnlyLongFramesRejected
<1>1. UsbInv /\ Framed /\ [Next]_vars =>
        [~rejected /\ rejected' => Len(Encode(Head(Unhandled))) > AccumBytes + 1 - MaxPacket]_vars
  <2> SUFFICES ASSUME UsbInv, Framed, [Next]_vars, ~rejected, rejected'
               PROVE  Len(Encode(Head(Unhandled))) > AccumBytes + 1 - MaxPacket
    OBVIOUS
  <2>1. Next
    BY DEF vars
  <2> QED
    BY <2>1, RejectsLong
<1> QED
  BY <1>1, UsbInvHolds, FramedHolds, PTL DEF Spec, OnlyLongFramesRejected

-------------------------------------------------------------------------------
(* The channel's device is this one. *)
LEMMA SameDevice ==
  /\ Channel!deviceVars = deviceVars
  /\ Channel!DeviceInit = DeviceInit
BY DEF Channel!deviceVars, Channel!streamVars, deviceVars, streamVars, Channel!DeviceInit,
   DeviceInit, Channel!StreamsInit, StreamsInit, Channel!EmbeddedAddr, EmbeddedAddr,
   Channel!StreamId, StreamId

LEMMA SameStreams ==
  /\ Channel!StreamId = StreamId
  /\ Channel!EmbeddedAddr = EmbeddedAddr
  /\ Channel!streamVars = streamVars
BY DEF Channel!EmbeddedAddr, EmbeddedAddr, Channel!StreamId, StreamId, Channel!streamVars, streamVars

LEMMA SameKinds ==
  ASSUME NEW op, NEW payload
  PROVE  /\ Channel!IsFeed(op, payload) <=> IsFeed(op, payload)
         /\ Channel!IsReset(op, payload) <=> IsReset(op, payload)
BY SameStreams DEF Channel!IsFeed, IsFeed, Channel!IsReset, IsReset, Channel!Feed, Feed,
   Channel!ResetStreams, ResetStreams

LEMMA SamePush ==
  ASSUME NEW q, NEW data
  PROVE  /\ Channel!Accepted(q, data) = Accepted(q, data)
         /\ Channel!PushBack(q, data) = PushBack(q, data)
         /\ Channel!Free(q) = Free(q)
BY DEF Channel!Accepted, Accepted, Channel!PushBack, PushBack, Channel!Free, Free

LEMMA SameAnswer ==
  ASSUME NEW op, NEW payload
  PROVE  Channel!Answer(op, payload) = Answer(op, payload)
<1>1. Channel!FeedAnswer(Head(payload), Tail(payload)) = FeedAnswer(Head(payload), Tail(payload))
  BY SamePush, Zenon DEF Channel!FeedAnswer, FeedAnswer, Channel!FeedAck, FeedAck
<1>2. Channel!ErrorCode(op, payload) = ErrorCode(op, payload)
  BY DEF Channel!ErrorCode, ErrorCode, Channel!Feed, Feed, Channel!ResetStreams, ResetStreams
<1>3. Channel!HelloReq = HelloReq /\ Channel!HelloResp = HelloResp /\ Channel!ResetAck = ResetAck
      /\ Channel!Error(ErrorCode(op, payload)) = Error(ErrorCode(op, payload))
  BY DEF Channel!HelloReq, HelloReq, Channel!HelloResp, HelloResp, Channel!ResetAck, ResetAck,
     Channel!Error, Error
<1>4. /\ Channel!IsFeed(op, payload) <=> IsFeed(op, payload)
      /\ Channel!IsReset(op, payload) <=> IsReset(op, payload)
  BY SameKinds
<1> QED
  BY <1>1, <1>2, <1>3, <1>4 DEF Channel!Answer, Answer

LEMMA SameCarryOut ==
  ASSUME NEW op, NEW payload, CarryOut(op, payload)
  PROVE  Channel!CarryOut(op, payload)
<1>1. ASSUME NEW s, NEW data, FeedStream(s, data) PROVE Channel!FeedStream(s, data)
  BY <1>1 DEF Channel!FeedStream, FeedStream, Channel!Accepted, Accepted, Channel!PushBack, PushBack,
     Channel!Free, Free
<1>2. ASSUME ResetAll PROVE Channel!ResetAll
  BY <1>2, SameStreams DEF Channel!ResetAll, ResetAll
<1>3. /\ Channel!IsFeed(op, payload) <=> IsFeed(op, payload)
      /\ Channel!IsReset(op, payload) <=> IsReset(op, payload)
      /\ Channel!streamVars = streamVars
  BY SameKinds, SameStreams
<1>4. CASE IsFeed(op, payload) /\ FeedStream(Head(payload), Tail(payload))
  BY <1>1, <1>3, <1>4, Zenon DEF Channel!CarryOut
<1>5. CASE IsReset(op, payload) /\ ResetAll
  BY <1>2, <1>3, <1>5, Zenon DEF Channel!CarryOut
<1>6. CASE ~IsFeed(op, payload) /\ ~IsReset(op, payload) /\ UNCHANGED streamVars
  <2>1. UNCHANGED Channel!streamVars
    BY <1>6 DEF Channel!streamVars, streamVars
  <2> QED
    BY <1>3, <1>6, <2>1, Zenon DEF Channel!CarryOut
<1> QED
  BY <1>4, <1>5, <1>6 DEF CarryOut

LEMMA SameI2cTask ==
  ASSUME I2cTask
  PROVE  Channel!I2cTask
<1>1. ASSUME NEW s, I2cPops(s) PROVE Channel!I2cPops(s)
  BY <1>1 DEF Channel!I2cPops, I2cPops, Channel!PopByte, PopByte, Channel!HostPop, HostPop
<1>2. ASSUME I2cRollsBack PROVE Channel!I2cRollsBack
  <2>1. ASSUME NEW e, RollbackEffect(e) PROVE Channel!RollbackEffect(e)
    BY <2>1 DEF Channel!RollbackEffect, RollbackEffect, Channel!streamVars, streamVars,
       Channel!RetreatCursor, RetreatCursor, Channel!UnpopByte, UnpopByte,
       Channel!UncountUnderrun, UncountUnderrun, Channel!PushFrontOne, PushFrontOne
  <2> QED
    BY <1>2, <2>1 DEF Channel!I2cRollsBack, I2cRollsBack
<1>3. ASSUME I2cDelivers PROVE Channel!I2cDelivers
  BY <1>3 DEF Channel!I2cDelivers, I2cDelivers, Channel!streamVars, streamVars
<1> QED
  BY <1>1, <1>2, <1>3, SameStreams DEF Channel!I2cTask, I2cTask

(* A step that changes nothing the channel shows. *)
LEMMA NothingShown ==
  ASSUME UNCHANGED <<deviceVars, link, rejected>>,
         Intact => Unhandled' = Unhandled /\ InTransit' = InTransit,
         ~link => InHand' = InHand
  PROVE  UNCHANGED Channel!vars
BY SameDevice DEF Channel!vars, Channel!channelVars, Channel!deviceVars, deviceVars,
   Channel!streamVars, streamVars, Intact

(* A BadFrame answer breaks the channel, unless the link is down. *)
LEMMA BadFrameShown ==
  ASSUME UsbInv, Framed, BadFrame, UNCHANGED <<deviceVars, link>>,
         ~link => InHand' = InHand
  PROVE  [Channel!Next]_(Channel!vars)
<1>1. rejected' = link
  BY DEF BadFrame
<1>2. CASE Intact
  BY <1>1, <1>2 DEF Channel!Next, Channel!Break, Intact, Channel!deviceVars, deviceVars,
     Channel!streamVars, streamVars
<1>3. CASE ~Intact
  <2>1. rejected' = rejected
    BY <1>1, <1>3 DEF Framed, Intact
  <2> QED
    BY <1>3, <2>1, NothingShown
<1> QED
  BY <1>2, <1>3

LEMMA TaskShown ==
  ASSUME UsbInv, Framed, Task
  PROVE  [Channel!Next]_(Channel!vars)
<1>1. CASE Connect
  <2>1. Unhandled' = Unhandled /\ InTransit' = InTransit /\ link
    BY <1>1 DEF Connect, Unhandled, InTransit, Drop, hostVars
  <2> QED
    BY <1>1, <2>1, NothingShown DEF Connect, hostVars
<1>2. CASE ConnectionLost
  <2>1. InHand' = InHand /\ ~link
    BY <1>2 DEF ConnectionLost, InHand
  <2> QED
    BY <1>2, <2>1, NothingShown DEF ConnectionLost, hostVars, Intact
<1>3. ASSUME NEW n \in 1 .. MaxPacket, Overflow(n)
      PROVE  [Channel!Next]_(Channel!vars)
  BY <1>3, BadFrameShown DEF Overflow, ReadPacket
<1>4. ASSUME NEW n \in 1 .. MaxPacket, Collect(n)
      PROVE  [Channel!Next]_(Channel!vars)
  <2>1. Unhandled' = Unhandled /\ InTransit' = InTransit /\ link
    BY <1>4 DEF Collect, ReadPacket, Unhandled, InTransit, Drop
  <2> QED
    BY <1>4, <2>1, NothingShown DEF Collect, ReadPacket
<1>5. CASE Oversize
  <2>1. InHand = <<>> /\ InHand' = <<>>
    <3>1. FrameLen \in Nat /\ AccumBytes \in Nat
      BY <1>5, FrameLenType, UsbAssumption DEF Oversize, UsbInv, TypeOK
    <3>2. ~(FrameLen <= AccumBytes)
      <4> HIDE DEF FrameLen
      <4> QED
        BY <1>5, <3>1 DEF Oversize
    <3>3. pc' = "send"
      BY <1>5 DEF Oversize, BadFrame, Send
    <3> QED
      BY <3>2, <3>3 DEF InHand
  <2> QED
    BY <1>5, <2>1, BadFrameShown DEF Oversize, hostVars
<1>6. CASE AwaitMore
  <2>1. Unhandled' = Unhandled /\ InTransit' = InTransit
    BY <1>6 DEF AwaitMore, Unhandled, InTransit, Drop, hostVars
  <2>2. InHand = <<>> /\ InHand' = <<>>
    <3>1. HasHeader => FrameLen \in Nat
      BY FrameLenType DEF UsbInv, TypeOK
    <3>2. Len(accum) \in Nat
      BY LenProperties DEF UsbInv, TypeOK
    <3>3. ~HasFrame /\ pc' = "receive"
      <4> HIDE DEF FrameLen
      <4> QED
        BY <1>6, <3>1, <3>2 DEF AwaitMore, HasFrame
    <3> QED
      BY <3>3 DEF InHand
  <2> QED
    BY <1>6, <2>1, <2>2, NothingShown DEF AwaitMore, hostVars
<1>7. CASE ProcessFrame
  <2> DEFINE op == accum[1]
             payload == SubSeq(accum, HeaderBytes + 1, FrameLen)
  <2>1. /\ pc = "parse" /\ pc' = "send" /\ HasFrame /\ FrameLen <= AccumBytes
        /\ reply' = Answer(op, payload) /\ CarryOut(op, payload)
        /\ UNCHANGED <<link, rejected, ahead>>
    BY <1>7 DEF ProcessFrame, Send, hostVars
  <2>2. Channel!CarryOut(op, payload) /\ Channel!Answer(op, payload) = Answer(op, payload)
    BY <2>1, SameCarryOut, SameAnswer
  <2>3. CASE rejected
    <3>1. Channel!StayBroken
      BY <2>1, <2>3 DEF Channel!StayBroken, Channel!channelVars
    <3> QED
      BY <3>1 DEF Channel!Next
  <2>4. CASE Intact
    <3>1. /\ Unhandled # <<>> /\ Unhandled' = Tail(Unhandled)
          /\ InTransit' = Append(InTransit, reply')
      BY <1>7, <2>4, FrameHandled
    <3>2. op = Head(Unhandled).op /\ payload = Head(Unhandled).payload
      BY <2>1, <2>4, OldestTaken
    <3> HIDE DEF op, payload
    <3>3. Channel!Handle
      BY <2>1, <2>2, <2>4, <3>1, <3>2 DEF Channel!Handle, Intact
    <3> QED
      BY <2>1, <2>4, <3>3 DEF Channel!Next, Intact
  <2>5. CASE ~link /\ ~rejected
    <3>1. InHand = <<[op |-> op, payload |-> payload]>> /\ InHand' = <<>>
      BY <2>1 DEF InHand
    <3> HIDE DEF op, payload
    <3>2. InHand # <<>> /\ Tail(InHand) = <<>> /\ Head(InHand) = [op |-> op, payload |-> payload]
      BY <3>1
    <3>3. Channel!Handle
      BY <2>1, <2>2, <2>5, <3>1, <3>2 DEF Channel!Handle
    <3> QED
      BY <2>1, <2>5, <3>3 DEF Channel!Next
  <2> QED
    BY <2>3, <2>4, <2>5 DEF Intact
<1>8. CASE Sent
  <2>1. Unhandled' = Unhandled /\ InTransit' = InTransit /\ link
    BY <1>8 DEF Sent, AfterFrame, Unhandled, InTransit, Drop
  <2> QED
    BY <1>8, <2>1, NothingShown DEF Sent
<1> QED
  BY <1>1, <1>2, <1>3, <1>4, <1>5, <1>6, <1>7, <1>8 DEF Task

(* A frame in hand when the link goes down is the first of the frames not    *)
(* handled. *)
LEMMA InHandIsFirst ==
  ASSUME UsbInv, Framed, Intact
  PROVE  \E n \in 0 .. 1 : n <= Len(Unhandled) /\ InHand = SubSeq(Unhandled, 1, n)
<1>1. Unhandled \in Seq(Frames) /\ Len(Unhandled) \in Nat
  BY UnhandledType, LenProperties
<1>2. CASE pc = "parse" /\ HasFrame /\ FrameLen <= AccumBytes
  <2> DEFINE f == Head(Unhandled)
  <2>1. /\ Unhandled # <<>> /\ f \in Frames
        /\ accum[1] = f.op /\ SubSeq(accum, HeaderBytes + 1, FrameLen) = f.payload
    BY <1>2, OldestTaken
  <2>2. InHand = <<[op |-> f.op, payload |-> f.payload]>>
    BY <1>2, <2>1, Zenon DEF InHand
  <2>3. f \in [op : Byte, payload : Seq(Byte)]
    BY <2>1, UsbAssumption
  <2>4. f = [op |-> f.op, payload |-> f.payload]
    BY <2>3
  <2>5. 1 <= Len(Unhandled)
    BY <1>1, <2>1, EmptySeq
  <2>6. SubSeq(Unhandled, 1, 1) = <<f>>
    BY <1>1, <2>1, FirstOnly
  <2>7. InHand = SubSeq(Unhandled, 1, 1)
    BY <2>2, <2>4, <2>6, Zenon
  <2> QED
    BY <2>5, <2>7
<1>3. CASE ~(pc = "parse" /\ HasFrame /\ FrameLen <= AccumBytes)
  <2>1. InHand = <<>>
    BY <1>3 DEF InHand
  <2>2. SubSeq(Unhandled, 1, 0) = <<>>
    BY SubSeqEmpty
  <2> QED
    BY <1>1, <2>1, <2>2
<1> QED
  BY <1>2, <1>3

LEMMA HostShown ==
  ASSUME UsbInv, Framed, Host
  PROVE  [Channel!Next]_(Channel!vars)
<1>1. CASE Plug
  <2>1. /\ ~link /\ link' /\ ~rejected /\ rejected' = rejected /\ pc = "connect" /\ outbound' = <<>>
        /\ outstanding' = <<>> /\ pc' = pc /\ UNCHANGED deviceVars
    BY <1>1 DEF Plug, taskVars, Framed, UsbInv
  <2>2. InHand = <<>> /\ InTransit' = <<>>
    BY <2>1 DEF InHand, InTransit
  <2>3. Unhandled' = <<>>
    <3>1. Unhandled' = Drop(<<>>, 0)
      BY <2>1, <2>2, EmptySeq DEF Unhandled, Drop
    <3>2. Drop(<<>>, 0) = <<>>
      BY EmptySeq, DropNone
    <3> QED
      BY <3>1, <3>2
  <2>4. Channel!LinkUp
    BY <1>1, <2>1, <2>2, <2>3 DEF Plug, Channel!LinkUp, Channel!deviceVars, deviceVars,
       Channel!streamVars, streamVars
  <2> QED
    BY <2>1, <2>4 DEF Channel!Next
<1>2. CASE Unplug
  <2>1. link /\ link' = FALSE /\ rejected' = FALSE /\ UNCHANGED deviceVars
    BY <1>2 DEF Unplug
  <2>2. UNCHANGED Channel!deviceVars
    BY <2>1, SameDevice DEF deviceVars, streamVars, Channel!deviceVars, Channel!streamVars
  <2>3. CASE rejected
    <3>1. Channel!LinkDownBroken
      BY <2>1, <2>2, <2>3 DEF Channel!LinkDownBroken
    <3> QED
      BY <3>1 DEF Channel!Next
  <2>4. CASE ~rejected
    <3>0. rejected = FALSE
      BY <2>4 DEF Framed
    <3>1. InHand' = InHand
      BY <1>2 DEF Unplug, taskVars, InHand, HasFrame, HasHeader, FrameLen
    <3>2. \E n \in 0 .. 1 : n <= Len(Unhandled) /\ InHand' = SubSeq(Unhandled, 1, n)
      BY <2>1, <2>4, <3>1, InHandIsFirst DEF Intact
    <3>3. Channel!LinkDown
      BY <2>1, <2>2, <2>4, <3>2 DEF Channel!LinkDown
    <3> QED
      BY <2>1, <3>0, <3>3 DEF Channel!Next
  <2> QED
    BY <2>3, <2>4
<1>3. ASSUME NEW f \in Frames, HostSends(f)
      PROVE  [Channel!Next]_(Channel!vars)
  <2>1. /\ link /\ ~rejected /\ UNCHANGED <<deviceVars, link, rejected>>
        /\ Unhandled' = Append(Unhandled, f) /\ InTransit' = InTransit
    BY <1>3, FrameSent DEF HostSends
  <2>2. Channel!Request(f)
    BY <2>1 DEF Channel!Request, Channel!deviceVars, deviceVars, Channel!streamVars, streamVars
  <2> QED
    BY <2>1, <2>2 DEF Channel!Next
<1>4. CASE HostReads
  <2>1. link /\ UNCHANGED <<deviceVars, link, rejected>>
    BY <1>4 DEF HostReads, UsbInv
  <2>2. CASE rejected
    BY <2>1, <2>2, NothingShown DEF Intact
  <2>3. CASE ~rejected
    <3>1. InTransit # <<>> /\ InTransit' = Tail(InTransit) /\ Unhandled' = Unhandled
      BY <1>4, <2>1, <2>3, AnswerRead DEF Intact
    <3>2. Channel!TakeAnswer
      BY <2>1, <2>3, <3>1 DEF Channel!TakeAnswer, Channel!deviceVars, deviceVars,
         Channel!streamVars, streamVars
    <3> QED
      BY <2>1, <2>3, <3>2 DEF Channel!Next
  <2> QED
    BY <2>2, <2>3
<1> QED
  BY <1>1, <1>2, <1>3, <1>4 DEF Host

LEMMA I2cTaskShown ==
  ASSUME Framed, I2cTaskRuns
  PROVE  Channel!Next
<1>1. Channel!I2cTask
  BY SameI2cTask DEF I2cTaskRuns
<1>2. /\ Unhandled' = Unhandled /\ InTransit' = InTransit /\ InHand' = InHand
      /\ UNCHANGED <<link, rejected>>
  BY DEF I2cTaskRuns, taskVars, hostVars, Unhandled, InTransit, InHand, Drop, HasFrame, HasHeader,
     FrameLen
<1>3. UNCHANGED Channel!channelVars
  BY <1>2 DEF Channel!channelVars
<1>4. CASE rejected
  BY <1>2, <1>3, <1>4 DEF Channel!Next, Channel!StayBroken
<1>5. CASE ~rejected
  BY <1>1, <1>2, <1>3, <1>5 DEF Channel!Next, Channel!DeviceRuns
<1> QED
  BY <1>4, <1>5

(* The stream task is the channel of StreamService, for every capacity,      *)
(* packet size, buffer size and set of frames: each frame is carried out     *)
(* once, in order, and answered in order (usb_stream.rs 71-121).             *)
THEOREM TaskRefinesChannel == Spec => ChannelSpec
<1>1. Init => Channel!Init
  <2> SUFFICES ASSUME Init PROVE Channel!Init
    OBVIOUS
  <2>1. InHand = <<>>
    BY DEF Init, InHand
  <2> QED
    BY <2>1, SameDevice DEF Init, Channel!Init, Channel!ChannelInit
<1>2. UsbInv /\ Framed /\ [Next]_vars => [Channel!Next]_(Channel!vars)
  <2> SUFFICES ASSUME UsbInv, Framed, [Next]_vars PROVE [Channel!Next]_(Channel!vars)
    OBVIOUS
  <2>1. CASE UNCHANGED vars
    <3>1. Unhandled' = Unhandled /\ InTransit' = InTransit /\ InHand' = InHand
      BY <2>1 DEF vars, taskVars, hostVars, Unhandled, InTransit, InHand, Drop, HasFrame,
         HasHeader, FrameLen
    <3> QED
      BY <2>1, <3>1, NothingShown DEF vars, hostVars
  <2> QED
    BY <2>1, TaskShown, HostShown, I2cTaskShown DEF Next
<1> QED
  BY <1>1, <1>2, UsbInvHolds, FramedHolds, PTL DEF Spec, ChannelSpec, Channel!Spec

===============================================================================
