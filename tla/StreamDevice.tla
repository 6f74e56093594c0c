------------------------------ MODULE StreamDevice -----------------------------
(***************************************************************************)
(* What the device does with a frame of the stream protocol                *)
(* (process_stream_frame of firmware/src/usb_stream.rs), and the I2C task  *)
(* as far as the streams feel it: it pops bytes before its master takes    *)
(* them and puts them back when the master does not.                       *)
(***************************************************************************)
EXTENDS Streams

CONSTANT ReadAhead    \* how many bytes the I2C task has popped and not delivered

ASSUME ReadAheadAssumption == ReadAhead \in Nat

VARIABLE ahead        \* the effects of the bytes the I2C task has in flight

deviceVars == <<streamVars, ahead>>

DeviceInit == StreamsInit /\ ahead = <<>>

(* HostOp: the opcodes are bytes of a frame. *)
HelloReq == 1
Feed == 2
ResetStreams == 3

HelloResp == [op |-> "HelloResp"]
ResetAck == [op |-> "ResetAck"]
FeedAck(s, accepted, free) ==
  [op |-> "FeedAck", id |-> s, accepted |-> accepted, free |-> free]
Error(code) == [op |-> "Error", code |-> code]

IsFeed(op, payload) == op = Feed /\ payload # <<>> /\ Head(payload) \in StreamId

IsReset(op, payload) == op = ResetStreams /\ payload = <<>>

ErrorCode(op, payload) ==
  CASE op = Feed /\ payload # <<>> -> "InvalidStreamId"
    [] (op = Feed /\ payload = <<>>) \/ op = ResetStreams -> "BadPayload"
    [] OTHER -> "UnknownOpcode"

(* Mutant of FeedAnswer: the free space is that before the feed. *)
M_FeedAnswer(s, data) == FeedAck(s, Accepted(queue[s], data), Free(queue[s]))

FeedAnswer(s, data) ==
  FeedAck(s, Accepted(queue[s], data), Free(PushBack(queue[s], data)))

(* The answer to a frame, and what the frame does to the streams. *)
Answer(op, payload) ==
  CASE op = HelloReq -> HelloResp
    [] IsFeed(op, payload) -> FeedAnswer(Head(payload), Tail(payload))
    [] IsReset(op, payload) -> ResetAck
    [] OTHER -> Error(ErrorCode(op, payload))

CarryOut(op, payload) ==
  \/ IsFeed(op, payload) /\ FeedStream(Head(payload), Tail(payload))
  \/ IsReset(op, payload) /\ ResetAll
  \/ ~IsFeed(op, payload) /\ ~IsReset(op, payload) /\ UNCHANGED streamVars

-------------------------------------------------------------------------------
I2cPops(s) ==
  /\ Len(ahead) < ReadAhead
  /\ PopByte(s)
  /\ ahead' = Append(ahead, HostPop(s, Head(queue[s]), last[s]))

I2cRollsBack ==
  /\ ahead # <<>>
  /\ RollbackEffect(ahead[Len(ahead)])
  /\ ahead' = SubSeq(ahead, 1, Len(ahead) - 1)

I2cDelivers ==
  /\ ahead # <<>>
  /\ ahead' = <<>>
  /\ UNCHANGED streamVars

I2cTask == (\E s \in StreamId : I2cPops(s)) \/ I2cRollsBack \/ I2cDelivers

(* The bytes of stream s in flight, by their places in ahead, and how many. *)
PopsAhead(s) == {i \in 1 .. Len(ahead) : IsPopOf(ahead[i], s)}
InFlight(s) == Cardinality(PopsAhead(s))

===============================================================================
