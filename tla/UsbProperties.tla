------------------------------ MODULE UsbProperties ------------------------------
(***************************************************************************)
(* What is checked of UsbStream.                                           *)
(***************************************************************************)
EXTENDS UsbStream, SequencesExt

(* Whenever the task waits for a packet it has taken every whole frame it    *)
(* collected, and what is left fits the array it is collected in: no packet  *)
(* can make the copy of usb_stream.rs 82 or 119 run out of bounds.           *)
TypeOK ==
  /\ StreamsTypeOK
  /\ pc \in {"connect", "receive", "parse", "send"}
  /\ accum \in Seq(Byte)
  /\ Len(accum) <= AccumBytes
  /\ frameLen \in 0 .. AccumBytes
  /\ (pc = "send" => frameLen <= Len(accum))
  /\ (pc = "receive" => ~HasFrame)

(* The answers the host has not read yet, and the frames they do not answer. *)
InTransit == IF pc = "send" THEN Append(outbound, reply) ELSE outbound
Unhandled == Drop(outstanding, Len(InTransit))

(* The bytes the device has still to interpret, in order. *)
Unparsed ==
  CASE pc = "connect" -> inbound
    [] pc = "send" -> Drop(accum, frameLen) \o inbound
    [] OTHER -> accum \o inbound

Intact == link /\ ~rejected

(* However packets cut the byte stream, and however many frames are on their *)
(* way, the device stays at a frame boundary of the host: what it has still  *)
(* to interpret is the frames it has not handled.  Only after a BadFrame     *)
(* answer may it be lost (usb_stream.rs 71-121).                             *)
FramingKept ==
  Intact => Unparsed = FlattenSeq([i \in 1 .. Len(Unhandled) |-> Encode(Unhandled[i])])

(* The frame the task has in hand when the link has just gone down. *)
InHand ==
  IF pc = "parse" /\ HasFrame /\ FrameLen <= AccumBytes
  THEN <<[op |-> accum[1], payload |-> SubSeq(accum, HeaderBytes + 1, FrameLen)]>>
  ELSE <<>>

(* The stream task is the channel of StreamService: whatever way packets cut *)
(* the frames, each frame is carried out once, in order, and answered in     *)
(* order, so that the host may match answers to frames by counting, as       *)
(* csv_streamer does (main.rs 359-370); a frame in hand when the link goes   *)
(* down is still carried out (usb_stream.rs 108-117), others are lost with it.*)
Channel == INSTANCE StreamService WITH
  requests <- IF rejected THEN <<>> ELSE IF link THEN Unhandled ELSE InHand,
  answers <- IF rejected \/ ~link THEN <<>> ELSE InTransit,
  broken <- rejected

ChannelSpec == Channel!Spec

(* Framing is given up only for a frame so long that a packet behind its     *)
(* first part may not fit (usb_stream.rs 71, 93): a host whose frames leave  *)
(* room for a packet, as those of csv_streamer do, never gets BadFrame.      *)
OnlyLongFramesRejected ==
  [][~rejected /\ rejected' =>
       Len(Encode(Head(Unhandled))) > AccumBytes + 1 - MaxPacket]_vars

IsAckOf(answer, s) == answer.op = "FeedAck" /\ answer.id = s

(* The free space an answer reports is stale when the host reads it, but     *)
(* never by more than the bytes the I2C task may put back: a host that feeds *)
(* one stream at a time and no more than free loses at most ReadAhead bytes  *)
(* per answer (usb_stream.rs 167-178, csv_streamer/src/main.rs 385).         *)
FreeIsCurrent ==
  \A s \in StreamId, i \in 1 .. Len(InTransit) :
    IsAckOf(InTransit[i], s)
      /\ (\A j \in i + 1 .. Len(InTransit) : ~IsAckOf(InTransit[j], s)) =>
    InTransit[i].free + InFlight(s) <= Free(queue[s]) + ReadAhead

(* Every frame is answered, also one that came in the same packet as the     *)
(* frame before it, unless the link goes down or framing was given up with a *)
(* BadFrame answer (usb_stream.rs 71-121).                                   *)
EveryFrameAnswered == outstanding # <<>> ~> (outbound # <<>> \/ ~Intact)

===============================================================================
