------------------------------- MODULE UsbStream -------------------------------
(***************************************************************************)
(* The stream task of firmware/src/usb_stream.rs: it cuts the bytes of USB *)
(* packets into frames, carries each frame out on the streams and answers  *)
(* it.  Around it: the USB link and a host that sends frames and reads the *)
(* answers, and the I2C task as far as it pops bytes and puts them back.   *)
(*                                                                         *)
(* Bytes to the device are modelled one by one, because framing is about   *)
(* them; answers are records, because nothing here depends on their bytes. *)
(* A packet of length 0 changes nothing and is left out.  The driver is    *)
(* taken to fail the task's pending call whenever the link goes down.      *)
(***************************************************************************)
EXTENDS StreamDevice

CONSTANTS
  MaxPacket,     \* USB_MAX_PACKET_SIZE
  HeaderBytes,   \* STREAM_FRAME_HEADER_BYTES
  AccumBytes,    \* STREAM_RX_ACCUM_BYTES
  LenBase,       \* the radix of the two length bytes of a header
  Frames,        \* the frames the host sends, as [op, payload] records
  Window,        \* how many frames the host sends before it reads an answer
  PipeBytes      \* how many bytes the driver of the host takes ahead of the device

ASSUME UsbAssumption ==
  /\ MaxPacket \in Nat \ {0}
  /\ HeaderBytes = 3
  /\ AccumBytes \in Nat /\ AccumBytes >= HeaderBytes
  /\ LenBase \in Nat \ {0}
  /\ Byte = 0 .. LenBase - 1
  /\ Frames \subseteq [op : Byte, payload : Seq(Byte)]
  /\ \A f \in Frames : Len(f.payload) < LenBase * LenBase
  /\ Window \in Nat \ {0}
  /\ PipeBytes \in Nat

VARIABLES
  pc,            \* connect, receive, parse or send
  accum,         \* the first accum_len bytes of accum
  reply,         \* what stream_send_frame is writing
  frameLen,      \* frame_len: the bytes to remove after the answer, or 0
  link,          \* whether the host has the port connected
  inbound,       \* bytes the host wrote and the device has not read
  outbound,      \* answers written and not read by the host
  outstanding,   \* the host's frames without an answer, oldest first
  rejected       \* whether the device answered BadFrame on this connection

taskVars == <<pc, accum, reply, frameLen>>
hostVars == <<link, inbound, outbound, outstanding>>
vars == <<deviceVars, taskVars, hostVars, rejected>>

Encode(f) ==
  <<f.op, Len(f.payload) % LenBase, Len(f.payload) \div LenBase>> \o f.payload

Drop(q, n) == SubSeq(q, n + 1, Len(q))

Init ==
  /\ DeviceInit
  /\ pc = "connect"
  /\ accum = <<>>
  /\ reply = <<>>
  /\ frameLen = 0
  /\ link = FALSE
  /\ inbound = <<>>
  /\ outbound = <<>>
  /\ outstanding = <<>>
  /\ rejected = FALSE

-------------------------------------------------------------------------------
(* task: the connection *)
(* Mutant of Connect: what was collected before the link went down stays. *)
M_Connect ==
  /\ pc = "connect"
  /\ link
  /\ pc' = "receive"
  /\ UNCHANGED <<deviceVars, accum, reply, frameLen, hostVars, rejected>>

Connect ==
  /\ pc = "connect"
  /\ link
  /\ pc' = "receive"
  /\ accum' = <<>>
  /\ UNCHANGED <<deviceVars, reply, frameLen, hostVars, rejected>>

(* read_packet or write_packet fails. *)
ConnectionLost ==
  /\ pc \in {"receive", "send"}
  /\ ~link
  /\ pc' = "connect"
  /\ UNCHANGED <<deviceVars, accum, reply, frameLen, hostVars, rejected>>

(* stream_send_frame and stream_send_error, begun in this step. *)
Send(answer, length) ==
  /\ pc' = "send"
  /\ reply' = answer
  /\ frameLen' = length

BadFrame ==
  /\ accum' = <<>>
  /\ Send(Error("BadFrame"), 0)
  /\ rejected' = link

ReadPacket(n) ==
  /\ pc = "receive"
  /\ link
  /\ n \in 1 .. MaxPacket
  /\ n <= Len(inbound)
  /\ inbound' = Drop(inbound, n)
  /\ UNCHANGED <<deviceVars, link, outbound, outstanding>>

(* A packet that does not fit is thrown away with what was collected. *)
Overflow(n) ==
  /\ ReadPacket(n)
  /\ Len(accum) + n > AccumBytes
  /\ BadFrame

(* Mutant of Collect: the room for the packet is not checked. *)
M_Collect(n) ==
  /\ ReadPacket(n)
  /\ accum' = accum \o SubSeq(inbound, 1, n)
  /\ pc' = "parse"
  /\ UNCHANGED <<reply, frameLen, rejected>>

Collect(n) ==
  /\ ReadPacket(n)
  /\ Len(accum) + n <= AccumBytes
  /\ accum' = accum \o SubSeq(inbound, 1, n)
  /\ pc' = "parse"
  /\ UNCHANGED <<reply, frameLen, rejected>>

-------------------------------------------------------------------------------
(* task: the loop over the frames collected *)
(* Mutant of FrameLen: the length bytes are taken in the wrong order. *)
M_FrameLen == HeaderBytes + LenBase * accum[2] + accum[3]

FrameLen == HeaderBytes + accum[2] + LenBase * accum[3]

HasHeader == Len(accum) >= HeaderBytes

HasFrame == HasHeader /\ Len(accum) >= FrameLen

Oversize ==
  /\ pc = "parse"
  /\ HasHeader
  /\ FrameLen > AccumBytes
  /\ BadFrame
  /\ UNCHANGED <<deviceVars, hostVars>>

AwaitMore ==
  /\ pc = "parse"
  /\ HasHeader => FrameLen <= AccumBytes /\ Len(accum) < FrameLen
  /\ pc' = "receive"
  /\ UNCHANGED <<deviceVars, accum, reply, frameLen, hostVars, rejected>>

(* process_stream_frame, up to its answer *)
(* Mutant of ProcessFrame: the payload is taken from one byte too early. *)
M_ProcessFrame ==
  /\ pc = "parse"
  /\ HasFrame
  /\ FrameLen <= AccumBytes
  /\ LET op == accum[1]
         payload == SubSeq(accum, HeaderBytes, FrameLen - 1)
     IN Send(Answer(op, payload), FrameLen) /\ CarryOut(op, payload)
  /\ UNCHANGED <<accum, hostVars, rejected, ahead>>

ProcessFrame ==
  /\ pc = "parse"
  /\ HasFrame
  /\ FrameLen <= AccumBytes
  /\ LET op == accum[1]
         payload == SubSeq(accum, HeaderBytes + 1, FrameLen)
     IN Send(Answer(op, payload), FrameLen) /\ CarryOut(op, payload)
  /\ UNCHANGED <<accum, hostVars, rejected, ahead>>

(* Mutant of AfterFrame: one frame is taken per packet. *)
M_AfterFrame == "receive"

AfterFrame == IF frameLen = 0 THEN "receive" ELSE "parse"

(* The answer is written; only now is the frame removed. *)
Sent ==
  /\ pc = "send"
  /\ link
  /\ Len(outbound) < Window
  /\ outbound' = Append(outbound, reply)
  /\ pc' = AfterFrame
  /\ accum' = Drop(accum, frameLen)
  /\ UNCHANGED <<deviceVars, reply, frameLen, link, inbound, outstanding, rejected>>

-------------------------------------------------------------------------------
(* The link and the host.  When the link goes down what is under way is lost. *)
Plug ==
  /\ ~link
  /\ pc = "connect"
  /\ link' = TRUE
  /\ UNCHANGED <<deviceVars, taskVars, inbound, outbound, outstanding, rejected>>

Unplug ==
  /\ link
  /\ link' = FALSE
  /\ inbound' = <<>>
  /\ outbound' = <<>>
  /\ outstanding' = <<>>
  /\ rejected' = FALSE
  /\ UNCHANGED <<deviceVars, taskVars>>

(* send_frame.  Nothing more is sent after a rejection: a bound. *)
HostSends(f) ==
  /\ link
  /\ ~rejected
  /\ Len(outstanding) < Window
  /\ Len(inbound) + Len(Encode(f)) <= PipeBytes
  /\ inbound' = inbound \o Encode(f)
  /\ outstanding' = Append(outstanding, f)
  /\ UNCHANGED <<deviceVars, taskVars, link, outbound, rejected>>

(* read_until_frame: an answer is taken to be that of the oldest frame. *)
HostReads ==
  /\ outbound # <<>>
  /\ outbound' = Tail(outbound)
  /\ outstanding' = IF outstanding = <<>> THEN <<>> ELSE Tail(outstanding)
  /\ UNCHANGED <<deviceVars, taskVars, link, inbound, rejected>>

-------------------------------------------------------------------------------
(* The I2C task runs while this one awaits. *)
I2cTaskRuns ==
  /\ pc # "parse"
  /\ I2cTask
  /\ UNCHANGED <<taskVars, hostVars, rejected>>

-------------------------------------------------------------------------------
Task ==
  \/ Connect
  \/ ConnectionLost
  \/ \E n \in 1 .. MaxPacket : Overflow(n) \/ Collect(n)
  \/ Oversize
  \/ AwaitMore
  \/ ProcessFrame
  \/ Sent

Host ==
  \/ Plug
  \/ Unplug
  \/ \E f \in Frames : HostSends(f)
  \/ HostReads

Next == Task \/ Host \/ I2cTaskRuns

Spec == Init /\ [][Next]_vars

(* The executor runs the task when it is ready, and the host reads answers. *)
FairSpec == Spec /\ WF_vars(Task) /\ WF_vars(HostReads)

===============================================================================
