------------------------------- MODULE I2cService -------------------------------
(***************************************************************************)
(* The I2C task of firmware/src/i2c_service.rs with the register file and  *)
(* the streams it serves, the I2C master that drives it and the USB tasks  *)
(* that act on the same state.                                             *)
(*                                                                         *)
(* The executor is cooperative: another task runs only while the I2C task  *)
(* awaits the driver, which is in the loop head ("listen") and in          *)
(* respond_to_read ("respond").  The loops over the bytes of a chunk are   *)
(* taken one byte per step in "fill" and "rollback", where no other task   *)
(* can move.                                                               *)
(*                                                                         *)
(* A byte is read from its register before the master has asked for it; if *)
(* the master ends the read before it took the byte, the driver reports it *)
(* as left over and its effect is rolled back.                             *)
(***************************************************************************)
EXTENDS RegisterFile

CONSTANTS
  ReadChunk,          \* I2C_READ_CHUNK
  PreviewBytes,       \* the size of serve_read's preview
  DataPreviewBytes,   \* DATA_PREVIEW_BYTES of an event
  LenMod,             \* the modulus of Event.len, a u16
  GeneralCallReset,   \* GENERAL_CALL_RESET
  Messages,           \* what the master may write in one transaction (64 bytes)
  FeedData,           \* what the host may feed in one frame
  MaxRead,            \* bound: the bytes offered to the master in one read
  FeedLimit,          \* the level above which the host does not feed a stream
  HostMayReset        \* whether the host sends ResetStreams

ASSUME I2cAssumption ==
  /\ ReadChunk \in Nat \ {0}
  /\ PreviewBytes \in Nat
  /\ DataPreviewBytes \in Nat
  /\ LenMod \in Nat \ {0}
  /\ GeneralCallReset \in Byte
  /\ \A m \in Messages : m \in Seq(Byte) /\ Len(m) <= RegCount
  /\ \A d \in FeedData : d \in Seq(Byte)
  /\ MaxRead \in Nat
  /\ FeedLimit \in Nat
  /\ HostMayReset \in BOOLEAN

VARIABLES
  pc,          \* where the task is: listen, fill, respond or rollback
  kind,        \* serve_read's kind
  start,       \* serve_read's pointer: where the read began
  chunk,       \* tx and effects together
  sent,        \* how many bytes of the chunk the master has taken
  total,       \* bytes offered in this read
  preview,
  wire,        \* the bytes the master has taken in this read
  event,       \* what this step handed to log::record
  resetSignal  \* I2C_RESET_SIGNAL

readVars == <<kind, start, chunk, sent, total, preview, wire>>
vars == <<streamVars, regVars, readVars, pc, event, resetSignal>>

Least(m, n) == IF m <= n THEN m ELSE n
Prefix(q, n) == SubSeq(q, 1, Least(n, Len(q)))
Values(c) == [i \in 1 .. Len(c) |-> c[i].value]

NoEvent ==
  [kind |-> "None", pointer |-> 0, len |-> 0, status |-> 0, error |-> 0, data |-> <<>>]

(* log::record *)
Record(k, p, len, status, error, payload) ==
  event' = [kind |-> k, pointer |-> p, len |-> len % LenMod, status |-> status,
            error |-> error, data |-> Prefix(payload, DataPreviewBytes)]

(* encode_i2c_error: every error of the driver is one code here. *)
I2cError == 4096

IdleRead ==
  /\ kind = "None"
  /\ start = 0
  /\ chunk = <<>>
  /\ sent = 0
  /\ total = 0
  /\ preview = <<>>
  /\ wire = <<>>

Init ==
  /\ StreamsInit
  /\ RegistersInit
  /\ IdleRead
  /\ pc = "listen"
  /\ event = NoEvent
  /\ resetSignal = FALSE

-------------------------------------------------------------------------------
(* Mutant of Listening: the driver is polled before the signal. *)
M_Listening == pc = "listen"

(* The arms of the select in task.  The signal is polled before the driver, *)
(* so a command is taken only when no reset is requested.                   *)
Listening == pc = "listen" /\ ~resetSignal

HandleReset ==
  /\ pc = "listen"
  /\ resetSignal
  /\ resetSignal' = FALSE
  /\ Record("Reset", pointer, 0, 0, 0, <<>>)
  /\ UNCHANGED <<streamVars, regVars, readVars, pc>>

WriteEmpty ==
  /\ Listening
  /\ <<>> \in Messages
  /\ Record("Write", pointer, 0, 0, 0, <<>>)
  /\ UNCHANGED <<streamVars, regVars, readVars, pc, resetSignal>>

Write(m) ==
  /\ Listening
  /\ m # <<>>
  /\ WritePayload(Head(m), Tail(m))
  /\ Record("Write", Head(m), Len(m) - 1,
            Cardinality(StoredAt(Head(m), Tail(m))), 0, Tail(m))
  /\ UNCHANGED <<streamVars, readVars, pc, resetSignal>>

(* serve_read, up to its loop. *)
ServeRead(k, p) ==
  /\ pc' = "fill"
  /\ kind' = k
  /\ start' = p
  /\ event' = NoEvent
  /\ UNCHANGED <<streamVars, chunk, sent, total, preview, wire, resetSignal>>

WriteRead(m) ==
  /\ Listening
  /\ IF m = <<>> THEN UNCHANGED regVars ELSE WritePayload(Head(m), Tail(m))
  /\ ServeRead("WriteRead", pointer')

Read ==
  /\ Listening
  /\ ServeRead("Read", pointer)
  /\ UNCHANGED regVars

IsGeneralCallReset(m) == m # <<>> /\ Head(m) = GeneralCallReset

GeneralCall(m) ==
  /\ Listening
  /\ IF IsGeneralCallReset(m) THEN ResetNonCsvToDefaults ELSE UNCHANGED regVars
  /\ Record("GeneralCall", pointer', Len(m), IF IsGeneralCallReset(m) THEN 1 ELSE 0, 0, m)
  /\ UNCHANGED <<streamVars, readVars, pc, resetSignal>>

ListenError ==
  /\ Listening
  /\ Record("ListenError", pointer, 0, 0, I2cError, <<>>)
  /\ UNCHANGED <<streamVars, regVars, readVars, pc, resetSignal>>

-------------------------------------------------------------------------------
(* serve_read's loop.  read_into: one byte of the chunk per step. *)
ReadInto(value, effect) ==
  /\ pc = "fill"
  /\ Len(chunk) < ReadChunk
  /\ chunk' = Append(chunk, [value |-> value, effect |-> effect])
  /\ pointer' = Advance(pointer, 1)
  /\ event' = NoEvent
  /\ UNCHANGED <<regs, kind, start, sent, total, preview, wire, pc, resetSignal>>

ReadPlain ==
  /\ pointer \notin CsvAddr
  /\ ReadInto(regs[pointer], NoEffect)
  /\ UNCHANGED streamVars

ReadEmbedded ==
  /\ pointer \in EmbeddedAddr
  /\ ReadInto(EmbeddedValue(pointer), EmbeddedAdvance(pointer))
  /\ AdvanceCursor(pointer)

ReadHost(s) ==
  /\ StreamAddr[s] = pointer
  /\ PopByte(s)
  /\ ReadInto(Head(queue[s]), HostPop(s, Head(queue[s]), last[s]))

ReadUnderrun(s) ==
  /\ StreamAddr[s] = pointer
  /\ CountUnderrun(s)
  /\ ReadInto(UnderrunValue(s, regs[pointer]), HostUnderrun(s))

(* Mutant of PreviewRoom: what the preview holds already is not counted. *)
M_PreviewRoom == PreviewBytes

PreviewRoom == PreviewBytes - Len(preview)

(* The chunk is filled: note it and hand it to the driver. *)
Offer ==
  /\ pc = "fill"
  /\ Len(chunk) = ReadChunk
  /\ pc' = "respond"
  /\ preview' = preview \o Prefix(Values(chunk), PreviewRoom)
  /\ total' = total + ReadChunk
  /\ event' = NoEvent
  /\ UNCHANGED <<streamVars, regVars, kind, start, chunk, sent, wire, resetSignal>>

(* The master clocks out one more byte of the chunk. *)
MasterTakes ==
  /\ pc = "respond"
  /\ sent < ReadChunk
  /\ sent' = sent + 1
  /\ wire' = Append(wire, chunk[sent'].value)
  /\ event' = NoEvent
  /\ UNCHANGED <<streamVars, regVars, kind, start, chunk, total, preview, pc, resetSignal>>

(* ReadStatus::NeedMoreBytes *)
NeedMoreBytes ==
  /\ pc = "respond"
  /\ sent = ReadChunk
  /\ total + ReadChunk <= MaxRead
  /\ pc' = "fill"
  /\ chunk' = <<>>
  /\ sent' = 0
  /\ event' = NoEvent
  /\ UNCHANGED <<streamVars, regVars, kind, start, total, preview, wire, resetSignal>>

(* serve_read returns. *)
Return ==
  /\ pc' = "listen"
  /\ kind' = "None"
  /\ start' = 0
  /\ chunk' = <<>>
  /\ sent' = 0
  /\ total' = 0
  /\ preview' = <<>>
  /\ wire' = <<>>

(* ReadStatus::Done *)
Done ==
  /\ pc = "respond"
  /\ sent = ReadChunk
  /\ Record(kind, start, total, 0, 0, preview)
  /\ Return
  /\ UNCHANGED <<streamVars, regVars, resetSignal>>

Unread == ReadChunk - sent

(* ReadStatus::LeftoverBytes, with rollback_unread up to its loop. *)
LeftoverBytes ==
  /\ pc = "respond"
  /\ Unread > 0
  /\ pc' = "rollback"
  /\ pointer' = Retreat(pointer, Unread)
  /\ event' = NoEvent
  /\ UNCHANGED <<streamVars, regs, readVars, resetSignal>>

(* The loop of rollback_unread: the effects of the unread bytes, newest first. *)
UndoRead ==
  /\ pc = "rollback"
  /\ Len(chunk) > sent
  /\ RollbackEffect(chunk[Len(chunk)].effect)
  /\ chunk' = SubSeq(chunk, 1, Len(chunk) - 1)
  /\ event' = NoEvent
  /\ UNCHANGED <<regVars, kind, start, sent, total, preview, wire, pc, resetSignal>>

(* Mutant of ReadPreview: the preview keeps the bytes nobody read. *)
M_ReadPreview(realLen) == preview

ReadPreview(realLen) == Prefix(preview, realLen)

RecordLeftover ==
  /\ pc = "rollback"
  /\ Len(chunk) = sent
  /\ Record(kind, start, total - Unread, 1, Unread, ReadPreview(total - Unread))
  /\ Return
  /\ UNCHANGED <<streamVars, regVars, resetSignal>>

(* respond_to_read fails: nothing is rolled back. *)
ReadError ==
  /\ pc = "respond"
  /\ Record("ReadError", start, total, 0, I2cError, preview)
  /\ Return
  /\ UNCHANGED <<streamVars, regVars, resetSignal>>

-------------------------------------------------------------------------------
(* The tasks of usb_stream.rs and usb_cli.rs, as far as they touch this state. *)
OtherTaskRuns ==
  /\ pc \in {"listen", "respond"}
  /\ event' = NoEvent
  /\ UNCHANGED <<regVars, readVars, pc>>

HostFeed(s, data) ==
  /\ Len(queue[s]) + Len(data) <= FeedLimit
  /\ FeedStream(s, data)
  /\ OtherTaskRuns
  /\ UNCHANGED resetSignal

HostReset ==
  /\ HostMayReset
  /\ ResetAll
  /\ OtherTaskRuns
  /\ UNCHANGED resetSignal

(* request_reset: a signal already pending is overwritten. *)
RequestReset ==
  /\ resetSignal' = TRUE
  /\ OtherTaskRuns
  /\ UNCHANGED streamVars

-------------------------------------------------------------------------------
Command ==
  \/ WriteEmpty
  \/ \E m \in Messages : Write(m) \/ WriteRead(m) \/ GeneralCall(m)
  \/ Read
  \/ ListenError

Fill ==
  \/ ReadPlain
  \/ ReadEmbedded
  \/ \E s \in StreamId : ReadHost(s) \/ ReadUnderrun(s)
  \/ Offer

EndOfRead == Done \/ LeftoverBytes \/ ReadError

Rollback == UndoRead \/ RecordLeftover

Host ==
  \/ \E s \in StreamId, data \in FeedData : HostFeed(s, data)
  \/ HostReset

Next ==
  \/ HandleReset
  \/ Command
  \/ Fill
  \/ MasterTakes
  \/ NeedMoreBytes
  \/ EndOfRead
  \/ Rollback
  \/ Host
  \/ RequestReset

Spec == Init /\ [][Next]_vars

(* The executor runs the I2C task whenever it is ready, and the master ends  *)
(* every read; how long it reads is its own choice, hence strong fairness.  *)
TaskFairness == WF_vars(HandleReset \/ Fill \/ Rollback)
FirmwareSpec == Spec /\ TaskFairness
FairSpec == FirmwareSpec /\ SF_vars(EndOfRead)

===============================================================================
