------------------------------ MODULE I2cProperties ------------------------------
(***************************************************************************)
(* What is checked, and in I2cServiceProofs proved, of I2cService.         *)
(***************************************************************************)
EXTENDS I2cService, SequencesExt

ChunkInFlight == SubSeq(chunk, sent + 1, Len(chunk))

ChunkEntry == [value : Byte, effect : ReadEffect]

TypeOK ==
  /\ StreamsTypeOK
  /\ RegistersTypeOK
  /\ pc \in {"listen", "fill", "respond", "rollback"}
  /\ kind \in {"None", "Read", "WriteRead"}
  /\ start \in Byte
  /\ chunk \in Seq(ChunkEntry)
  /\ Len(chunk) <= ReadChunk
  /\ sent \in 0 .. ReadChunk
  /\ total \in Nat
  /\ preview \in Seq(Byte)
  /\ wire \in Seq(Byte)
  /\ resetSignal \in BOOLEAN

(* How far a read has got: what the firmware counts against what went over   *)
(* the bus, at each await of serve_read.                                     *)
ReadProgress ==
  /\ pc = "listen" => IdleRead
  /\ pc = "fill" => sent = 0 /\ total = Len(wire)
  /\ pc = "respond" => Len(chunk) = ReadChunk /\ total = Len(wire) + ReadChunk - sent
  /\ pc = "rollback" =>
       sent < ReadChunk /\ sent <= Len(chunk) /\ total = Len(wire) + ReadChunk - sent

(* The preview is a prefix of what the master has taken, continued by what   *)
(* it is being offered.                                                      *)
PreviewTracks ==
  /\ Len(preview) = Least(PreviewBytes, total)
  /\ \A i \in 1 .. Len(preview) : i <= Len(wire) => preview[i] = wire[i]
  /\ pc = "respond" =>
       \A i \in 1 .. Len(preview) :
         i > Len(wire) => preview[i] = chunk[sent + (i - Len(wire))].value

(* No write reaches a register that is not writable: those backed by a CSV   *)
(* file, and those not declared, keep their power-on value.                  *)
ReadOnlyKept == \A a \in Byte \ Writable : regs[a] = PowerOnRegs[a]

(* The firmware's books agree with the bus: the strengthening with which the *)
(* properties below are inductive.                                           *)
ReadAccounting == ReadProgress /\ PreviewTracks /\ ReadOnlyKept

(* Reading ahead never costs the master its place: while the read goes on    *)
(* the pointer is ahead by exactly the bytes read and not taken, and once    *)
(* left-over bytes are reported it is at the byte after the last one the     *)
(* master took (regfile.rs 68-94 against what went over the bus).            *)
PointerFollowsMaster ==
  /\ pc \in {"fill", "respond"} =>
       pointer = Advance(start, Len(wire) + Len(chunk) - sent)
  /\ pc = "rollback" => pointer = Advance(start, Len(wire))

(* The event a read logs is what the master got: its register, its number   *)
(* of bytes modulo 2^16 and its first bytes, although the firmware never sees  *)
(* the bus and computes them from what it offered (i2c_service.rs 111-143).  *)
(* Bytes that were left over are cut off (lines 131-134), against the        *)
(* comment on them: see UnreadIsLogged.                                      *)
ReadLogTruthful ==
  [][event'.kind \in {"Read", "WriteRead"} =>
       /\ event'.pointer = start
       /\ event'.len = Len(wire) % LenMod
       /\ event'.data = Prefix(wire, Least(PreviewBytes, DataPreviewBytes))]_vars

(* "The unread data in the chunk is shown in payload" (the comment at        *)
(* i2c_service.rs 125): when a read ends with bytes left over, its event     *)
(* shows each of them that the preview had room for.                         *)
UnreadIsLogged ==
  [][RecordLeftover =>
       \A i \in Len(wire) + 1 .. Least(Len(preview), DataPreviewBytes) :
         \E j \in DOMAIN event'.data : event'.data[j] = preview[i]]_vars

(* The reset general call brings every register back to its power-on value, *)
(* although it skips the registers backed by a CSV file: no sequence of      *)
(* writes changes those (regfile.rs 37-66).                                  *)
GeneralCallRestoresPowerOn ==
  [][event'.kind = "GeneralCall" /\ event'.status = 1 =>
       regs' = PowerOnRegs /\ pointer' = 0]_vars

(* The bytes of the chunk that were popped from stream s and that the master *)
(* has not taken.                                                            *)
PopsInFlight(s) == {i \in sent + 1 .. Len(chunk) : IsPopOf(chunk[i].effect, s)}

(* A host that stops feeding a stream at FeedLimit leaves room for the bytes *)
(* in flight, whenever it feeds: they fit back into the queue all together   *)
(* (csv_streamer/src/main.rs 161-233 keeps such a limit).                    *)
RoomForRollback ==
  \A s \in StreamId :
    Len(queue[s]) + Cardinality(PopsInFlight(s)) <= FeedLimit + ReadChunk

(* Rolling back a byte popped from a host stream puts the byte back at the   *)
(* front of the queue: the room it left is still there, whatever the host    *)
(* fed while the byte was offered (streams.rs 127-139, 274-288).             *)
RollbackRestores ==
  [][UndoRead =>
       \A s \in StreamId :
         LET e == chunk[Len(chunk)].effect
         IN IsPopOf(e, s) => queue'[s] = <<e.value>> \o queue[s]]_vars

(* reset_i2c resets the I2C peripheral (usb_cli.rs 79): a requested reset    *)
(* is always carried out.                                                    *)
ResetServed == resetSignal ~> event.kind = "Reset"

-------------------------------------------------------------------------------
(* The state of the contract: the bytes in flight have not been read yet.    *)
PoppedByte(e, s) == IF IsPopOf(e.effect, s) THEN <<e.value>> ELSE <<>>

Popped(c, s) == FlattenSeq([i \in DOMAIN c |-> PoppedByte(c[i], s)])

Pending(s) == Popped(ChunkInFlight, s) \o queue[s]

Latest(s) ==
  IF PopsInFlight(s) = {} THEN last[s]
  ELSE chunk[CHOOSE i \in PopsInFlight(s) : \A j \in PopsInFlight(s) : i <= j].effect.prev

Position(a) ==
  LET ahead == {i \in sent + 1 .. Len(chunk) : chunk[i].effect = EmbeddedAdvance(a)}
  IN (cursor[a] - Cardinality(ahead)) % Len(EmbeddedData[a])

Contract == INSTANCE StreamContract WITH
  pending <- [s \in StreamId |-> Pending(s)],
  latest <- [s \in StreamId |-> Latest(s)],
  position <- [a \in EmbeddedAddr |-> Position(a)],
  pointer <- IF pc = "rollback" THEN pointer ELSE Retreat(pointer, Len(ChunkInFlight)),
  reading <- pc # "listen"

(* Reading ahead is invisible: with a host that leaves room for the bytes in *)
(* flight the firmware is the device of StreamContract, in which a fed byte  *)
(* reaches the master once, in order, and a read ends without side effects   *)
(* on what the master has not taken (i2c_service.rs 96-158).                 *)
ReadsAreExact == Contract!Spec

===============================================================================
