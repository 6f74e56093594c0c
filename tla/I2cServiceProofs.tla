---------------------------- MODULE I2cServiceProofs ----------------------------
(***************************************************************************)
(* Type correctness and the safety properties of I2cService, for every      *)
(* register map, chunk size, buffer capacity, set of messages and set of    *)
(* feeds that satisfies its assumptions.  Each invariant is proved from      *)
(* TypeOK and ReadProgress: what serve_read counts is what the master took;  *)
(* in the end, from all of them and from what is known of the bytes in       *)
(* flight, that the service implements StreamContract.                       *)
(***************************************************************************)
EXTENDS I2cProperties, DeviceProofs, DataLemmas

-------------------------------------------------------------------------------
(* The register pointer stays a byte wherever it moves. *)
LEMMA PointerIsByte ==
  ASSUME NEW p \in Byte, NEW n \in Int
  PROVE  Advance(p, n) \in Byte /\ Retreat(p, n) \in Byte
BY RegisterAssumption DEF Advance, Retreat

(* write_payload keeps the registers bytes. *)
LEMMA WritePayloadType ==
  ASSUME RegistersTypeOK, NEW p \in Byte, NEW payload \in Seq(Byte),
         WritePayload(p, payload)
  PROVE  RegistersTypeOK'
<1>1. Len(payload) \in Nat /\ \A i \in 1 .. Len(payload) : payload[i] \in Byte
  BY ElementOfSeq, LenProperties
<1>2. pointer' \in Byte
  BY <1>1, PointerIsByte DEF WritePayload
<1>3. \A a \in Byte : regs'[a] \in Byte
  BY <1>1 DEF WritePayload, StoredAt, RegistersTypeOK
<1> QED
  BY <1>2, <1>3 DEF WritePayload, RegistersTypeOK

(* A message's first byte addresses a register, the rest is the payload. *)
LEMMA MessageParts ==
  ASSUME NEW m \in Messages, m # <<>>
  PROVE  Head(m) \in Byte /\ Tail(m) \in Seq(Byte)
<1>1. m \in Seq(Byte)
  BY I2cAssumption
<1> QED
  BY <1>1, HeadTailProperties

(* A prefix of a sequence over S is one. *)
LEMMA PrefixType ==
  ASSUME NEW S, NEW q \in Seq(S), NEW n \in Int
  PROVE  Prefix(q, n) \in Seq(S)
<1>1. Len(q) \in Nat /\ \A i \in 1 .. Len(q) : q[i] \in S
  BY ElementOfSeq, LenProperties
<1>2. Least(n, Len(q)) \in Int /\ Least(n, Len(q)) <= Len(q)
  BY <1>1 DEF Least
<1>3. \A i \in 1 .. Least(n, Len(q)) : q[i] \in S
  BY <1>1, <1>2
<1> QED
  BY <1>2, <1>3, SubSeqProperties DEF Prefix

LEMMA ValuesType ==
  ASSUME NEW c \in Seq(ChunkEntry)
  PROVE  Values(c) \in Seq(Byte)
<1>1. Len(c) \in Nat /\ \A i \in 1 .. Len(c) : c[i] \in ChunkEntry
  BY ElementOfSeq, LenProperties
<1>2. \A i \in 1 .. Len(c) : c[i].value \in Byte
  BY <1>1 DEF ChunkEntry
<1> QED
  BY <1>1, <1>2, IsASeq DEF Values

(* A chunk without its newest entry. *)
LEMMA ShorterChunk ==
  ASSUME NEW c \in Seq(ChunkEntry), Len(c) > 0
  PROVE  /\ c[Len(c)] \in ChunkEntry
         /\ SubSeq(c, 1, Len(c) - 1) \in Seq(ChunkEntry)
         /\ Len(SubSeq(c, 1, Len(c) - 1)) = Len(c) - 1
         /\ \A i \in 1 .. Len(c) - 1 : SubSeq(c, 1, Len(c) - 1)[i] = c[i]
<1>1. Len(c) \in Nat /\ \A i \in 1 .. Len(c) : c[i] \in ChunkEntry
  BY ElementOfSeq, LenProperties
<1>2. \A i \in 1 .. Len(c) - 1 : c[i] \in ChunkEntry
  BY <1>1
<1> DEFINE n == Len(c) - 1
<1>3. /\ SubSeq(c, 1, n) \in Seq(ChunkEntry)
      /\ Len(SubSeq(c, 1, n)) = IF 1 <= n THEN n - 1 + 1 ELSE 0
      /\ \A i \in 1 .. n - 1 + 1 : SubSeq(c, 1, n)[i] = c[1 + i - 1]
  <2>1. n \in Int /\ 1 \in Int
    BY <1>1
  <2> HIDE DEF n
  <2> QED
    BY <1>2, <2>1, SubSeqProperties DEF n
<1>4. n \in Nat /\ n - 1 + 1 = n
  BY <1>1
<1>5. Len(SubSeq(c, 1, n)) = n
  BY <1>3, <1>4
<1>6. \A i \in 1 .. n : SubSeq(c, 1, n)[i] = c[i]
  BY <1>3, <1>4
<1>7. c[Len(c)] \in ChunkEntry
  BY <1>1
<1> QED
  BY <1>3, <1>5, <1>6, <1>7

(* The next byte the master takes is a byte. *)
LEMMA TakenByte ==
  ASSUME NEW c \in Seq(ChunkEntry), NEW k \in 1 .. Len(c)
  PROVE  c[k].value \in Byte
<1>1. c[k] \in ChunkEntry
  BY ElementOfSeq
<1> QED
  BY <1>1 DEF ChunkEntry

-------------------------------------------------------------------------------
(* Type correctness.  First, the values of serve_read's variables between reads. *)
LEMMA IdleValues ==
  /\ 0 \in Byte /\ 0 \in 0 .. ReadChunk
  /\ <<>> \in Seq(ChunkEntry) /\ <<>> \in Seq(Byte)
  /\ Len(<<>>) = 0 /\ 0 <= ReadChunk
BY RegisterAssumption, I2cAssumption

LEMMA TypeInit == Init => TypeOK
<1> SUFFICES ASSUME Init PROVE TypeOK
  OBVIOUS
<1>1. StreamsTypeOK
  BY StreamsInitType DEF Init
<1>2. RegistersTypeOK
  BY RegisterAssumption DEF Init, RegistersInit, RegistersTypeOK, PowerOnRegs
<1> QED
  BY <1>1, <1>2, IdleValues DEF Init, IdleRead, TypeOK

(* Return leaves the variables of serve_read at their initial values. *)
LEMMA ReturnType ==
  ASSUME TypeOK, Return, UNCHANGED <<streamVars, regVars, resetSignal>>
  PROVE  TypeOK'
<1>1. StreamsTypeOK'
  BY StreamsUnchanged DEF TypeOK
<1>2. RegistersTypeOK'
  BY DEF TypeOK, RegistersTypeOK, regVars
<1> QED
  BY <1>1, <1>2, IdleValues DEF TypeOK, Return

LEMMA ReadIntoType ==
  ASSUME TypeOK, StreamsTypeOK', NEW v \in Byte, NEW e \in ReadEffect, ReadInto(v, e)
  PROVE  TypeOK'
<1>1. [value |-> v, effect |-> e] \in ChunkEntry
  BY DEF ChunkEntry
<1>2. chunk' \in Seq(ChunkEntry) /\ Len(chunk') = Len(chunk) + 1
  BY <1>1, AppendProperties DEF TypeOK, ReadInto
<1>3. Len(chunk) \in Nat /\ Len(chunk') <= ReadChunk
  BY <1>2, I2cAssumption, LenProperties DEF TypeOK, ReadInto
<1>4. RegistersTypeOK'
  BY PointerIsByte DEF TypeOK, RegistersTypeOK, ReadInto
<1> QED
  BY <1>2, <1>3, <1>4 DEF TypeOK, ReadInto

LEMMA TypeStep == TypeOK /\ ReadProgress /\ [Next]_vars => TypeOK'
<1> SUFFICES ASSUME TypeOK, ReadProgress, [Next]_vars PROVE TypeOK'
  OBVIOUS
<1>0. /\ StreamsTypeOK /\ RegistersTypeOK
      /\ pointer \in Byte /\ regs \in [Byte -> Byte]
  BY DEF TypeOK, RegistersTypeOK
<1>1. CASE UNCHANGED <<regVars, readVars, pc>> /\ resetSignal' \in BOOLEAN /\ StreamsTypeOK'
  BY <1>1 DEF TypeOK, RegistersTypeOK, regVars, readVars
<1>2. CASE HandleReset
  BY <1>0, <1>1, <1>2, StreamsUnchanged DEF HandleReset
<1>3. CASE WriteEmpty
  BY <1>0, <1>1, <1>3, StreamsUnchanged DEF WriteEmpty, TypeOK
<1>4. ASSUME NEW m \in Messages, Write(m) PROVE TypeOK'
  <2>1. RegistersTypeOK'
    BY <1>0, <1>4, MessageParts, WritePayloadType DEF Write
  <2>2. StreamsTypeOK'
    BY <1>0, <1>4, StreamsUnchanged DEF Write
  <2> QED
    BY <1>4, <2>1, <2>2 DEF Write, TypeOK, readVars
<1>5. ASSUME NEW m \in Messages, WriteRead(m) PROVE TypeOK'
  <2>1. RegistersTypeOK'
    BY <1>0, <1>5, MessageParts, WritePayloadType DEF WriteRead, RegistersTypeOK, regVars
  <2>2. StreamsTypeOK'
    BY <1>0, <1>5, StreamsUnchanged DEF WriteRead, ServeRead
  <2>3. start' \in Byte
    BY <1>5, <2>1 DEF WriteRead, ServeRead, RegistersTypeOK
  <2> QED
    BY <1>5, <2>1, <2>2, <2>3 DEF WriteRead, ServeRead, TypeOK
<1>6. ASSUME NEW m \in Messages, GeneralCall(m) PROVE TypeOK'
  <2>1. RegistersTypeOK'
    <3>1. CASE IsGeneralCallReset(m)
      <4>1. \A a \in Registers : Default[a] \in Byte
        BY RegisterAssumption
      <4>2. ResetNonCsvToDefaults
        BY <1>6, <3>1 DEF GeneralCall
      <4>3. \A a \in Byte : regs'[a] \in Byte
        BY <1>0, <4>1, <4>2 DEF ResetNonCsvToDefaults
      <4> QED
        BY <4>2, <4>3, RegisterAssumption DEF ResetNonCsvToDefaults, RegistersTypeOK
    <3>2. CASE ~IsGeneralCallReset(m)
      BY <1>0, <1>6, <3>2 DEF GeneralCall, RegistersTypeOK, regVars
    <3> QED
      BY <3>1, <3>2
  <2>2. StreamsTypeOK'
    BY <1>0, <1>6, StreamsUnchanged DEF GeneralCall
  <2> QED
    BY <1>6, <2>1, <2>2 DEF GeneralCall, TypeOK, readVars
<1>7. CASE Read
  <2>1. StreamsTypeOK'
    BY <1>0, <1>7, StreamsUnchanged DEF Read, ServeRead
  <2> QED
    BY <1>0, <1>7, <2>1 DEF Read, ServeRead, TypeOK, RegistersTypeOK, regVars
<1>8. CASE ListenError
  BY <1>0, <1>1, <1>8, StreamsUnchanged DEF ListenError, TypeOK
<1>9. CASE ReadPlain
  <2>1. regs[pointer] \in Byte /\ NoEffect \in ReadEffect
    BY <1>0 DEF ReadEffect
  <2>2. StreamsTypeOK'
    BY <1>0, <1>9, StreamsUnchanged DEF ReadPlain
  <2> QED
    BY <1>9, <2>1, <2>2, ReadIntoType DEF ReadPlain
<1>10. CASE ReadEmbedded
  <2>1. pointer \in EmbeddedAddr
    BY <1>10 DEF ReadEmbedded
  <2>2. EmbeddedAdvance(pointer) \in ReadEffect
    BY <2>1 DEF EmbeddedAdvance, ReadEffect
  <2>3. EmbeddedValue(pointer) \in Byte
    BY <1>0, <2>1, EmbeddedValueType
  <2>4. StreamsTypeOK'
    BY <1>0, <1>10, <2>1, AdvanceCursorType DEF ReadEmbedded
  <2> QED
    BY <1>10, <2>2, <2>3, <2>4, ReadIntoType DEF ReadEmbedded
<1>11. ASSUME NEW s \in StreamId, ReadHost(s) PROVE TypeOK'
  <2>1. StreamsTypeOK' /\ Head(queue[s]) \in Byte
    BY <1>0, <1>11, PopByteType DEF ReadHost
  <2>2. HostPop(s, Head(queue[s]), last[s]) \in ReadEffect
    BY <1>0, <2>1 DEF HostPop, ReadEffect, StreamsTypeOK
  <2> QED
    BY <1>11, <2>1, <2>2, ReadIntoType DEF ReadHost
<1>12. ASSUME NEW s \in StreamId, ReadUnderrun(s) PROVE TypeOK'
  <2>1. StreamsTypeOK'
    BY <1>0, <1>12, CountUnderrunType DEF ReadUnderrun
  <2>2. UnderrunValue(s, regs[pointer]) \in Byte
    BY <1>0 DEF UnderrunValue, StreamsTypeOK
  <2>3. HostUnderrun(s) \in ReadEffect
    BY DEF HostUnderrun, ReadEffect
  <2> QED
    BY <1>12, <2>1, <2>2, <2>3, ReadIntoType DEF ReadUnderrun
<1>13. CASE Offer
  <2>1. PreviewBytes - Len(preview) \in Int
    BY I2cAssumption, LenProperties DEF TypeOK
  <2>2. preview' \in Seq(Byte)
    BY <1>13, <2>1, ValuesType, PrefixType, ConcatProperties DEF Offer, PreviewRoom, TypeOK
  <2>3. StreamsTypeOK'
    BY <1>0, <1>13, StreamsUnchanged DEF Offer
  <2>4. total' \in Nat
    BY <1>13, I2cAssumption DEF Offer, TypeOK
  <2> QED
    BY <1>0, <1>13, <2>2, <2>3, <2>4 DEF Offer, TypeOK, RegistersTypeOK, regVars
<1>14. CASE MasterTakes
  <2>1. StreamsTypeOK'
    BY <1>0, <1>14, StreamsUnchanged DEF MasterTakes
  <2>2. sent' \in 0 .. ReadChunk
    BY <1>14, I2cAssumption DEF MasterTakes, TypeOK
  <2>3. chunk[sent'].value \in Byte
    <3>1. sent' \in 1 .. Len(chunk)
      BY <1>14, I2cAssumption DEF MasterTakes, TypeOK, ReadProgress
    <3> QED
      BY <3>1, TakenByte DEF TypeOK
  <2>4. wire' \in Seq(Byte)
    BY <1>14, <2>3, AppendProperties DEF MasterTakes, TypeOK
  <2> QED
    BY <1>0, <1>14, <2>1, <2>2, <2>4 DEF MasterTakes, TypeOK, RegistersTypeOK, regVars
<1>15. CASE NeedMoreBytes
  <2>1. StreamsTypeOK'
    BY <1>0, <1>15, StreamsUnchanged DEF NeedMoreBytes
  <2> QED
    BY <1>0, <1>15, <2>1, I2cAssumption, EmptySeq
    DEF NeedMoreBytes, TypeOK, RegistersTypeOK, regVars
<1>16. CASE Done
  BY <1>16, ReturnType DEF Done
<1>17. CASE LeftoverBytes
  <2>1. StreamsTypeOK'
    BY <1>0, <1>17, StreamsUnchanged DEF LeftoverBytes
  <2>2. pointer' \in Byte
    BY <1>0, <1>17, PointerIsByte, I2cAssumption DEF LeftoverBytes, Unread, TypeOK
  <2> QED
    BY <1>0, <1>17, <2>1, <2>2 DEF LeftoverBytes, TypeOK, RegistersTypeOK, readVars
<1>18. CASE ReadError
  BY <1>18, ReturnType DEF ReadError
<1>19. CASE UndoRead
  <2>1. chunk \in Seq(ChunkEntry) /\ Len(chunk) \in Nat /\ Len(chunk) > 0
    BY <1>19, LenProperties DEF UndoRead, TypeOK
  <2>2. /\ chunk[Len(chunk)].effect \in ReadEffect
        /\ chunk' \in Seq(ChunkEntry)
        /\ Len(chunk') = Len(chunk) - 1
    BY <1>19, <2>1, ShorterChunk DEF UndoRead, ChunkEntry
  <2>3. StreamsTypeOK'
    BY <1>0, <1>19, <2>2, RollbackEffectType DEF UndoRead
  <2> QED
    BY <1>0, <1>19, <2>1, <2>2, <2>3, I2cAssumption
    DEF UndoRead, TypeOK, RegistersTypeOK, regVars
<1>20. CASE RecordLeftover
  BY <1>20, ReturnType DEF RecordLeftover
<1>21. ASSUME NEW s \in StreamId, NEW data \in FeedData, HostFeed(s, data) PROVE TypeOK'
  <2>1. StreamsTypeOK'
    BY <1>0, <1>21, I2cAssumption, FeedStreamType DEF HostFeed
  <2> QED
    BY <1>1, <1>21, <2>1 DEF HostFeed, OtherTaskRuns, TypeOK
<1>22. CASE HostReset
  BY <1>1, <1>22, ResetAllType DEF HostReset, OtherTaskRuns, TypeOK
<1>23. CASE RequestReset
  BY <1>0, <1>1, <1>23, StreamsUnchanged DEF RequestReset, OtherTaskRuns
<1>24. CASE UNCHANGED vars
  BY <1>0, <1>1, <1>24, StreamsUnchanged DEF vars, TypeOK
<1> QED
  BY <1>2, <1>3, <1>4, <1>5, <1>6, <1>7, <1>8, <1>9, <1>10, <1>11, <1>12, <1>13,
     <1>14, <1>15, <1>16, <1>17, <1>18, <1>19, <1>20, <1>21, <1>22, <1>23, <1>24
  DEF Next, Command, Fill, EndOfRead, Rollback, Host

(* What the firmware counts is what went over the bus. *)
LEMMA ProgressStep == TypeOK /\ ReadProgress /\ [Next]_vars => ReadProgress'
<1> SUFFICES ASSUME TypeOK, ReadProgress, [Next]_vars PROVE ReadProgress'
  OBVIOUS
<1> USE I2cAssumption
<1>0. /\ sent \in 0 .. ReadChunk /\ total \in Nat
      /\ wire \in Seq(Byte) /\ Len(wire) \in Nat
      /\ chunk \in Seq(ChunkEntry) /\ Len(chunk) \in Nat
  BY LenProperties DEF TypeOK
<1>1. CASE UNCHANGED <<readVars, pc>>
  BY <1>1 DEF ReadProgress, IdleRead, readVars
<1>2. CASE HandleReset \/ WriteEmpty \/ ListenError
  BY <1>1, <1>2 DEF HandleReset, WriteEmpty, ListenError
<1>3. ASSUME NEW m \in Messages, Write(m) \/ GeneralCall(m) PROVE ReadProgress'
  BY <1>1, <1>3 DEF Write, GeneralCall
<1>4. ASSUME NEW k, NEW p, Listening, ServeRead(k, p) PROVE ReadProgress'
  BY <1>4 DEF ServeRead, Listening, ReadProgress, IdleRead
<1>5. ASSUME NEW v, NEW e, ReadInto(v, e) PROVE ReadProgress'
  BY <1>5 DEF ReadInto, ReadProgress
<1>6. CASE Offer
  <2>1. /\ pc' = "respond" /\ chunk' = chunk /\ sent' = sent /\ wire' = wire
        /\ total' = total + ReadChunk /\ Len(chunk) = ReadChunk
        /\ sent = 0 /\ total = Len(wire)
    BY <1>6 DEF Offer, ReadProgress
  <2>2. total' = Len(wire') + ReadChunk - sent'
    BY <1>0, <2>1
  <2> QED
    BY <2>1, <2>2 DEF ReadProgress
<1>7. CASE MasterTakes
  <2>1. chunk[sent'].value \in Byte
    <3>1. sent' \in 1 .. Len(chunk)
      BY <1>0, <1>7 DEF MasterTakes, ReadProgress
    <3> QED
      BY <1>0, <3>1, TakenByte
  <2>2. Len(wire') = Len(wire) + 1
    BY <1>0, <1>7, <2>1, AppendProperties DEF MasterTakes
  <2> QED
    <3>1. /\ pc' = "respond" /\ chunk' = chunk /\ sent' = sent + 1 /\ total' = total
          /\ Len(chunk) = ReadChunk /\ total = Len(wire) + ReadChunk - sent
      BY <1>7 DEF MasterTakes, ReadProgress
    <3>2. total' = Len(wire') + ReadChunk - sent'
      BY <1>0, <2>2, <3>1
    <3> QED
      BY <3>1, <3>2 DEF ReadProgress
<1>8. CASE NeedMoreBytes
  BY <1>0, <1>8 DEF NeedMoreBytes, ReadProgress
<1>9. CASE Return
  BY <1>9 DEF Return, ReadProgress, IdleRead
<1>10. CASE LeftoverBytes
  BY <1>0, <1>10 DEF LeftoverBytes, Unread, ReadProgress, readVars
<1>11. CASE UndoRead
  <2>1. Len(chunk') = Len(chunk) - 1
    BY <1>0, <1>11, ShorterChunk DEF UndoRead
  <2> QED
    BY <1>0, <1>11, <2>1 DEF UndoRead, ReadProgress
<1>12. CASE OtherTaskRuns
  BY <1>1, <1>12 DEF OtherTaskRuns
<1>13. CASE UNCHANGED vars
  BY <1>1, <1>13 DEF vars
<1> QED
  BY <1>2, <1>3, <1>4, <1>5, <1>6, <1>7, <1>8, <1>9, <1>10, <1>11, <1>12, <1>13
  DEF Next, Command, WriteRead, Read, Fill, ReadPlain, ReadEmbedded, ReadHost, ReadUnderrun,
      EndOfRead, Done, ReadError, Rollback, RecordLeftover, Host, HostFeed, HostReset,
      RequestReset

(* The state of the firmware has its types, and serve_read's counts agree    *)
(* with what the master has taken, in every reachable state.                 *)
THEOREM TypeCorrect == Spec => [](TypeOK /\ ReadProgress)
<1>1. Init => TypeOK /\ ReadProgress
  <2>1. Init => ReadProgress
    BY DEF Init, ReadProgress
  <2> QED
    BY <2>1, TypeInit
<1>2. TypeOK /\ ReadProgress /\ [Next]_vars => TypeOK' /\ ReadProgress'
  BY TypeStep, ProgressStep
<1> QED
  BY <1>1, <1>2, PTL DEF Spec

-------------------------------------------------------------------------------
(* Registers that are not writable, and the reset general call. *)
LEMMA WritePayloadKeepsReadOnly ==
  ASSUME NEW p, NEW payload, WritePayload(p, payload)
  PROVE  \A a \in Byte \ Writable : regs'[a] = regs[a]
BY DEF WritePayload, StoredAt

(* The registers the reset skips are not writable. *)
LEMMA ResetRestores ==
  ASSUME ReadOnlyKept, ResetNonCsvToDefaults
  PROVE  regs' = PowerOnRegs
<1>1. \A a \in Byte :
        (IF a \in Registers \ CsvAddr THEN Default[a] ELSE regs[a]) =
          (IF a \in Registers THEN Default[a] ELSE DefaultFill)
  <2> TAKE a \in Byte
  <2>1. CASE a \in Registers \ CsvAddr
    BY <2>1
  <2>2. CASE a \notin Registers \ CsvAddr
    <3>1. a \notin Writable
      BY <2>2, RegisterAssumption
    <3>2. regs[a] = PowerOnRegs[a]
      BY <3>1 DEF ReadOnlyKept
    <3> QED
      BY <2>2, <3>2 DEF PowerOnRegs
  <2> QED
    BY <2>1, <2>2
<1> QED
  BY <1>1 DEF ResetNonCsvToDefaults, PowerOnRegs

LEMMA ReadOnlyStep == ReadOnlyKept /\ [Next]_vars => ReadOnlyKept'
<1> SUFFICES ASSUME ReadOnlyKept, [Next]_vars PROVE ReadOnlyKept'
  OBVIOUS
<1>1. CASE UNCHANGED regs
  BY <1>1 DEF ReadOnlyKept, PowerOnRegs
<1>2. ASSUME NEW p, NEW payload, WritePayload(p, payload) PROVE ReadOnlyKept'
  BY <1>2, WritePayloadKeepsReadOnly DEF ReadOnlyKept, PowerOnRegs
<1>3. CASE ResetNonCsvToDefaults
  <2>1. regs' = PowerOnRegs
    BY <1>3, ResetRestores
  <2> QED
    BY <2>1 DEF ReadOnlyKept, PowerOnRegs
<1>4. ASSUME NEW m \in Messages, Write(m) \/ WriteRead(m) \/ GeneralCall(m)
      PROVE  ReadOnlyKept'
  BY <1>1, <1>2, <1>3, <1>4 DEF Write, WriteRead, GeneralCall, regVars
<1>5. CASE WriteEmpty \/ Read \/ ListenError \/ HandleReset
  BY <1>1, <1>5 DEF WriteEmpty, Read, ListenError, HandleReset, regVars
<1>6. ASSUME NEW v, NEW e, ReadInto(v, e) PROVE ReadOnlyKept'
  BY <1>1, <1>6 DEF ReadInto
<1>7. CASE Offer \/ MasterTakes \/ NeedMoreBytes \/ EndOfRead \/ Rollback
  BY <1>1, <1>7
  DEF Offer, MasterTakes, NeedMoreBytes, EndOfRead, Done, LeftoverBytes, ReadError,
      Rollback, UndoRead, RecordLeftover, regVars
<1>8. CASE OtherTaskRuns \/ UNCHANGED vars
  BY <1>1, <1>8 DEF OtherTaskRuns, vars, regVars
<1> QED
  BY <1>4, <1>5, <1>6, <1>7, <1>8
  DEF Next, Command, Fill, ReadPlain, ReadEmbedded, ReadHost, ReadUnderrun, Host,
      HostFeed, HostReset, RequestReset

LEMMA ReadOnlyInit == Init => ReadOnlyKept
BY DEF Init, RegistersInit, ReadOnlyKept

(* Only a general call logs the kind "GeneralCall", and with status 1 only   *)
(* when it carried the reset command.                                        *)
LEMMA GeneralCallEvents ==
  ASSUME TypeOK, Next, event'.kind = "GeneralCall", event'.status = 1
  PROVE  ResetNonCsvToDefaults
<1> USE DEF Record, NoEvent
<1>1. ASSUME NEW m \in Messages, GeneralCall(m) PROVE ResetNonCsvToDefaults
  BY <1>1 DEF GeneralCall
<1>2. ASSUME NEW m \in Messages, Write(m) \/ WriteRead(m) PROVE FALSE
  BY <1>2 DEF Write, WriteRead, ServeRead
<1>3. CASE WriteEmpty \/ Read \/ ListenError \/ HandleReset
  BY <1>3 DEF WriteEmpty, Read, ServeRead, ListenError, HandleReset
<1>4. ASSUME NEW v, NEW e, ReadInto(v, e) PROVE FALSE
  BY <1>4 DEF ReadInto
<1>5. CASE Offer \/ MasterTakes \/ NeedMoreBytes \/ LeftoverBytes \/ UndoRead
  BY <1>5 DEF Offer, MasterTakes, NeedMoreBytes, LeftoverBytes, UndoRead
<1>6. CASE Done \/ ReadError \/ RecordLeftover
  BY <1>6 DEF Done, ReadError, RecordLeftover, TypeOK
<1>7. CASE OtherTaskRuns
  BY <1>7 DEF OtherTaskRuns
<1> QED
  BY <1>1, <1>2, <1>3, <1>4, <1>5, <1>6, <1>7
  DEF Next, Command, Fill, ReadPlain, ReadEmbedded, ReadHost, ReadUnderrun, EndOfRead,
      Rollback, Host, HostFeed, HostReset, RequestReset

(* The reset general call brings every register back to its power-on value   *)
(* and the pointer to 0, after any history of writes.                        *)
THEOREM GeneralCallCorrect == Spec => GeneralCallRestoresPowerOn
<1>1. ReadOnlyKept /\ TypeOK /\ [Next]_vars =>
        [event'.kind = "GeneralCall" /\ event'.status = 1 =>
           regs' = PowerOnRegs /\ pointer' = 0]_vars
  BY GeneralCallEvents, ResetRestores DEF ResetNonCsvToDefaults
<1>2. Spec => []ReadOnlyKept
  BY ReadOnlyInit, ReadOnlyStep, PTL DEF Spec
<1> QED
  BY <1>1, <1>2, TypeCorrect, PTL DEF Spec, GeneralCallRestoresPowerOn

-------------------------------------------------------------------------------
(* A step of the fill loop reads one typed byte into the chunk, or offers it. *)
LEMMA FillReads ==
  ASSUME TypeOK, Fill
  PROVE  Offer \/ \E v \in Byte, e \in ReadEffect : ReadInto(v, e)
<1>1. StreamsTypeOK /\ pointer \in Byte /\ regs[pointer] \in Byte
  BY DEF TypeOK, RegistersTypeOK
<1>2. CASE ReadPlain
  BY <1>1, <1>2 DEF ReadPlain, ReadEffect
<1>3. CASE ReadEmbedded
  <2>1. pointer \in EmbeddedAddr /\ ReadInto(EmbeddedValue(pointer), EmbeddedAdvance(pointer))
    BY <1>3 DEF ReadEmbedded
  <2>2. EmbeddedValue(pointer) \in Byte
    BY <1>1, <2>1, EmbeddedValueType
  <2>3. EmbeddedAdvance(pointer) \in ReadEffect
    BY <2>1 DEF EmbeddedAdvance, ReadEffect
  <2> QED
    BY <2>1, <2>2, <2>3
<1>4. ASSUME NEW s \in StreamId, ReadHost(s)
      PROVE  \E v \in Byte, e \in ReadEffect : ReadInto(v, e)
  <2>1. Head(queue[s]) \in Byte
    BY <1>1, <1>4, PopByteType DEF ReadHost
  <2>2. HostPop(s, Head(queue[s]), last[s]) \in ReadEffect
    BY <1>1, <2>1 DEF HostPop, ReadEffect, StreamsTypeOK
  <2> QED
    BY <1>4, <2>1, <2>2 DEF ReadHost
<1>5. ASSUME NEW s \in StreamId, ReadUnderrun(s)
      PROVE  \E v \in Byte, e \in ReadEffect : ReadInto(v, e)
  <2>1. UnderrunValue(s, regs[pointer]) \in Byte
    BY <1>1 DEF UnderrunValue, StreamsTypeOK
  <2>2. HostUnderrun(s) \in ReadEffect
    BY DEF HostUnderrun, ReadEffect
  <2> QED
    BY <1>5, <2>1, <2>2 DEF ReadUnderrun
<1> QED
  BY <1>2, <1>3, <1>4, <1>5 DEF Fill

-------------------------------------------------------------------------------
(* The pointer.  Moving it twice is moving it once by the sum. *)
LEMMA AdvanceAdds ==
  ASSUME NEW p \in Byte, NEW m \in Int, NEW n \in Int
  PROVE  /\ Advance(p, 0) = p
         /\ Advance(Advance(p, m), n) = Advance(p, m + n)
         /\ Retreat(Advance(p, m), n) = Advance(p, m - n)
<1>1. p \in Int /\ p \in 0 .. RegCount - 1 /\ RegCount \in Nat \ {0}
  BY RegisterAssumption
<1>2. p % RegCount = p
  <2>1. /\ p = (RegCount * (p \div RegCount)) + (p % RegCount)
        /\ p % RegCount \in 0 .. RegCount - 1
        /\ p \div RegCount \in Int
    BY <1>1, DivMod
  <2>2. (RegCount * 0) + p = (RegCount * (p \div RegCount)) + (p % RegCount)
    BY <1>1, <2>1
  <2> QED
    BY <1>1, <2>1, <2>2, ModUnique
<1> DEFINE a == p + m
<1> HIDE DEF a
<1>3. a \in Int /\ -n \in Int
  BY <1>1 DEF a
<1>4. /\ ((a % RegCount) + n) % RegCount = (a + n) % RegCount
      /\ ((a % RegCount) + (-n)) % RegCount = (a + (-n)) % RegCount
  BY <1>1, <1>3, ModPlus
<1>5. a % RegCount \in Int
  BY <1>1, <1>3, DivMod
<1>6. /\ (a % RegCount) + (-n) = (a % RegCount) - n
      /\ a + n = p + (m + n)
      /\ a + (-n) = p + (m - n)
      /\ p + 0 = p
  BY <1>1, <1>5 DEF a
<1> QED
  BY <1>2, <1>4, <1>6 DEF Advance, Retreat, a

LEMMA PointerStep ==
  TypeOK /\ ReadProgress /\ PointerFollowsMaster /\ [Next]_vars => PointerFollowsMaster'
<1> SUFFICES ASSUME TypeOK, ReadProgress, PointerFollowsMaster, [Next]_vars
             PROVE  PointerFollowsMaster'
  OBVIOUS
<1> DEFINE n == Len(wire) + Len(chunk) - sent
<1>0. /\ start \in Byte /\ pointer \in Byte /\ RegistersTypeOK'
      /\ sent \in Int /\ Len(wire) \in Int /\ Len(chunk) \in Int /\ ReadChunk \in Int
      /\ n \in Int
  BY TypeStep, LenProperties, I2cAssumption DEF TypeOK, RegistersTypeOK
<1>1. CASE UNCHANGED <<pointer, readVars, pc>>
  BY <1>1 DEF PointerFollowsMaster, readVars
<1>2. CASE pc' = "listen"
  BY <1>2 DEF PointerFollowsMaster
<1>3. ASSUME NEW k, NEW p, Listening, ServeRead(k, p), p = pointer' PROVE PointerFollowsMaster'
  <2>1. /\ pc' = "fill" /\ start' = pointer' /\ pointer' \in Byte
        /\ wire' = <<>> /\ chunk' = <<>> /\ sent' = 0
    BY <1>0, <1>3 DEF ServeRead, Listening, ReadProgress, IdleRead, RegistersTypeOK
  <2>2. Len(wire') + Len(chunk') - sent' = 0
    BY <2>1
  <2> QED
    BY <2>1, <2>2, AdvanceAdds DEF PointerFollowsMaster
<1>4. ASSUME NEW v \in Byte, NEW e \in ReadEffect, ReadInto(v, e) PROVE PointerFollowsMaster'
  <2>1. [value |-> v, effect |-> e] \in ChunkEntry
    BY DEF ChunkEntry
  <2>2. Len(chunk') = Len(chunk) + 1
    BY <1>4, <2>1, AppendProperties DEF ReadInto, TypeOK
  <2>3. /\ pc = "fill" /\ pc' = "fill" /\ wire' = wire /\ sent' = sent /\ start' = start
        /\ pointer' = Advance(pointer, 1)
        /\ pointer = Advance(start, n)
    BY <1>4 DEF ReadInto, PointerFollowsMaster
  <2>4. pointer' = Advance(start, n + 1)
    BY <1>0, <2>3, AdvanceAdds
  <2>5. Len(wire') + Len(chunk') - sent' = n + 1
    BY <1>0, <2>2, <2>3
  <2> QED
    BY <2>3, <2>4, <2>5 DEF PointerFollowsMaster
<1>5. CASE Offer
  BY <1>5 DEF Offer, PointerFollowsMaster, regVars
<1>6. CASE MasterTakes
  <2>1. sent + 1 \in 1 .. Len(chunk)
    BY <1>0, <1>6 DEF MasterTakes, TypeOK, ReadProgress
  <2>2. chunk[sent'].value \in Byte
    BY <1>6, <2>1, TakenByte DEF MasterTakes, TypeOK
  <2>3. Len(wire') = Len(wire) + 1
    BY <1>6, <2>2, AppendProperties DEF MasterTakes, TypeOK
  <2>4. /\ pc = "respond" /\ pc' = "respond" /\ chunk' = chunk /\ sent' = sent + 1
        /\ start' = start /\ pointer' = pointer
    BY <1>6 DEF MasterTakes, regVars
  <2>5. Len(wire') + Len(chunk') - sent' = n
    BY <1>0, <2>3, <2>4
  <2> QED
    BY <2>4, <2>5 DEF PointerFollowsMaster
<1>7. CASE NeedMoreBytes
  <2>1. /\ pc = "respond" /\ pc' = "fill" /\ chunk' = <<>> /\ sent' = 0 /\ wire' = wire
        /\ start' = start /\ pointer' = pointer /\ Len(chunk) = sent
    BY <1>7 DEF NeedMoreBytes, ReadProgress, regVars
  <2>2. Len(wire') + Len(chunk') - sent' = n
    BY <1>0, <2>1
  <2> QED
    BY <2>1, <2>2 DEF PointerFollowsMaster
<1>8. CASE LeftoverBytes
  <2>1. /\ pc = "respond" /\ pc' = "rollback" /\ wire' = wire /\ start' = start
        /\ pointer' = Retreat(pointer, ReadChunk - sent) /\ Len(chunk) = ReadChunk
        /\ pointer = Advance(start, n)
    BY <1>8 DEF LeftoverBytes, Unread, ReadProgress, PointerFollowsMaster, readVars
  <2>2. n - (ReadChunk - sent) = Len(wire) /\ ReadChunk - sent \in Int
    BY <1>0, <2>1
  <2>3. pointer' = Advance(start, Len(wire'))
    BY <1>0, <2>1, <2>2, AdvanceAdds
  <2> QED
    BY <2>1, <2>3 DEF PointerFollowsMaster
<1>9. CASE UndoRead
  BY <1>9 DEF UndoRead, PointerFollowsMaster, regVars
<1>10. CASE OtherTaskRuns
  BY <1>1, <1>10 DEF OtherTaskRuns, regVars
<1>11. CASE UNCHANGED vars
  BY <1>1, <1>11 DEF vars, regVars
<1>12. ASSUME NEW m \in Messages, Write(m) \/ GeneralCall(m) PROVE PointerFollowsMaster'
  BY <1>2, <1>12 DEF Write, GeneralCall, Listening
<1>13. CASE WriteEmpty \/ ListenError \/ HandleReset
  BY <1>2, <1>13 DEF WriteEmpty, ListenError, HandleReset, Listening
<1>14. CASE Done \/ ReadError \/ RecordLeftover
  BY <1>2, <1>14 DEF Done, ReadError, RecordLeftover, Return
<1>15. ASSUME NEW m \in Messages, WriteRead(m) PROVE PointerFollowsMaster'
  BY <1>3, <1>15 DEF WriteRead
<1>16. CASE Read
  BY <1>3, <1>16 DEF Read, regVars
<1>17. CASE Fill
  BY <1>4, <1>5, <1>17, FillReads
<1> QED
  BY <1>6, <1>7, <1>8, <1>9, <1>10, <1>11, <1>12, <1>13, <1>14, <1>15, <1>16, <1>17
  DEF Next, Command, EndOfRead, Rollback, Host, HostFeed, HostReset, RequestReset

LEMMA PointerInit == Init => PointerFollowsMaster
BY DEF Init, PointerFollowsMaster

(* The firmware's pointer and the master's place in its read agree. *)
THEOREM PointerCorrect == Spec => []PointerFollowsMaster
BY PointerInit, PointerStep, TypeCorrect, PTL DEF Spec

-------------------------------------------------------------------------------
(* The room a host leaves for the bytes in flight. *)
LEMMA IntervalSize ==
  ASSUME NEW a \in Int, NEW b \in Int
  PROVE  /\ IsFiniteSet(a .. b)
         /\ Cardinality(a .. b) = IF a > b THEN 0 ELSE b - a + 1
BY FS_Interval, Zenon

LEMMA PopsOfChunk ==
  ASSUME NEW c, NEW k \in Nat, NEW s, Len(c) \in Nat, Len(c) <= ReadChunk
  PROVE  /\ IsFiniteSet({i \in k + 1 .. Len(c) : IsPopOf(c[i].effect, s)})
         /\ Cardinality({i \in k + 1 .. Len(c) : IsPopOf(c[i].effect, s)}) \in 0 .. ReadChunk
<1> DEFINE first == k + 1
           top == Len(c)
           all == first .. top
           pops == {i \in all : IsPopOf(c[i].effect, s)}
<1>0. first \in Nat /\ first >= 1 /\ top \in Nat /\ top <= ReadChunk
  OBVIOUS
<1> HIDE DEF first, top
<1>1. first \in Int /\ top \in Int
  BY <1>0
<1>2. /\ IsFiniteSet(all)
      /\ Cardinality(all) = IF first > top THEN 0 ELSE top - first + 1
  BY <1>1, IntervalSize, Zenon
<1>3. Cardinality(all) \in 0 .. ReadChunk
  BY <1>0, <1>2, I2cAssumption
<1>4. pops \in SUBSET all
  OBVIOUS
<1> HIDE DEF pops, all
<1>5. IsFiniteSet(pops) /\ Cardinality(pops) <= Cardinality(all)
  BY <1>2, <1>4, FS_Subset
<1>6. Cardinality(pops) \in Nat
  BY <1>5, FS_CardinalityType
<1>7. IsFiniteSet(pops) /\ Cardinality(pops) \in 0 .. ReadChunk
  BY <1>3, <1>5, <1>6, I2cAssumption
<1> QED
  BY <1>7 DEF pops, all, first, top

LEMMA NoPops ==
  ASSUME NEW c, NEW k \in Nat, NEW s, Len(c) = 0
  PROVE  {i \in k + 1 .. Len(c) : IsPopOf(c[i].effect, s)} = {}
<1>1. k + 1 .. Len(c) = {}
  OBVIOUS
<1> QED
  BY <1>1

LEMMA ChunkPopsBounded ==
  ASSUME TypeOK, NEW s \in StreamId
  PROVE  /\ IsFiniteSet(PopsInFlight(s))
         /\ Cardinality(PopsInFlight(s)) \in 0 .. ReadChunk
<1>1. sent \in Nat /\ Len(chunk) \in Nat /\ Len(chunk) <= ReadChunk
  BY LenProperties, I2cAssumption DEF TypeOK
<1> QED
  BY <1>1, PopsOfChunk DEF PopsInFlight

LEMMA QueueLevel ==
  ASSUME TypeOK, NEW s \in StreamId
  PROVE  queue[s] \in Seq(Byte) /\ Len(queue[s]) \in Nat /\ Len(queue[s]) <= Capacity
BY LenProperties DEF TypeOK, StreamsTypeOK

(* Reading one more byte adds it to those in flight when it was popped. *)
LEMMA ReadIntoPops ==
  ASSUME TypeOK, ReadProgress, NEW v \in Byte, NEW e \in ReadEffect, ReadInto(v, e),
         NEW s \in StreamId
  PROVE  /\ PopsInFlight(s)' =
              IF IsPopOf(e, s) THEN PopsInFlight(s) \cup {Len(chunk) + 1} ELSE PopsInFlight(s)
         /\ Len(chunk) + 1 \notin PopsInFlight(s)
<1>1. /\ sent = 0 /\ sent' = sent /\ Len(chunk) \in Nat
      /\ chunk' = Append(chunk, [value |-> v, effect |-> e])
  BY LenProperties DEF ReadInto, ReadProgress, TypeOK
<1>2. [value |-> v, effect |-> e] \in ChunkEntry
  BY DEF ChunkEntry
<1>3. /\ Len(chunk') = Len(chunk) + 1
      /\ \A i \in 1 .. Len(chunk) : chunk'[i] = chunk[i]
      /\ chunk'[Len(chunk) + 1] = [value |-> v, effect |-> e]
  BY <1>1, <1>2, AppendProperties DEF TypeOK
<1>4. PopsInFlight(s)' = {i \in 1 .. Len(chunk) + 1 : IsPopOf(chunk'[i].effect, s)}
  BY <1>1, <1>3 DEF PopsInFlight, IsPopOf
<1>5. PopsInFlight(s) = {i \in 1 .. Len(chunk) : IsPopOf(chunk[i].effect, s)}
  BY <1>1 DEF PopsInFlight
<1>6. IsPopOf(chunk'[Len(chunk) + 1].effect, s) <=> IsPopOf(e, s)
  BY <1>3
<1>7. \A i \in 1 .. Len(chunk) :
        IsPopOf(chunk'[i].effect, s) <=> IsPopOf(chunk[i].effect, s)
  BY <1>3
<1>8. 1 .. Len(chunk) + 1 = (1 .. Len(chunk)) \cup {Len(chunk) + 1}
  BY <1>1
<1>9. Len(chunk) + 1 \notin 1 .. Len(chunk)
  BY <1>1
<1> HIDE DEF IsPopOf
<1> QED
  BY <1>4, <1>5, <1>6, <1>7, <1>8, <1>9

(* Undoing a read takes the newest byte out of those in flight. *)
LEMMA UndoPops ==
  ASSUME TypeOK, ReadProgress, UndoRead, NEW s \in StreamId
  PROVE  /\ PopsInFlight(s)' = PopsInFlight(s) \ {Len(chunk)}
         /\ Len(chunk) \in PopsInFlight(s) <=> IsPopOf(chunk[Len(chunk)].effect, s)
<1>1. /\ sent' = sent /\ sent \in Nat /\ Len(chunk) \in Nat /\ Len(chunk) > sent
      /\ chunk' = SubSeq(chunk, 1, Len(chunk) - 1) /\ Len(chunk) > 0
  BY LenProperties, I2cAssumption DEF UndoRead, TypeOK
<1>2. /\ Len(chunk') = Len(chunk) - 1
      /\ \A i \in 1 .. Len(chunk) - 1 : chunk'[i] = chunk[i]
  BY <1>1, ShorterChunk DEF TypeOK
<1>3. PopsInFlight(s)' = {i \in sent + 1 .. Len(chunk) - 1 : IsPopOf(chunk'[i].effect, s)}
  BY <1>1, <1>2 DEF PopsInFlight, IsPopOf
<1>4. \A i \in sent + 1 .. Len(chunk) - 1 :
        IsPopOf(chunk'[i].effect, s) <=> IsPopOf(chunk[i].effect, s)
  BY <1>1, <1>2
<1>5. sent + 1 .. Len(chunk) - 1 = (sent + 1 .. Len(chunk)) \ {Len(chunk)}
  BY <1>1
<1>6. Len(chunk) \in sent + 1 .. Len(chunk)
  BY <1>1
<1> QED
  BY <1>3, <1>4, <1>5, <1>6 DEF PopsInFlight

LEMMA RoomInit == Init => RoomForRollback
<1> SUFFICES ASSUME Init, NEW s \in StreamId
             PROVE  Len(queue[s]) + Cardinality(PopsInFlight(s)) <= FeedLimit + ReadChunk
  BY DEF RoomForRollback
<1>1. TypeOK
  BY TypeInit
<1>2. queue[s] = <<>>
  BY DEF Init, StreamsInit
<1> QED
  BY <1>1, <1>2, ChunkPopsBounded, I2cAssumption

LEMMA RoomStep ==
  TypeOK /\ ReadProgress /\ RoomForRollback /\ [Next]_vars => RoomForRollback'
<1> SUFFICES ASSUME TypeOK, ReadProgress, RoomForRollback, [Next]_vars, NEW s \in StreamId
             PROVE  (Len(queue[s]) + Cardinality(PopsInFlight(s)) <= FeedLimit + ReadChunk)'
  BY DEF RoomForRollback
<1> DEFINE Room == Len(queue[s]) + Cardinality(PopsInFlight(s)) <= FeedLimit + ReadChunk
<1>0. /\ TypeOK' /\ Room
      /\ queue[s] \in Seq(Byte) /\ Len(queue[s]) \in Nat
      /\ IsFiniteSet(PopsInFlight(s)) /\ Cardinality(PopsInFlight(s)) \in 0 .. ReadChunk
      /\ FeedLimit \in Nat /\ ReadChunk \in Nat
  BY TypeStep, QueueLevel, ChunkPopsBounded, I2cAssumption DEF RoomForRollback
<1>1. Cardinality(PopsInFlight(s)') \in 0 .. ReadChunk
  <2>1. sent' \in Nat /\ Len(chunk') \in Nat /\ Len(chunk') <= ReadChunk
    BY <1>0, LenProperties, I2cAssumption DEF TypeOK
  <2> QED
    BY <2>1, PopsOfChunk DEF PopsInFlight
<1>2. CASE queue' = queue /\ PopsInFlight(s)' = PopsInFlight(s)
  BY <1>0, <1>2
<1>3. CASE UNCHANGED <<streamVars, chunk, sent>>
  BY <1>2, <1>3 DEF streamVars, PopsInFlight
<1>4. CASE UNCHANGED streamVars /\ chunk' = <<>>
  <2>1. Len(chunk') = 0 /\ sent' \in Nat
    BY <1>0, <1>4, I2cAssumption DEF TypeOK
  <2>2. PopsInFlight(s)' = {i \in sent' + 1 .. Len(chunk') : IsPopOf(chunk'[i].effect, s)}
    BY DEF PopsInFlight
  <2>3. PopsInFlight(s)' = {}
    BY <2>1, <2>2, NoPops
  <2>4. Cardinality(PopsInFlight(s)') = 0
    BY <2>3, FS_EmptySet
  <2> QED
    BY <1>0, <1>4, <2>4 DEF streamVars
<1>5. CASE UNCHANGED <<streamVars, chunk>> /\ sent' = sent + 1
  <2>1. PopsInFlight(s)' \in SUBSET PopsInFlight(s)
    BY <1>5, I2cAssumption DEF PopsInFlight, TypeOK
  <2>2. Cardinality(PopsInFlight(s)') <= Cardinality(PopsInFlight(s))
    BY <1>0, <2>1, FS_Subset
  <2> QED
    BY <1>0, <1>1, <1>5, <2>2 DEF streamVars
<1>6. ASSUME NEW v \in Byte, NEW e \in ReadEffect, ReadInto(v, e), ~IsPopOf(e, s),
             UNCHANGED queue[s]
      PROVE  Room'
  <2>1. PopsInFlight(s)' = PopsInFlight(s)
    BY <1>6, ReadIntoPops
  <2> QED
    BY <1>0, <1>6, <2>1
<1>7. CASE ReadPlain
  <2>1. NoEffect \in ReadEffect /\ ~IsPopOf(NoEffect, s) /\ regs[pointer] \in Byte
    BY DEF ReadEffect, NoEffect, IsPopOf, TypeOK, RegistersTypeOK
  <2> QED
    BY <1>6, <1>7, <2>1 DEF ReadPlain, streamVars
<1>8. CASE ReadEmbedded
  <2>1. pointer \in EmbeddedAddr
    BY <1>8 DEF ReadEmbedded
  <2>2. /\ EmbeddedAdvance(pointer) \in ReadEffect /\ ~IsPopOf(EmbeddedAdvance(pointer), s)
        /\ EmbeddedValue(pointer) \in Byte
    BY <2>1, EmbeddedValueType DEF ReadEffect, EmbeddedAdvance, IsPopOf, TypeOK
  <2> QED
    BY <1>6, <1>8, <2>2 DEF ReadEmbedded, AdvanceCursor
<1>9. ASSUME NEW t \in StreamId, ReadUnderrun(t) PROVE Room'
  <2>1. /\ HostUnderrun(t) \in ReadEffect /\ ~IsPopOf(HostUnderrun(t), s)
        /\ UnderrunValue(t, regs[pointer]) \in Byte
    BY DEF ReadEffect, HostUnderrun, IsPopOf, UnderrunValue, TypeOK, StreamsTypeOK, RegistersTypeOK
  <2> QED
    BY <1>6, <1>9, <2>1 DEF ReadUnderrun, CountUnderrun
<1>10. ASSUME NEW t \in StreamId, ReadHost(t) PROVE Room'
  <2> DEFINE e == HostPop(t, Head(queue[t]), last[t])
  <2>1. StreamsTypeOK /\ PopByte(t) /\ ReadInto(Head(queue[t]), e)
    BY <1>10 DEF ReadHost, TypeOK
  <2>2. Head(queue[t]) \in Byte /\ Len(queue'[t]) = Len(queue[t]) - 1
    BY <2>1, PopByteType
  <2>3. e \in ReadEffect
    BY <2>1, <2>2 DEF HostPop, ReadEffect, StreamsTypeOK
  <2>4. IsPopOf(e, s) <=> t = s
    BY DEF HostPop, IsPopOf
  <2> HIDE DEF e
  <2>5. CASE t = s
    <3>1. /\ PopsInFlight(s)' = PopsInFlight(s) \cup {Len(chunk) + 1}
          /\ Len(chunk) + 1 \notin PopsInFlight(s)
      BY <2>1, <2>2, <2>3, <2>4, <2>5, ReadIntoPops
    <3>2. Cardinality(PopsInFlight(s)') = Cardinality(PopsInFlight(s)) + 1
      BY <1>0, <3>1, FS_AddElement
    <3> QED
      BY <1>0, <2>2, <2>5, <3>2
  <2>6. CASE t # s
    <3>1. queue'[s] = queue[s]
      BY <2>1, <2>6 DEF PopByte, StreamsTypeOK
    <3> QED
      BY <1>6, <2>1, <2>2, <2>3, <2>4, <2>6, <3>1
  <2> QED
    BY <2>5, <2>6
<1>11. CASE UndoRead
  <2> DEFINE e == chunk[Len(chunk)].effect
  <2>1. /\ PopsInFlight(s)' = PopsInFlight(s) \ {Len(chunk)}
        /\ Len(chunk) \in PopsInFlight(s) <=> IsPopOf(e, s)
    BY <1>11, UndoPops
  <2>2. e \in ReadEffect /\ RollbackEffect(e) /\ StreamsTypeOK
    <3>1. chunk \in Seq(ChunkEntry) /\ Len(chunk) > 0
      BY <1>11, I2cAssumption, LenProperties DEF UndoRead, TypeOK
    <3> QED
      BY <1>11, <3>1, ShorterChunk DEF UndoRead, ChunkEntry, TypeOK
  <2> HIDE DEF e
  <2>3. CASE IsPopOf(e, s)
    <3>1. Cardinality(PopsInFlight(s)') = Cardinality(PopsInFlight(s)) - 1
      BY <1>0, <2>1, <2>3, FS_RemoveElement
    <3>2. UnpopByte(s, e.value, e.prev) /\ e.value \in Byte
      BY <2>2, <2>3 DEF RollbackEffect, IsPopOf, ReadEffect, NoEffect
    <3>3. queue'[s] = PushFrontOne(queue[s], e.value)
      BY <2>2, <3>2 DEF UnpopByte, StreamsTypeOK
    <3>4. Len(queue'[s]) <= Len(queue[s]) + 1 /\ Len(queue'[s]) \in Nat
      BY <1>0, <3>2, <3>3, PushFrontFits, QueueLevel, LenProperties
    <3> QED
      BY <1>0, <3>1, <3>4
  <2>4. CASE ~IsPopOf(e, s)
    <3>1. PopsInFlight(s)' = PopsInFlight(s)
      BY <2>1, <2>4
    <3>2. queue'[s] = queue[s]
      BY <2>2, <2>4
      DEF RollbackEffect, IsPopOf, streamVars, RetreatCursor, UnpopByte, UncountUnderrun,
          StreamsTypeOK
    <3> QED
      BY <1>0, <3>1, <3>2
  <2> QED
    BY <2>3, <2>4
<1>12. ASSUME NEW t \in StreamId, NEW data \in FeedData, HostFeed(t, data) PROVE Room'
  <2>1. PopsInFlight(s)' = PopsInFlight(s)
    BY <1>12 DEF HostFeed, OtherTaskRuns, readVars, PopsInFlight
  <2>2. CASE t = s
    <3>1. data \in Seq(Byte) /\ Len(data) \in Nat
      BY I2cAssumption, LenProperties
    <3>2. queue'[s] = PushBack(queue[s], data) /\ Len(queue[s]) + Len(data) <= FeedLimit
      BY <1>12, <2>2 DEF HostFeed, FeedStream, TypeOK, StreamsTypeOK
    <3>3. Len(queue'[s]) \in Nat /\ Len(queue'[s]) <= Len(queue[s]) + Len(data)
      BY <1>0, <3>1, <3>2, PushBackFits, QueueLevel
    <3> QED
      BY <1>0, <2>1, <3>1, <3>2, <3>3
  <2>3. CASE t # s
    <3>1. queue'[s] = queue[s]
      BY <1>12, <2>3 DEF HostFeed, FeedStream, TypeOK, StreamsTypeOK
    <3> QED
      BY <1>0, <2>1, <3>1
  <2> QED
    BY <2>2, <2>3
<1>13. CASE HostReset
  <2>1. queue'[s] = <<>>
    BY <1>13 DEF HostReset, ResetAll
  <2>2. Len(queue'[s]) = 0
    BY <2>1
  <2> QED
    BY <1>0, <1>1, <2>2
<1>14. CASE RequestReset
  BY <1>3, <1>14 DEF RequestReset, OtherTaskRuns, readVars
<1>15. ASSUME NEW m \in Messages, Write(m) \/ WriteRead(m) \/ GeneralCall(m) PROVE Room'
  BY <1>3, <1>15 DEF Write, WriteRead, ServeRead, GeneralCall, readVars
<1>16. CASE WriteEmpty \/ Read \/ ListenError \/ HandleReset
  BY <1>3, <1>16 DEF WriteEmpty, Read, ServeRead, ListenError, HandleReset, readVars
<1>17. CASE Offer \/ LeftoverBytes
  BY <1>3, <1>17 DEF Offer, LeftoverBytes, readVars
<1>18. CASE MasterTakes
  BY <1>5, <1>18 DEF MasterTakes
<1>19. CASE NeedMoreBytes \/ Done \/ ReadError \/ RecordLeftover
  BY <1>4, <1>19 DEF NeedMoreBytes, Done, ReadError, RecordLeftover, Return
<1>20. CASE UNCHANGED vars
  BY <1>3, <1>20 DEF vars, readVars
<1> QED
  BY <1>7, <1>8, <1>9, <1>10, <1>11, <1>12, <1>13, <1>14, <1>15, <1>16, <1>17, <1>18, <1>19,
     <1>20
  DEF Next, Command, Fill, EndOfRead, Rollback, Host

(* However feeds, reads and rollbacks interleave, a host that stops at        *)
(* FeedLimit leaves room for what is in flight.                              *)
THEOREM RoomCorrect == Spec => []RoomForRollback
BY RoomInit, RoomStep, TypeCorrect, PTL DEF Spec

(* Then no rollback loses a byte, provided the limit leaves a chunk free.    *)
THEOREM RollbackCorrect ==
  ASSUME FeedLimit + ReadChunk <= Capacity
  PROVE  Spec => RollbackRestores
<1>1. ASSUME TypeOK, ReadProgress, RoomForRollback, UndoRead, NEW s \in StreamId,
             IsPopOf(chunk[Len(chunk)].effect, s)
      PROVE  queue'[s] = <<chunk[Len(chunk)].effect.value>> \o queue[s]
  <2> DEFINE e == chunk[Len(chunk)].effect
  <2>1. Len(chunk) \in PopsInFlight(s)
    BY <1>1, UndoPops
  <2>2. Cardinality(PopsInFlight(s)) \in Nat /\ Cardinality(PopsInFlight(s)) # 0
    BY <1>1, <2>1, ChunkPopsBounded, FS_EmptySet
  <2>3. Len(queue[s]) < Capacity /\ Len(queue[s]) <= Capacity /\ queue[s] \in Seq(Byte)
    BY <1>1, <2>2, QueueLevel, I2cAssumption, CapacityAssumption DEF RoomForRollback
  <2>4. e \in ReadEffect /\ RollbackEffect(e) /\ StreamsTypeOK
    <3>1. chunk \in Seq(ChunkEntry) /\ Len(chunk) > 0
      BY <1>1, I2cAssumption, LenProperties DEF UndoRead, TypeOK
    <3> QED
      BY <1>1, <3>1, ShorterChunk DEF UndoRead, ChunkEntry, TypeOK
  <2>5. IsPopOf(e, s)
    BY <1>1
  <2> HIDE DEF e
  <2>6. UnpopByte(s, e.value, e.prev) /\ e.value \in Byte
    BY <2>4, <2>5 DEF RollbackEffect, IsPopOf, ReadEffect, NoEffect
  <2>7. queue'[s] = PushFrontOne(queue[s], e.value)
    BY <2>4, <2>6 DEF UnpopByte, StreamsTypeOK
  <2>8. queue'[s] = <<e.value>> \o queue[s]
    BY <2>3, <2>6, <2>7, PushFrontFits
  <2> QED
    BY <2>8 DEF e
<1>2. TypeOK /\ ReadProgress /\ RoomForRollback /\ [Next]_vars =>
        [UndoRead =>
           \A s \in StreamId :
             LET e == chunk[Len(chunk)].effect
             IN IsPopOf(e, s) => queue'[s] = <<e.value>> \o queue[s]]_vars
  BY <1>1
<1> QED
  BY <1>2, TypeCorrect, RoomCorrect, PTL DEF Spec, RollbackRestores

-------------------------------------------------------------------------------
(* The elements of a prefix are the first ones. *)
LEMMA PrefixElements ==
  ASSUME NEW S, NEW q \in Seq(S), NEW n \in Nat
  PROVE  /\ Prefix(q, n) \in Seq(S)
         /\ Len(Prefix(q, n)) = Least(n, Len(q))
         /\ Least(n, Len(q)) \in 0 .. Len(q)
         /\ \A i \in 1 .. Least(n, Len(q)) : Prefix(q, n)[i] = q[i]
<1>1. Len(q) \in Nat /\ \A i \in 1 .. Len(q) : q[i] \in S
  BY ElementOfSeq, LenProperties
<1> DEFINE k == Least(n, Len(q))
<1>2. k \in 0 .. Len(q) /\ k \in Int /\ 1 \in Int
  BY <1>1 DEF Least
<1> HIDE DEF k
<1>3. \A i \in 1 .. k : q[i] \in S
  BY <1>1, <1>2
<1>4. /\ SubSeq(q, 1, k) \in Seq(S)
      /\ Len(SubSeq(q, 1, k)) = IF 1 <= k THEN k - 1 + 1 ELSE 0
      /\ \A i \in 1 .. k - 1 + 1 : SubSeq(q, 1, k)[i] = q[1 + i - 1]
  BY <1>2, <1>3, SubSeqProperties
<1>5. Len(SubSeq(q, 1, k)) = k /\ \A i \in 1 .. k : SubSeq(q, 1, k)[i] = q[i]
  BY <1>2, <1>4
<1> QED
  BY <1>2, <1>4, <1>5 DEF Prefix, k

(* What has the length and the elements of a prefix is that prefix. *)
LEMMA PrefixByElements ==
  ASSUME NEW S, NEW w \in Seq(S), NEW q \in Seq(S), NEW n \in Nat,
         Len(q) = Least(n, Len(w)), \A i \in 1 .. Len(q) : q[i] = w[i]
  PROVE  q = Prefix(w, n)
<1>1. /\ Prefix(w, n) \in Seq(S) /\ Len(Prefix(w, n)) = Len(q)
      /\ \A i \in 1 .. Len(q) : q[i] = Prefix(w, n)[i]
  BY PrefixElements
<1> QED
  BY <1>1, SeqEqual

LEMMA PrefixOfPrefix ==
  ASSUME NEW S, NEW w \in Seq(S), NEW m \in Nat, NEW n \in Nat
  PROVE  Prefix(Prefix(w, m), n) = Prefix(w, Least(m, n))
<1> DEFINE p == Prefix(w, m)
           q == Prefix(p, n)
<1>1. /\ p \in Seq(S) /\ Len(p) = Least(m, Len(w)) /\ Len(w) \in Nat
      /\ \A i \in 1 .. Least(m, Len(w)) : p[i] = w[i]
  BY PrefixElements, LenProperties
<1> HIDE DEF p
<1>2. /\ q \in Seq(S) /\ Len(q) = Least(n, Len(p))
      /\ \A i \in 1 .. Least(n, Len(p)) : q[i] = p[i]
  BY <1>1, PrefixElements
<1> HIDE DEF q
<1>3. /\ Least(n, Least(m, Len(w))) = Least(Least(m, n), Len(w))
      /\ Least(m, n) \in Nat
      /\ Least(n, Least(m, Len(w))) <= Least(m, Len(w))
  BY <1>1 DEF Least
<1>4. Least(n, Least(m, Len(w))) \in Nat /\ Least(m, Len(w)) \in Nat
  BY <1>1 DEF Least
<1>5. Len(q) = Least(Least(m, n), Len(w)) /\ \A i \in 1 .. Len(q) : q[i] = w[i]
  BY <1>1, <1>2, <1>3, <1>4
<1> QED
  BY <1>2, <1>3, <1>5, PrefixByElements DEF p, q

LEMMA ValuesElements ==
  ASSUME NEW c \in Seq(ChunkEntry)
  PROVE  /\ Values(c) \in Seq(Byte)
         /\ Len(Values(c)) = Len(c)
         /\ \A i \in 1 .. Len(c) : Values(c)[i] = c[i].value
<1>1. Len(c) \in Nat /\ Values(c) \in Seq(Byte)
  BY ValuesType, LenProperties
<1> QED
  BY <1>1 DEF Values

-------------------------------------------------------------------------------
(* The preview.  It is noted from the chunk that is offered, before the       *)
(* master takes any of it.                                                   *)
LEMMA OfferPreview ==
  ASSUME TypeOK, ReadProgress, PreviewTracks, Offer
  PROVE  PreviewTracks'
<1> USE I2cAssumption
<1> DEFINE room == PreviewBytes - Len(preview)
           w == Len(wire)
           k == Least(room, ReadChunk)
           new == Prefix(Values(chunk), room)
<1>1. /\ preview \in Seq(Byte) /\ Len(preview) = Least(PreviewBytes, w)
      /\ w \in Nat /\ total = w /\ sent = 0 /\ chunk \in Seq(ChunkEntry)
      /\ Len(chunk) = ReadChunk
      /\ \A i \in 1 .. Len(preview) : preview[i] = wire[i]
  <2>1. wire \in Seq(Byte) /\ preview \in Seq(Byte) /\ chunk \in Seq(ChunkEntry)
    BY DEF TypeOK
  <2>2. /\ Len(preview) = Least(PreviewBytes, total) /\ total = Len(wire) /\ sent = 0
        /\ Len(chunk) = ReadChunk
    BY DEF Offer, ReadProgress, PreviewTracks
  <2>3. Len(wire) \in Nat /\ Len(preview) <= Len(wire)
    BY <2>1, <2>2, LenProperties DEF Least
  <2>4. \A i \in 1 .. Len(preview) : i <= Len(wire)
    BY <2>1, <2>2, <2>3, LenProperties
  <2> QED
    BY <2>1, <2>2, <2>3, <2>4 DEF PreviewTracks
<1>2. room \in Nat /\ Len(preview) \in Nat
  BY <1>1 DEF Least
<1>3. /\ Values(chunk) \in Seq(Byte) /\ Len(Values(chunk)) = ReadChunk
      /\ \A i \in 1 .. ReadChunk : Values(chunk)[i] = chunk[i].value
  BY <1>1, ValuesElements
<1>4. preview' = preview \o new
  BY DEF Offer, PreviewRoom
<1> HIDE DEF room
<1>5. /\ new \in Seq(Byte) /\ Len(new) = k /\ k \in 0 .. ReadChunk
      /\ \A i \in 1 .. k : new[i] = Values(chunk)[i]
  BY <1>2, <1>3, PrefixElements
<1> HIDE DEF new, k
<1>6. /\ Len(preview') = Len(preview) + k
      /\ \A i \in 1 .. Len(preview) + k :
           preview'[i] = IF i <= Len(preview) THEN preview[i] ELSE new[i - Len(preview)]
  <2>1. preview \in Seq(Byte) /\ new \in Seq(Byte)
    BY <1>1, <1>5
  <2>2. /\ Len(preview \o new) = Len(preview) + Len(new)
        /\ \A i \in 1 .. Len(preview) + Len(new) :
             (preview \o new)[i] = IF i <= Len(preview) THEN preview[i] ELSE new[i - Len(preview)]
    BY <2>1, ConcatProperties
  <2> QED
    BY <1>4, <1>5, <2>2
<1>7. /\ wire' = wire /\ chunk' = chunk /\ sent' = 0 /\ total' = w + ReadChunk
  BY <1>1 DEF Offer
<1> HIDE DEF w
<1>8. Len(preview) + k = Least(PreviewBytes, w + ReadChunk)
  BY <1>1, <1>2 DEF Least, k, room
<1>9. \A i \in 1 .. Len(preview') : i <= w => preview'[i] = wire[i]
  <2> SUFFICES ASSUME NEW i \in 1 .. Len(preview'), i <= w PROVE preview'[i] = wire[i]
    OBVIOUS
  <2>1. i \in 1 .. Len(preview)
    BY <1>1, <1>2, <1>5, <1>6 DEF Least, k, room
  <2> QED
    BY <1>1, <1>2, <1>5, <1>6, <2>1
<1>10. \A i \in 1 .. Len(preview') : i > w => preview'[i] = chunk[0 + (i - w)].value
  <2> SUFFICES ASSUME NEW i \in 1 .. Len(preview'), i > w
               PROVE  preview'[i] = chunk[0 + (i - w)].value
    OBVIOUS
  <2>1. Len(preview) = w /\ i - w \in 1 .. k /\ 0 + (i - w) = i - w
    BY <1>1, <1>2, <1>5, <1>6 DEF Least, k, room
  <2>2. i - w \in 1 .. ReadChunk
    BY <1>5, <2>1
  <2>3. preview'[i] = new[i - w]
    BY <1>1, <1>2, <1>5, <1>6, <2>1
  <2> QED
    BY <1>3, <1>5, <2>1, <2>2, <2>3
<1> QED
  BY <1>6, <1>7, <1>8, <1>9, <1>10 DEF PreviewTracks, w

LEMMA MasterTakesPreview ==
  ASSUME TypeOK, ReadProgress, PreviewTracks, MasterTakes
  PROVE  PreviewTracks'
<1> USE I2cAssumption
<1> DEFINE w == Len(wire)
<1>1. /\ preview' = preview /\ total' = total /\ chunk' = chunk /\ sent' = sent + 1
      /\ pc = "respond" /\ wire' = Append(wire, chunk[sent + 1].value)
      /\ sent \in Nat /\ sent < ReadChunk /\ Len(chunk) = ReadChunk /\ chunk \in Seq(ChunkEntry)
      /\ wire \in Seq(Byte) /\ preview \in Seq(Byte)
  BY DEF MasterTakes, TypeOK, ReadProgress
<1>2. sent + 1 \in 1 .. Len(chunk) /\ w \in Nat /\ Len(preview) \in Nat
  BY <1>1, LenProperties
<1>3. /\ Len(wire') = w + 1 /\ wire'[w + 1] = chunk[sent + 1].value
      /\ \A i \in 1 .. w : wire'[i] = wire[i]
  BY <1>1, <1>2, TakenByte, AppendProperties
<1> HIDE DEF w
<1>4. Len(preview) = Least(PreviewBytes, total)
  BY DEF PreviewTracks
<1>5. ASSUME NEW i \in 1 .. Len(preview), i <= w + 1 PROVE preview[i] = wire'[i]
  <2>1. CASE i <= w
    BY <1>2, <1>3, <1>5, <2>1 DEF PreviewTracks, w
  <2>2. CASE i = w + 1
    <3>1. i > w /\ sent + (i - w) = sent + 1
      BY <1>1, <1>2, <2>2
    <3>2. preview[i] = chunk[sent + (i - w)].value
      BY <1>1, <3>1 DEF PreviewTracks, w
    <3> QED
      BY <1>3, <2>2, <3>1, <3>2
  <2> QED
    BY <1>2, <1>5, <2>1, <2>2
<1>6. ASSUME NEW i \in 1 .. Len(preview), i > w + 1
      PROVE  preview[i] = chunk[sent + 1 + (i - (w + 1))].value
  <2>1. i > w /\ sent + (i - w) = sent + 1 + (i - (w + 1))
    BY <1>1, <1>2, <1>6
  <2>2. preview[i] = chunk[sent + (i - w)].value
    BY <1>1, <2>1 DEF PreviewTracks, w
  <2> QED
    BY <2>1, <2>2
<1> QED
  BY <1>1, <1>3, <1>4, <1>5, <1>6 DEF PreviewTracks

LEMMA PreviewStep ==
  TypeOK /\ ReadProgress /\ PreviewTracks /\ [Next]_vars => PreviewTracks'
<1> SUFFICES ASSUME TypeOK, ReadProgress, PreviewTracks, [Next]_vars PROVE PreviewTracks'
  OBVIOUS
<1>1. CASE UNCHANGED <<preview, wire, total>> /\ pc' # "respond"
  BY <1>1 DEF PreviewTracks
<1>2. CASE UNCHANGED <<readVars, pc>>
  BY <1>2 DEF PreviewTracks, readVars
<1>3. CASE Return
  BY <1>3, I2cAssumption DEF Return, PreviewTracks, Least
<1>4. CASE HandleReset \/ WriteEmpty \/ ListenError \/ OtherTaskRuns \/ UNCHANGED vars
  BY <1>2, <1>4 DEF HandleReset, WriteEmpty, ListenError, OtherTaskRuns, vars
<1>5. ASSUME NEW m \in Messages, Write(m) \/ GeneralCall(m) PROVE PreviewTracks'
  BY <1>2, <1>5 DEF Write, GeneralCall
<1>6. ASSUME NEW k, NEW p, ServeRead(k, p) PROVE PreviewTracks'
  BY <1>1, <1>6 DEF ServeRead
<1>7. ASSUME NEW v, NEW e, ReadInto(v, e) PROVE PreviewTracks'
  BY <1>1, <1>7 DEF ReadInto
<1>8. CASE NeedMoreBytes \/ LeftoverBytes \/ UndoRead
  BY <1>1, <1>8 DEF NeedMoreBytes, LeftoverBytes, UndoRead, readVars
<1> QED
  BY <1>3, <1>4, <1>5, <1>6, <1>7, <1>8, OfferPreview, MasterTakesPreview
  DEF Next, Command, WriteRead, Read, Fill, ReadPlain, ReadEmbedded, ReadHost, ReadUnderrun,
      EndOfRead, Done, ReadError, Rollback, RecordLeftover, Host, HostFeed, HostReset,
      RequestReset

(* The firmware's books agree with the bus in every reachable state: the      *)
(* counts of serve_read, its preview, and the registers nobody may write.     *)
THEOREM AccountingCorrect == Spec => []ReadAccounting
<1>1. Init => PreviewTracks
  BY I2cAssumption DEF Init, IdleRead, PreviewTracks, Least
<1>2. Init => ReadAccounting
  BY <1>1, ReadOnlyInit DEF Init, ReadProgress, ReadAccounting
<1>3. TypeOK /\ ReadAccounting /\ [Next]_vars => ReadAccounting'
  BY ProgressStep, PreviewStep, ReadOnlyStep DEF ReadAccounting
<1> QED
  BY <1>2, <1>3, TypeCorrect, PTL DEF Spec

-------------------------------------------------------------------------------
(* The log.  Between reads kind is "None": only the ends of a read log one.   *)
LEMMA ReadEvents ==
  ASSUME TypeOK, Next, event'.kind \in {"Read", "WriteRead"}
  PROVE  Done \/ RecordLeftover
<1> USE DEF Record, NoEvent
<1>1. ASSUME NEW m \in Messages, Write(m) \/ WriteRead(m) \/ GeneralCall(m) PROVE FALSE
  BY <1>1 DEF Write, WriteRead, ServeRead, GeneralCall
<1>2. CASE WriteEmpty \/ Read \/ ListenError \/ HandleReset
  BY <1>2 DEF WriteEmpty, Read, ServeRead, ListenError, HandleReset
<1>3. ASSUME NEW v, NEW e, ReadInto(v, e) PROVE FALSE
  BY <1>3 DEF ReadInto
<1>4. CASE Offer \/ MasterTakes \/ NeedMoreBytes \/ LeftoverBytes \/ UndoRead \/ ReadError
  BY <1>4 DEF Offer, MasterTakes, NeedMoreBytes, LeftoverBytes, UndoRead, ReadError
<1>5. CASE OtherTaskRuns
  BY <1>5 DEF OtherTaskRuns
<1> QED
  BY <1>1, <1>2, <1>3, <1>4, <1>5
  DEF Next, Command, Fill, ReadPlain, ReadEmbedded, ReadHost, ReadUnderrun, EndOfRead,
      Rollback, Host, HostFeed, HostReset, RequestReset

(* What is logged of a preview that continues what the master has taken.      *)
LEMMA LoggedPreview ==
  ASSUME TypeOK, PreviewTracks, total >= Len(wire)
  PROVE  Prefix(ReadPreview(Len(wire)), DataPreviewBytes) =
           Prefix(wire, Least(PreviewBytes, DataPreviewBytes))
<1> USE I2cAssumption
<1> DEFINE p == ReadPreview(Len(wire))
<1>1. /\ preview \in Seq(Byte) /\ wire \in Seq(Byte) /\ Len(wire) \in Nat /\ Len(preview) \in Nat
      /\ Len(preview) = Least(PreviewBytes, total) /\ total \in Nat
  BY LenProperties DEF TypeOK, PreviewTracks
<1>2. /\ p \in Seq(Byte) /\ Len(p) = Least(Len(wire), Len(preview))
      /\ \A i \in 1 .. Len(p) : p[i] = preview[i]
  BY <1>1, PrefixElements DEF ReadPreview
<1> HIDE DEF p
<1>3. /\ Len(p) = Least(PreviewBytes, Len(wire))
      /\ Len(p) <= Len(wire) /\ Len(p) <= Len(preview) /\ Len(p) \in Nat
  BY <1>1, <1>2 DEF Least
<1>4. \A i \in 1 .. Len(p) : p[i] = wire[i]
  BY <1>1, <1>2, <1>3 DEF PreviewTracks
<1>5. p = Prefix(wire, PreviewBytes)
  BY <1>1, <1>2, <1>3, <1>4, PrefixByElements
<1> QED
  BY <1>1, <1>5, PrefixOfPrefix DEF p

(* However far the firmware read ahead, and wherever the master stopped, the  *)
(* log entry of a read tells what went over the bus.                         *)
THEOREM ReadLogCorrect == Spec => ReadLogTruthful
<1> USE I2cAssumption
<1>1. ASSUME TypeOK, ReadAccounting, Next, event'.kind \in {"Read", "WriteRead"}
      PROVE  /\ event'.pointer = start
             /\ event'.len = Len(wire) % LenMod
             /\ event'.data = Prefix(wire, Least(PreviewBytes, DataPreviewBytes))
  <2>0. /\ wire \in Seq(Byte) /\ preview \in Seq(Byte) /\ Len(wire) \in Nat /\ Len(preview) \in Nat
        /\ sent \in 0 .. ReadChunk /\ PreviewTracks /\ ReadProgress
    BY <1>1, LenProperties DEF TypeOK, ReadAccounting
  <2>1. CASE Done
    <3>1. sent = ReadChunk /\ total = Len(wire)
      BY <2>0, <2>1 DEF Done, ReadProgress
    <3>2. ReadPreview(Len(wire)) = preview
      <4>1. Least(Len(wire), Len(preview)) = Len(preview)
        BY <2>0, <3>1 DEF PreviewTracks, Least
      <4> QED
        BY <2>0, <4>1, SubSeqFull DEF ReadPreview, Prefix
    <3>3. Prefix(preview, DataPreviewBytes) = Prefix(wire, Least(PreviewBytes, DataPreviewBytes))
      BY <1>1, <2>0, <3>1, <3>2, LoggedPreview
    <3> QED
      BY <2>1, <3>1, <3>3 DEF Done, Record
  <2>2. CASE RecordLeftover
    <3>1. total - Unread = Len(wire) /\ total >= Len(wire)
      BY <2>0, <2>2 DEF RecordLeftover, ReadProgress, Unread
    <3>2. Prefix(ReadPreview(total - Unread), DataPreviewBytes) =
            Prefix(wire, Least(PreviewBytes, DataPreviewBytes))
      BY <1>1, <2>0, <3>1, LoggedPreview
    <3> QED
      BY <2>2, <3>1, <3>2 DEF RecordLeftover, Record
  <2> QED
    BY <1>1, <2>1, <2>2, ReadEvents
<1>2. TypeOK /\ ReadAccounting /\ [Next]_vars =>
        [event'.kind \in {"Read", "WriteRead"} =>
           /\ event'.pointer = start
           /\ event'.len = Len(wire) % LenMod
           /\ event'.data = Prefix(wire, Least(PreviewBytes, DataPreviewBytes))]_vars
  BY <1>1
<1> QED
  BY <1>2, AccountingCorrect, TypeCorrect, PTL DEF Spec, ReadLogTruthful

-------------------------------------------------------------------------------
(* ReadsAreExact: the service implements StreamContract. *)

(* The bytes of a chunk from the k-th on. *)
LEMMA RestOf ==
  ASSUME NEW S, NEW c \in Seq(S), NEW k \in 0 .. Len(c)
  PROVE  /\ SubSeq(c, k + 1, Len(c)) \in Seq(S)
         /\ Len(SubSeq(c, k + 1, Len(c))) = Len(c) - k
         /\ \A i \in 1 .. Len(c) - k : SubSeq(c, k + 1, Len(c))[i] = c[k + i]
<1> DEFINE m == k + 1
           n == Len(c)
           r == SubSeq(c, m, n)
<1>1. n \in Nat /\ m \in Nat \ {0} /\ n \in Int /\ m \in Int /\ \A i \in m .. n : c[i] \in S
  BY LenProperties, ElementOfSeq
<1>2. m <= n + 1 /\ m = k + 1 /\ k \in Nat
  BY LenProperties
<1> HIDE DEF m, n
<1>3. /\ r \in Seq(S) /\ Len(r) = IF m <= n THEN n - m + 1 ELSE 0
      /\ \A i \in 1 .. n - m + 1 : r[i] = c[m + i - 1]
  BY <1>1, SubSeqProperties
<1> HIDE DEF r
<1>4. n - m + 1 = n - k /\ (m > n => n - k = 0) /\ \A i \in 1 .. n - k : m + i - 1 = k + i
  BY <1>1, <1>2
<1>5. Len(r) = n - k /\ \A i \in 1 .. n - k : r[i] = c[k + i]
  BY <1>1, <1>2, <1>3, <1>4
<1> QED
  BY <1>3, <1>5 DEF r, m, n

(* What of a chunk was popped from one stream. *)
LEMMA PoppedType ==
  ASSUME NEW c \in Seq(ChunkEntry), NEW s
  PROVE  /\ [i \in DOMAIN c |-> PoppedByte(c[i], s)] \in Seq(Seq(Byte))
         /\ Len([i \in DOMAIN c |-> PoppedByte(c[i], s)]) = Len(c)
         /\ \A i \in 1 .. Len(c) :
              [j \in DOMAIN c |-> PoppedByte(c[j], s)][i] = PoppedByte(c[i], s)
         /\ Popped(c, s) \in Seq(Byte)
<1> DEFINE p == [i \in DOMAIN c |-> PoppedByte(c[i], s)]
<1>1. DOMAIN c = 1 .. Len(c) /\ Len(c) \in Nat /\ \A i \in 1 .. Len(c) : c[i] \in ChunkEntry
  BY LenProperties, ElementOfSeq
<1>2. p = [i \in 1 .. Len(c) |-> PoppedByte(c[i], s)]
  BY <1>1
<1>3. \A i \in 1 .. Len(c) : PoppedByte(c[i], s) \in Seq(Byte)
  BY <1>1, EmptySeq DEF PoppedByte, ChunkEntry
<1>4. p \in Seq(Seq(Byte)) /\ DOMAIN p = 1 .. Len(c)
  BY <1>1, <1>2, <1>3
<1>5. Popped(c, s) = FlattenSeq(p)
  BY DEF Popped
<1> HIDE DEF p
<1>6. Len(p) = Len(c)
  BY <1>1, <1>4, LenProperties
<1>7. FlattenSeq(p) \in Seq(Byte)
  BY <1>4, FlattenType
<1> QED
  BY <1>2, <1>4, <1>5, <1>6, <1>7 DEF p

LEMMA PoppedEmpty ==
  ASSUME NEW s
  PROVE  Popped(<<>>, s) = <<>>
<1>1. [i \in DOMAIN <<>> |-> PoppedByte(<<>>[i], s)] = <<>>
  BY EmptySeq
<1> QED
  BY <1>1, FlattenEmpty DEF Popped

LEMMA PoppedAppend ==
  ASSUME NEW c \in Seq(ChunkEntry), NEW e \in ChunkEntry, NEW s
  PROVE  Popped(Append(c, e), s) = Popped(c, s) \o PoppedByte(e, s)
<1> DEFINE r == Append(c, e)
           a == [i \in DOMAIN r |-> PoppedByte(r[i], s)]
           p == [i \in DOMAIN c |-> PoppedByte(c[i], s)]
           b == Append(p, PoppedByte(e, s))
<1>1. /\ Len(c) \in Nat /\ r \in Seq(ChunkEntry) /\ Len(r) = Len(c) + 1 /\ r[Len(c) + 1] = e
      /\ \A i \in 1 .. Len(c) : r[i] = c[i]
  BY LenProperties, AppendProperties
<1> HIDE DEF r
<1>2. /\ a \in Seq(Seq(Byte)) /\ Len(a) = Len(r) /\ Popped(r, s) = FlattenSeq(a)
      /\ \A i \in 1 .. Len(r) : a[i] = PoppedByte(r[i], s)
  BY <1>1, PoppedType DEF Popped
<1>3. /\ p \in Seq(Seq(Byte)) /\ Len(p) = Len(c) /\ Popped(c, s) = FlattenSeq(p)
      /\ \A i \in 1 .. Len(c) : p[i] = PoppedByte(c[i], s)
  BY PoppedType DEF Popped
<1>4. PoppedByte(e, s) \in Seq(Byte)
  BY EmptySeq DEF PoppedByte, ChunkEntry
<1> HIDE DEF a, p
<1>5. /\ b \in Seq(Seq(Byte)) /\ Len(b) = Len(p) + 1 /\ b[Len(p) + 1] = PoppedByte(e, s)
      /\ \A i \in 1 .. Len(p) : b[i] = p[i]
  BY <1>3, <1>4, AppendProperties
<1> HIDE DEF b
<1>6. Len(a) = Len(b)
  BY <1>1, <1>2, <1>3, <1>5
<1>7. ASSUME NEW i \in 1 .. Len(a) PROVE a[i] = b[i]
  <2>1. CASE i = Len(c) + 1
    BY <1>1, <1>2, <1>3, <1>5, <2>1
  <2>2. CASE i # Len(c) + 1
    <3>1. i \in 1 .. Len(c) /\ i \in 1 .. Len(r)
      BY <1>1, <1>2, <2>2
    <3> QED
      BY <1>1, <1>2, <1>3, <1>5, <3>1
  <2> QED
    BY <2>1, <2>2
<1>8. a = b
  BY <1>2, <1>5, <1>6, <1>7, SeqEqual
<1>9. FlattenSeq(b) = FlattenSeq(p) \o PoppedByte(e, s)
  BY <1>3, <1>4, FlattenAppend DEF b
<1> QED
  BY <1>2, <1>3, <1>8, <1>9 DEF r

LEMMA PoppedFirst ==
  ASSUME NEW c \in Seq(ChunkEntry), c # <<>>, NEW s
  PROVE  /\ Head(c) \in ChunkEntry /\ Tail(c) \in Seq(ChunkEntry)
         /\ Popped(c, s) = PoppedByte(Head(c), s) \o Popped(Tail(c), s)
<1> DEFINE t == Tail(c)
           p == [i \in DOMAIN c |-> PoppedByte(c[i], s)]
           a == [i \in DOMAIN t |-> PoppedByte(t[i], s)]
           b == Tail(p)
<1>1. /\ Head(c) \in ChunkEntry /\ t \in Seq(ChunkEntry) /\ Len(t) = Len(c) - 1
      /\ \A i \in 1 .. Len(t) : t[i] = c[i + 1]
      /\ Len(c) \in Nat \ {0} /\ Head(c) = c[1]
  BY HeadTailProperties, EmptySeq
<1> HIDE DEF t
<1>2. /\ p \in Seq(Seq(Byte)) /\ Len(p) = Len(c) /\ Popped(c, s) = FlattenSeq(p)
      /\ \A i \in 1 .. Len(c) : p[i] = PoppedByte(c[i], s)
  BY PoppedType DEF Popped
<1>3. /\ a \in Seq(Seq(Byte)) /\ Len(a) = Len(t) /\ Popped(t, s) = FlattenSeq(a)
      /\ \A i \in 1 .. Len(t) : a[i] = PoppedByte(t[i], s)
  BY <1>1, PoppedType DEF Popped
<1> HIDE DEF a, p
<1>4. p # <<>>
  BY <1>1, <1>2, EmptySeq
<1>5. Head(p) = PoppedByte(Head(c), s)
  BY <1>1, <1>2, <1>4
<1>6. /\ b \in Seq(Seq(Byte)) /\ Len(b) = Len(p) - 1
      /\ \A i \in 1 .. Len(b) : b[i] = p[i + 1]
  BY <1>2, <1>4, HeadTailProperties
<1> HIDE DEF b
<1>7. Len(a) = Len(b)
  BY <1>1, <1>2, <1>3, <1>6
<1>8. ASSUME NEW i \in 1 .. Len(a) PROVE a[i] = b[i]
  <2>1. i \in 1 .. Len(t) /\ i \in 1 .. Len(b) /\ i + 1 \in 1 .. Len(c)
    BY <1>1, <1>2, <1>3, <1>7
  <2> QED
    BY <1>1, <1>2, <1>3, <1>6, <2>1
<1>9. a = b
  BY <1>3, <1>6, <1>7, <1>8, SeqEqual
<1>10. FlattenSeq(p) = Head(p) \o FlattenSeq(b)
  BY <1>2, <1>4, FlattenFirst DEF b
<1> QED
  BY <1>1, <1>2, <1>3, <1>5, <1>9, <1>10 DEF t

(* There are no more of them than bytes in the chunk, and the last of them    *)
(* is the one popped last.                                                   *)
EndsAt(c, s) ==
  \E i \in 1 .. Len(c) :
    /\ IsPopOf(c[i].effect, s)
    /\ \A j \in i + 1 .. Len(c) : ~ IsPopOf(c[j].effect, s)
    /\ Popped(c, s)[Len(Popped(c, s))] = c[i].value

LEMMA PoppedLast ==
  ASSUME NEW s
  PROVE  \A c \in Seq(ChunkEntry) :
           /\ Len(Popped(c, s)) <= Len(c)
           /\ Popped(c, s) = <<>> => \A i \in 1 .. Len(c) : ~ IsPopOf(c[i].effect, s)
           /\ Popped(c, s) # <<>> => EndsAt(c, s)
<1> DEFINE Q(c) == /\ Len(Popped(c, s)) <= Len(c)
                   /\ Popped(c, s) = <<>> => \A i \in 1 .. Len(c) : ~ IsPopOf(c[i].effect, s)
                   /\ Popped(c, s) # <<>> => EndsAt(c, s)
           S == {n \in Nat : \A c \in Seq(ChunkEntry) : Len(c) = n => Q(c)}
<1>1. 0 \in S
  BY EmptySeq, PoppedEmpty
<1>2. ASSUME NEW n \in Nat, n \in S PROVE n + 1 \in S
  <2> SUFFICES ASSUME NEW c \in Seq(ChunkEntry), Len(c) = n + 1 PROVE Q(c)
    OBVIOUS
  <2>1. c # <<>>
    BY EmptySeq
  <2>2. PICK t \in Seq(ChunkEntry), x \in ChunkEntry : c = Append(t, x) /\ Len(t) = Len(c) - 1
    BY <2>1, LastSplit
  <2>3. /\ Len(t) = n /\ c[n + 1] = x /\ \A i \in 1 .. n : c[i] = t[i]
    BY <2>2, AppendProperties
  <2>4. Q(t)
    BY <1>2, <2>3
  <2>5. Popped(c, s) = Popped(t, s) \o PoppedByte(x, s)
    BY <2>2, PoppedAppend
  <2>6. Popped(t, s) \in Seq(Byte) /\ x.value \in Byte /\ Len(Popped(t, s)) \in Nat
    BY PoppedType, LenProperties DEF ChunkEntry
  <2>7. CASE ~ IsPopOf(x.effect, s)
    <3>1. Popped(c, s) = Popped(t, s)
      BY <2>5, <2>6, <2>7, ConcatEmptySeq DEF PoppedByte
    <3>2. ASSUME Popped(t, s) = <<>>, NEW i \in 1 .. n + 1 PROVE ~ IsPopOf(c[i].effect, s)
      <4>1. i = n + 1 \/ i \in 1 .. n
        OBVIOUS
      <4> QED
        BY <2>3, <2>4, <2>7, <3>2, <4>1
    <3>3. ASSUME EndsAt(t, s) PROVE EndsAt(c, s)
      <4>1. PICK i \in 1 .. n : /\ IsPopOf(t[i].effect, s)
                                /\ \A j \in i + 1 .. n : ~ IsPopOf(t[j].effect, s)
                                /\ Popped(t, s)[Len(Popped(t, s))] = t[i].value
        BY <2>3, <3>3 DEF EndsAt
      <4>2. \A j \in i + 1 .. n + 1 : ~ IsPopOf(c[j].effect, s)
        <5> TAKE j \in i + 1 .. n + 1
        <5>1. j = n + 1 \/ (j \in i + 1 .. n /\ j \in 1 .. n)
          OBVIOUS
        <5> QED
          BY <2>3, <2>7, <4>1, <5>1
      <4>3. i \in 1 .. n + 1 /\ c[i] = t[i]
        BY <2>3
      <4> QED
        BY <2>2, <2>3, <3>1, <4>1, <4>2, <4>3 DEF EndsAt
    <3> QED
      BY <2>2, <2>3, <2>4, <2>6, <3>1, <3>2, <3>3
  <2>8. CASE IsPopOf(x.effect, s)
    <3> DEFINE y == <<x.value>>
               p == Popped(t, s)
    <3>1. y \in Seq(Byte) /\ Len(y) = 1 /\ y[1] = x.value /\ Popped(c, s) = p \o y
      BY <2>5, <2>6, <2>8 DEF PoppedByte
    <3> HIDE DEF y, p
    <3>2. p \in Seq(Byte) /\ Len(p) \in Nat /\ Len(p) <= n
      BY <2>3, <2>4, <2>6 DEF p
    <3>3. /\ Len(p \o y) = Len(p) + Len(y)
          /\ \A i \in 1 .. Len(p) + Len(y) :
               (p \o y)[i] = IF i <= Len(p) THEN p[i] ELSE y[i - Len(p)]
      BY <3>1, <3>2, ConcatProperties
    <3>4. Len(Popped(c, s)) = Len(p) + 1 /\ Popped(c, s)[Len(p) + 1] = x.value
      BY <3>1, <3>2, <3>3
    <3>5. Popped(c, s) # <<>> /\ Len(Popped(c, s)) <= Len(c)
      BY <2>2, <2>3, <3>2, <3>4
    <3>6. EndsAt(c, s)
      <4>1. n + 1 \in 1 .. n + 1 /\ (n + 1) + 1 .. n + 1 = {}
        OBVIOUS
      <4>2. n + 1 = Len(c) /\ c[n + 1].effect = x.effect /\ c[n + 1].value = x.value
        BY <2>3
      <4> QED
        BY <2>8, <3>4, <4>1, <4>2 DEF EndsAt
    <3> QED
      BY <3>5, <3>6
  <2> QED
    BY <2>7, <2>8
<1> HIDE DEF S
<1>3. Nat \subseteq S
  BY <1>1, <1>2, SetInduction
<1> QED
  BY <1>3, LenProperties DEF S

(* A set of numbers has a least one. *)
LEMMA LeastOf ==
  ASSUME NEW T, T \subseteq Nat, T # {}
  PROVE  \E m \in T : \A k \in T : m <= k
<1> DEFINE R == {p \in Nat \X Nat : p[1] < p[2]}
<1>1. IsWellFoundedOn(R, Nat)
  BY NatLessThanWellFounded DEF OpToRel
<1>2. \A x, y \in Nat : x < y => <<x, y>> \in R
  OBVIOUS
<1> HIDE DEF R
<1>3. PICK m \in T : \A k \in T : ~ (<<k, m>> \in R)
  BY <1>1, WFMin
<1>4. \A k \in T : m <= k
  <2> TAKE k \in T
  <2>1. k \in Nat /\ m \in Nat
    OBVIOUS
  <2>2. ~ (<<k, m>> \in R)
    BY <1>3
  <2>3. ~ (k < m)
    BY <1>2, <2>1, <2>2
  <2> QED
    BY <2>1, <2>3
<1> QED
  BY <1>4

(* The last byte of stream s as it was when the i-th byte of chunk c had been *)
(* read: what the next pop replaced, or l if there was none.                 *)
PopsAfter(c, i, s) == {j \in i + 1 .. Len(c) : IsPopOf(c[j].effect, s)}
IsNextPop(c, i, s, j) == j \in PopsAfter(c, i, s) /\ \A k \in PopsAfter(c, i, s) : j <= k

LastAt(c, i, s, l) ==
  IF PopsAfter(c, i, s) = {} THEN l
  ELSE c[CHOOSE j \in PopsAfter(c, i, s) : \A k \in PopsAfter(c, i, s) : j <= k].effect.prev

LEMMA LastCases ==
  ASSUME NEW c, Len(c) \in Nat, NEW i \in Nat, NEW s, NEW l
  PROVE  /\ PopsAfter(c, i, s) = {} => LastAt(c, i, s, l) = l
         /\ \A j : IsNextPop(c, i, s, j) => LastAt(c, i, s, l) = c[j].effect.prev
         /\ PopsAfter(c, i, s) # {} => \E j \in Nat : IsNextPop(c, i, s, j)
<1> DEFINE P == PopsAfter(c, i, s)
           x == CHOOSE j \in P : \A k \in P : j <= k
<1>1. P \subseteq Nat
  BY DEF PopsAfter
<1>2. P # {} => \E j \in Nat : IsNextPop(c, i, s, j)
  <2> HIDE DEF P
  <2>1. SUFFICES ASSUME P # {} PROVE \E j \in Nat : IsNextPop(c, i, s, j)
    OBVIOUS
  <2>2. \E j \in P : \A k \in P : j <= k
    BY <1>1, <2>1, LeastOf
  <2> QED
    BY <1>1, <2>2 DEF P, IsNextPop
<1>3. ASSUME NEW j, IsNextPop(c, i, s, j) PROVE LastAt(c, i, s, l) = c[j].effect.prev
  <2>1. j \in P /\ \A k \in P : j <= k
    BY <1>3 DEF IsNextPop
  <2>2. LastAt(c, i, s, l) = c[x].effect.prev
    BY <2>1 DEF LastAt
  <2> HIDE DEF P
  <2>3. x \in P /\ \A k \in P : x <= k
    BY <2>1
  <2> HIDE DEF x
  <2>4. x = j
    BY <1>1, <2>1, <2>3
  <2> QED
    BY <2>2, <2>4
<1> QED
  BY <1>2, <1>3 DEF LastAt

LEMMA LastAppend ==
  ASSUME NEW c \in Seq(ChunkEntry), NEW e \in ChunkEntry, NEW s, NEW l, NEW i \in 0 .. Len(c)
  PROVE  LastAt(Append(c, e), i, s, l) =
           LastAt(c, i, s, IF IsPopOf(e.effect, s) THEN e.effect.prev ELSE l)
<1> DEFINE r == Append(c, e)
           n == Len(c) + 1
           old == PopsAfter(c, i, s)
           new == PopsAfter(r, i, s)
<1>1. /\ Len(c) \in Nat /\ Len(r) = n /\ r[n] = e /\ n \in Nat /\ Len(r) \in Nat /\ i \in Nat
      /\ \A j \in 1 .. Len(c) : r[j] = c[j]
  BY LenProperties, AppendProperties
<1> HIDE DEF r
<1>2. /\ i + 1 .. n = (i + 1 .. Len(c)) \cup {n} /\ n \notin i + 1 .. Len(c)
      /\ i + 1 .. Len(c) \subseteq 1 .. Len(c)
  BY <1>1
<1>3. new = (IF IsPopOf(e.effect, s) THEN old \cup {n} ELSE old) /\ n \notin old
  <2>1. new = {j \in i + 1 .. n : IsPopOf(r[j].effect, s)}
    BY <1>1 DEF PopsAfter
  <2>2. old = {j \in i + 1 .. Len(c) : IsPopOf(c[j].effect, s)}
    BY DEF PopsAfter
  <2>3. \A j \in i + 1 .. Len(c) : IsPopOf(r[j].effect, s) <=> IsPopOf(c[j].effect, s)
    BY <1>1, <1>2
  <2>4. IsPopOf(r[n].effect, s) <=> IsPopOf(e.effect, s)
    BY <1>1
  <2> HIDE DEF n
  <2> QED
    BY <1>2, <2>1, <2>2, <2>3, <2>4
<1>4. \A k \in old : k <= n /\ r[k] = c[k] /\ k \in Nat
  BY <1>1, <1>2 DEF PopsAfter
<1> HIDE DEF n
<1>5. CASE old # {}
  <2>1. PICK j \in Nat : IsNextPop(c, i, s, j)
    BY <1>1, <1>5, LastCases
  <2>2. j \in old /\ \A k \in old : j <= k
    BY <2>1 DEF IsNextPop
  <2>3. j \in new /\ \A k \in new : j <= k
    BY <1>3, <1>4, <2>2
  <2>4. IsNextPop(r, i, s, j)
    BY <2>3 DEF IsNextPop
  <2>5. \A m : LastAt(c, i, s, m) = c[j].effect.prev
    BY <1>1, <2>1, LastCases
  <2>6. LastAt(r, i, s, l) = r[j].effect.prev
    BY <1>1, <2>4, LastCases
  <2> QED
    BY <1>4, <2>2, <2>5, <2>6 DEF r
<1>6. CASE old = {}
  <2>1. \A m : LastAt(c, i, s, m) = m
    BY <1>6 DEF LastAt
  <2>2. CASE IsPopOf(e.effect, s)
    <3>1. new = {n}
      BY <1>3, <1>6, <2>2
    <3>2. IsNextPop(r, i, s, n)
      BY <1>1, <3>1 DEF IsNextPop
    <3>3. LastAt(r, i, s, l) = r[n].effect.prev
      BY <1>1, <3>2, LastCases
    <3> QED
      BY <1>1, <2>1, <2>2, <3>3 DEF r
  <2>3. CASE ~ IsPopOf(e.effect, s)
    <3>1. LastAt(r, i, s, l) = l
      BY <1>3, <1>6, <2>3 DEF LastAt
    <3> QED
      BY <2>1, <2>3, <3>1 DEF r
  <2> QED
    BY <2>2, <2>3
<1> QED
  BY <1>5, <1>6

LEMMA LastFront ==
  ASSUME NEW c, Len(c) \in Nat, NEW s, NEW l, NEW i \in Nat, i < Len(c)
  PROVE  LastAt(c, i, s, l) =
           IF IsPopOf(c[i + 1].effect, s) THEN c[i + 1].effect.prev ELSE LastAt(c, i + 1, s, l)
<1> DEFINE n == i + 1
<1>1. /\ n \in Nat /\ n + 1 .. Len(c) = (n .. Len(c)) \ {n} /\ n \in n .. Len(c)
      /\ \A k \in n .. Len(c) : n <= k
  OBVIOUS
<1>2. PopsAfter(c, i, s) = {j \in n .. Len(c) : IsPopOf(c[j].effect, s)}
  BY DEF PopsAfter
<1>3. PopsAfter(c, n, s) = {j \in n + 1 .. Len(c) : IsPopOf(c[j].effect, s)}
  BY DEF PopsAfter
<1> HIDE DEF n
<1>4. CASE IsPopOf(c[n].effect, s)
  <2>1. IsNextPop(c, i, s, n)
    BY <1>1, <1>2, <1>4 DEF IsNextPop
  <2> QED
    BY <1>4, <2>1, LastCases DEF n
<1>5. CASE ~ IsPopOf(c[n].effect, s)
  <2>1. PopsAfter(c, i, s) = PopsAfter(c, n, s)
    BY <1>1, <1>2, <1>3, <1>5
  <2> QED
    BY <1>5, <2>1 DEF LastAt, n
<1> QED
  BY <1>4, <1>5

LEMMA LastEnd ==
  ASSUME NEW c, Len(c) \in Nat, NEW s, NEW l
  PROVE  LastAt(c, Len(c), s, l) = l
<1>1. Len(c) + 1 .. Len(c) = {}
  OBVIOUS
<1> QED
  BY <1>1 DEF LastAt, PopsAfter

(* What is known of the bytes in flight.  First, each was read at its place:  *)
(* the i-th byte of the chunk at the register the master will have reached.  *)
Place(i) == Advance(start, Len(wire) + i - 1 - sent)

ReadAt(e, p) ==
  \/ p \notin CsvAddr /\ e.effect = NoEffect
  \/ p \in EmbeddedAddr /\ e.effect = EmbeddedAdvance(p)
  \/ \E s \in StreamId :
       /\ StreamAddr[s] = p
       /\ e.effect = HostUnderrun(s) \/ (IsPopOf(e.effect, s) /\ e.effect.value = e.value)

InPlace == \A i \in sent + 1 .. Len(chunk) : ReadAt(chunk[i], Place(i))

(* A byte that was popped is the last of its stream until the next pop, and a *)
(* byte of an underrun repeats the last one there is.                        *)
LastOf(c, i, s, l) ==
  /\ IsPopOf(c[i].effect, s) => LastAt(c, i, s, l) = c[i].value
  /\ c[i].effect = HostUnderrun(s) /\ LastAt(c, i, s, l) # NoByte =>
       c[i].value = LastAt(c, i, s, l)

LastsKnown ==
  \A i \in sent + 1 .. Len(chunk), s \in StreamId : LastOf(chunk, i, s, last[s])

(* A sample is the one its cursor, taken back by the samples read from it on, *)
(* is at.                                                                    *)
AdvancesOf(a) == {e \in ChunkEntry : e.effect = EmbeddedAdvance(a)}

SampleOf(c, i, a, k) ==
  c[i].effect = EmbeddedAdvance(a) =>
    c[i].value =
      EmbeddedData[a][((k - CountFrom(c, i, AdvancesOf(a))) % Len(EmbeddedData[a])) + 1]

SamplesKnown ==
  \A i \in sent + 1 .. Len(chunk), a \in EmbeddedAddr : SampleOf(chunk, i, a, cursor[a])

InFlightKnown == InPlace /\ LastsKnown /\ SamplesKnown

LEMMA SentWithin ==
  ASSUME TypeOK, ReadProgress
  PROVE  /\ sent \in Nat /\ Len(chunk) \in Nat /\ sent <= Len(chunk)
         /\ chunk \in Seq(ChunkEntry) /\ Len(wire) \in Nat
         /\ pc \in {"listen", "fill"} => sent = 0
         /\ pc = "listen" => chunk = <<>>
<1>1. sent \in 0 .. ReadChunk /\ Len(chunk) \in Nat /\ Len(wire) \in Nat /\ ReadChunk \in Nat
  BY LenProperties, I2cAssumption DEF TypeOK
<1>2. pc \in {"listen", "fill", "respond", "rollback"}
  BY DEF TypeOK
<1> QED
  BY <1>1, <1>2 DEF TypeOK, ReadProgress, IdleRead

(* What steps do to the bytes in flight. *)
Still == UNCHANGED <<cursor, last, chunk, sent, wire, start>>

LEMMA StepKinds ==
  ASSUME TypeOK, ReadProgress, [Next]_vars, ~ HostMayReset
  PROVE  \/ Still \/ chunk' = <<>> \/ MasterTakes \/ UndoRead \/ ReadPlain \/ ReadEmbedded
         \/ \E s \in StreamId : ReadHost(s) \/ ReadUnderrun(s)
<1>1. CASE HandleReset \/ WriteEmpty \/ ListenError
  BY <1>1 DEF HandleReset, WriteEmpty, ListenError, Still, streamVars, readVars
<1>2. ASSUME NEW m \in Messages, Write(m) \/ GeneralCall(m) PROVE Still
  BY <1>2 DEF Write, GeneralCall, Still, streamVars, readVars
<1>3. ASSUME NEW k, NEW p, Listening, ServeRead(k, p) PROVE chunk' = <<>>
  BY <1>3 DEF Listening, ServeRead, ReadProgress, IdleRead
<1>4. CASE Offer \/ LeftoverBytes
  BY <1>4 DEF Offer, LeftoverBytes, Still, streamVars, readVars
<1>5. CASE NeedMoreBytes \/ Done \/ ReadError \/ RecordLeftover
  BY <1>5 DEF NeedMoreBytes, Done, ReadError, RecordLeftover, Return
<1>6. ASSUME NEW s \in StreamId, NEW data \in FeedData, HostFeed(s, data) PROVE Still
  BY <1>6 DEF HostFeed, FeedStream, OtherTaskRuns, Still, readVars
<1>7. CASE RequestReset
  BY <1>7 DEF RequestReset, OtherTaskRuns, Still, streamVars, readVars
<1>8. CASE UNCHANGED vars
  BY <1>8 DEF vars, Still, streamVars, readVars
<1> QED
  BY <1>1, <1>2, <1>3, <1>4, <1>5, <1>6, <1>7, <1>8
  DEF Next, Command, WriteRead, Read, Fill, EndOfRead, Rollback, Host, HostReset

LEMMA ReadIntoChunk ==
  ASSUME TypeOK, ReadProgress, NEW v \in Byte, NEW e \in ReadEffect, ReadInto(v, e)
  PROVE  /\ [value |-> v, effect |-> e] \in ChunkEntry
         /\ chunk' = Append(chunk, [value |-> v, effect |-> e])
         /\ pc = "fill" /\ sent = 0 /\ sent' = 0 /\ wire' = wire /\ start' = start
         /\ chunk' \in Seq(ChunkEntry)
         /\ Len(chunk') = Len(chunk) + 1
         /\ \A i \in 1 .. Len(chunk) : chunk'[i] = chunk[i]
         /\ chunk'[Len(chunk) + 1] = [value |-> v, effect |-> e]
<1>1. [value |-> v, effect |-> e] \in ChunkEntry
  BY DEF ChunkEntry
<1>2. /\ chunk' = Append(chunk, [value |-> v, effect |-> e]) /\ chunk \in Seq(ChunkEntry)
      /\ pc = "fill" /\ sent = 0 /\ sent' = 0 /\ wire' = wire /\ start' = start
  BY DEF ReadInto, ReadProgress, TypeOK
<1> DEFINE x == [value |-> v, effect |-> e]
<1> HIDE DEF x
<1>3. /\ Append(chunk, x) \in Seq(ChunkEntry)
      /\ Len(Append(chunk, x)) = Len(chunk) + 1
      /\ \A i \in 1 .. Len(chunk) : Append(chunk, x)[i] = chunk[i]
      /\ Append(chunk, x)[Len(chunk) + 1] = x
  BY <1>1, <1>2, AppendProperties DEF x
<1> QED
  BY <1>1, <1>2, <1>3 DEF x

LEMMA UndoChunk ==
  ASSUME TypeOK, ReadProgress, UndoRead
  PROVE  /\ Len(chunk) \in Nat \ {0} /\ sent < Len(chunk) /\ pc = "rollback"
         /\ chunk[Len(chunk)] \in ChunkEntry
         /\ chunk' \in Seq(ChunkEntry) /\ Len(chunk') = Len(chunk) - 1
         /\ \A i \in 1 .. Len(chunk) - 1 : chunk'[i] = chunk[i]
         /\ chunk = Append(chunk', chunk[Len(chunk)])
         /\ sent' = sent /\ wire' = wire /\ start' = start
<1>1. /\ Len(chunk) \in Nat /\ sent \in Nat /\ sent < Len(chunk) /\ chunk \in Seq(ChunkEntry)
      /\ chunk' = SubSeq(chunk, 1, Len(chunk) - 1) /\ pc = "rollback"
      /\ sent' = sent /\ wire' = wire /\ start' = start
  BY SentWithin DEF UndoRead
<1>2. /\ chunk[Len(chunk)] \in ChunkEntry
      /\ chunk' \in Seq(ChunkEntry) /\ Len(chunk') = Len(chunk) - 1
      /\ \A i \in 1 .. Len(chunk) - 1 : chunk'[i] = chunk[i]
  BY <1>1, ShorterChunk
<1> DEFINE x == chunk[Len(chunk)]
           r == Append(chunk', x)
<1>3. x \in ChunkEntry /\ Len(chunk) \in Nat \ {0}
  BY <1>1, <1>2
<1> HIDE DEF x
<1>4. /\ r \in Seq(ChunkEntry) /\ Len(r) = Len(chunk') + 1 /\ r[Len(chunk') + 1] = x
      /\ \A i \in 1 .. Len(chunk') : r[i] = chunk'[i]
  BY <1>2, <1>3, AppendProperties
<1> HIDE DEF r
<1>5. ASSUME NEW i \in 1 .. Len(chunk) PROVE chunk[i] = r[i]
  <2>1. i = Len(chunk) \/ i \in 1 .. Len(chunk) - 1
    BY <1>1
  <2> QED
    BY <1>2, <1>3, <1>4, <2>1 DEF x
<1>6. Len(r) = Len(chunk)
  BY <1>2, <1>3, <1>4
<1>7. chunk = r
  BY <1>1, <1>4, <1>5, <1>6, SeqEqual
<1> QED
  BY <1>1, <1>2, <1>3, <1>7 DEF r, x

(* The four ways to read a byte. *)
LEMMA PlainRead ==
  ASSUME TypeOK, ReadPlain
  PROVE  /\ regs[pointer] \in Byte /\ NoEffect \in ReadEffect /\ ReadInto(regs[pointer], NoEffect)
         /\ pointer \notin CsvAddr /\ UNCHANGED streamVars
BY DEF ReadPlain, ReadEffect, TypeOK, RegistersTypeOK

LEMMA EmbeddedRead ==
  ASSUME TypeOK, ReadEmbedded
  PROVE  /\ EmbeddedValue(pointer) \in Byte /\ EmbeddedAdvance(pointer) \in ReadEffect
         /\ ReadInto(EmbeddedValue(pointer), EmbeddedAdvance(pointer))
         /\ pointer \in EmbeddedAddr /\ AdvanceCursor(pointer)
<1>1. /\ pointer \in EmbeddedAddr /\ AdvanceCursor(pointer) /\ StreamsTypeOK
      /\ ReadInto(EmbeddedValue(pointer), EmbeddedAdvance(pointer))
  BY DEF ReadEmbedded, TypeOK
<1>2. EmbeddedAdvance(pointer) \in ReadEffect
  BY <1>1 DEF EmbeddedAdvance, ReadEffect
<1> QED
  BY <1>1, <1>2, EmbeddedValueType

LEMMA HostRead ==
  ASSUME TypeOK, NEW s \in StreamId, ReadHost(s)
  PROVE  /\ Head(queue[s]) \in Byte /\ HostPop(s, Head(queue[s]), last[s]) \in ReadEffect
         /\ ReadInto(Head(queue[s]), HostPop(s, Head(queue[s]), last[s]))
         /\ StreamAddr[s] = pointer /\ PopByte(s)
<1>1. /\ StreamsTypeOK /\ PopByte(s) /\ StreamAddr[s] = pointer
      /\ ReadInto(Head(queue[s]), HostPop(s, Head(queue[s]), last[s]))
  BY DEF ReadHost, TypeOK
<1>2. Head(queue[s]) \in Byte
  BY <1>1, PopByteType
<1>3. HostPop(s, Head(queue[s]), last[s]) \in ReadEffect
  BY <1>1, <1>2 DEF HostPop, ReadEffect, StreamsTypeOK
<1> QED
  BY <1>1, <1>2, <1>3

LEMMA UnderrunRead ==
  ASSUME TypeOK, NEW s \in StreamId, ReadUnderrun(s)
  PROVE  /\ UnderrunValue(s, regs[pointer]) \in Byte /\ HostUnderrun(s) \in ReadEffect
         /\ ReadInto(UnderrunValue(s, regs[pointer]), HostUnderrun(s))
         /\ StreamAddr[s] = pointer /\ CountUnderrun(s)
BY DEF ReadUnderrun, ReadEffect, HostUnderrun, UnderrunValue, TypeOK, StreamsTypeOK,
       RegistersTypeOK

LEMMA NothingAfter ==
  ASSUME NEW c, Len(c) = 0, NEW k \in Nat
  PROVE  k + 1 .. Len(c) = {}
OBVIOUS

(* The places of the bytes in flight. *)
LEMMA InPlaceRead ==
  ASSUME TypeOK, ReadProgress, PointerFollowsMaster, InPlace,
         NEW v \in Byte, NEW e \in ReadEffect, ReadInto(v, e),
         ReadAt([value |-> v, effect |-> e], pointer)
  PROVE  InPlace'
<1>1. /\ pc = "fill" /\ sent = 0 /\ sent' = 0 /\ wire' = wire /\ start' = start
      /\ Len(chunk') = Len(chunk) + 1
      /\ \A i \in 1 .. Len(chunk) : chunk'[i] = chunk[i]
      /\ chunk'[Len(chunk) + 1] = [value |-> v, effect |-> e]
  BY ReadIntoChunk
<1>2. Len(chunk) \in Nat /\ Len(wire) \in Nat
  BY SentWithin
<1>3. pointer = Advance(start, Len(wire) + Len(chunk) - sent)
  BY <1>1 DEF PointerFollowsMaster
<1>4. Len(wire) + (Len(chunk) + 1) - 1 - sent = Len(wire) + Len(chunk) - sent
  BY <1>1, <1>2
<1> SUFFICES ASSUME NEW i \in sent' + 1 .. Len(chunk')
             PROVE  ReadAt(chunk'[i], Advance(start', Len(wire') + i - 1 - sent'))
  BY DEF InPlace, Place
<1>5. CASE i = Len(chunk) + 1
  BY <1>1, <1>3, <1>4, <1>5
<1>6. CASE i # Len(chunk) + 1
  <2>1. i \in sent + 1 .. Len(chunk) /\ i \in 1 .. Len(chunk)
    BY <1>1, <1>2, <1>6
  <2>2. ReadAt(chunk[i], Advance(start, Len(wire) + i - 1 - sent))
    BY <2>1 DEF InPlace, Place
  <2> QED
    BY <1>1, <2>1, <2>2
<1> QED
  BY <1>5, <1>6

LEMMA InPlaceStep ==
  TypeOK /\ ReadProgress /\ PointerFollowsMaster /\ InPlace /\ ~ HostMayReset /\ [Next]_vars
    => InPlace'
<1> SUFFICES ASSUME TypeOK, ReadProgress, PointerFollowsMaster, InPlace, ~ HostMayReset,
                    [Next]_vars
             PROVE  InPlace'
  OBVIOUS
<1>0. /\ sent \in Nat /\ Len(chunk) \in Nat /\ Len(wire) \in Nat /\ sent <= Len(chunk)
  BY SentWithin
<1>1. CASE Still
  BY <1>1 DEF Still, InPlace, Place
<1>2. CASE chunk' = <<>>
  <2>1. TypeOK' /\ Len(chunk') = 0
    BY <1>2, TypeStep
  <2>2. sent' \in Nat
    BY <2>1, I2cAssumption DEF TypeOK
  <2>3. sent' + 1 .. Len(chunk') = {}
    BY <2>1, <2>2, NothingAfter
  <2> QED
    BY <2>3 DEF InPlace
<1>3. CASE MasterTakes
  <2>1. sent + 1 \in 1 .. Len(chunk)
    BY <1>0, <1>3 DEF MasterTakes, ReadProgress
  <2>2. /\ chunk' = chunk /\ sent' = sent + 1 /\ start' = start
        /\ wire' = Append(wire, chunk[sent + 1].value)
    BY <1>3 DEF MasterTakes
  <2>3. Len(wire') = Len(wire) + 1
    <3>1. chunk[sent + 1].value \in Byte /\ wire \in Seq(Byte)
      BY <2>1, TakenByte DEF TypeOK
    <3> QED
      BY <2>2, <3>1, AppendProperties
  <2> SUFFICES ASSUME NEW i \in sent' + 1 .. Len(chunk')
               PROVE  ReadAt(chunk'[i], Advance(start', Len(wire') + i - 1 - sent'))
    BY DEF InPlace, Place
  <2>4. i \in sent + 1 .. Len(chunk) /\ Len(wire') + i - 1 - sent' = Len(wire) + i - 1 - sent
    BY <1>0, <2>2, <2>3
  <2>5. ReadAt(chunk[i], Advance(start, Len(wire) + i - 1 - sent))
    BY <2>4 DEF InPlace, Place
  <2> QED
    BY <2>2, <2>4, <2>5
<1>4. CASE UndoRead
  <2>1. /\ Len(chunk') = Len(chunk) - 1 /\ \A i \in 1 .. Len(chunk) - 1 : chunk'[i] = chunk[i]
        /\ sent' = sent /\ wire' = wire /\ start' = start
    BY <1>4, UndoChunk
  <2> SUFFICES ASSUME NEW i \in sent' + 1 .. Len(chunk')
               PROVE  ReadAt(chunk'[i], Advance(start', Len(wire') + i - 1 - sent'))
    BY DEF InPlace, Place
  <2>2. i \in sent + 1 .. Len(chunk) /\ i \in 1 .. Len(chunk) - 1
    BY <1>0, <2>1
  <2>3. ReadAt(chunk[i], Advance(start, Len(wire) + i - 1 - sent))
    BY <2>2 DEF InPlace, Place
  <2> QED
    BY <2>1, <2>2, <2>3
<1>5. CASE ReadPlain
  <2>1. ReadAt([value |-> regs[pointer], effect |-> NoEffect], pointer)
    BY <1>5, PlainRead DEF ReadAt
  <2> QED
    BY <1>5, <2>1, PlainRead, InPlaceRead
<1>6. CASE ReadEmbedded
  <2>1. ReadAt([value |-> EmbeddedValue(pointer), effect |-> EmbeddedAdvance(pointer)], pointer)
    BY <1>6, EmbeddedRead DEF ReadAt
  <2> QED
    BY <1>6, <2>1, EmbeddedRead, InPlaceRead
<1>7. ASSUME NEW s \in StreamId, ReadHost(s) PROVE InPlace'
  <2> DEFINE v == Head(queue[s])
             e == HostPop(s, v, last[s])
  <2>1. v \in Byte /\ e \in ReadEffect /\ ReadInto(v, e) /\ StreamAddr[s] = pointer
    BY <1>7, HostRead
  <2>2. IsPopOf(e, s) /\ e.value = v
    BY DEF IsPopOf, HostPop
  <2> HIDE DEF v, e
  <2>3. ReadAt([value |-> v, effect |-> e], pointer)
    BY <2>1, <2>2 DEF ReadAt
  <2> QED
    BY <2>1, <2>3, InPlaceRead
<1>8. ASSUME NEW s \in StreamId, ReadUnderrun(s) PROVE InPlace'
  <2>1. ReadAt([value |-> UnderrunValue(s, regs[pointer]), effect |-> HostUnderrun(s)], pointer)
    BY <1>8, UnderrunRead DEF ReadAt
  <2> QED
    BY <1>8, <2>1, UnderrunRead, InPlaceRead
<1> QED
  BY <1>1, <1>2, <1>3, <1>4, <1>5, <1>6, <1>7, <1>8, StepKinds

-------------------------------------------------------------------------------
(* The last bytes. *)
LEMMA LastsRead ==
  ASSUME TypeOK, ReadProgress, LastsKnown,
         NEW v \in Byte, NEW e \in ReadEffect, ReadInto(v, e),
         \A s \in StreamId :
           /\ (IF IsPopOf(e, s) THEN e.prev ELSE last'[s]) = last[s]
           /\ IsPopOf(e, s) => last'[s] = v
           /\ e = HostUnderrun(s) /\ last'[s] # NoByte => v = last'[s]
  PROVE  LastsKnown'
<1> DEFINE x == [value |-> v, effect |-> e]
           n == Len(chunk) + 1
<1>1. /\ x \in ChunkEntry /\ chunk' = Append(chunk, x) /\ x.value = v /\ x.effect = e
      /\ sent = 0 /\ sent' = 0 /\ Len(chunk') = n /\ chunk'[n] = x
      /\ \A i \in 1 .. Len(chunk) : chunk'[i] = chunk[i]
  BY ReadIntoChunk
<1>2. Len(chunk) \in Nat /\ chunk \in Seq(ChunkEntry) /\ n \in Nat /\ Len(chunk') \in Nat
  BY <1>1, SentWithin
<1> HIDE DEF x
<1> SUFFICES ASSUME NEW i \in sent' + 1 .. Len(chunk'), NEW s \in StreamId
             PROVE  LastOf(chunk', i, s, last'[s])
  BY DEF LastsKnown
<1>3. CASE i = n
  <2>1. LastAt(chunk', Len(chunk'), s, last'[s]) = last'[s]
    BY <1>2, LastEnd
  <2> HIDE DEF n
  <2> QED
    BY <1>1, <1>3, <2>1 DEF LastOf
<1>4. CASE i # n
  <2>1. i \in sent + 1 .. Len(chunk) /\ i \in 1 .. Len(chunk) /\ i \in 0 .. Len(chunk)
    BY <1>1, <1>2, <1>4
  <2>2. LastAt(chunk', i, s, last'[s]) =
          LastAt(chunk, i, s, IF IsPopOf(x.effect, s) THEN x.effect.prev ELSE last'[s])
    BY <1>1, <1>2, <2>1, LastAppend
  <2>3. LastAt(chunk', i, s, last'[s]) = LastAt(chunk, i, s, last[s])
    BY <1>1, <2>2
  <2>4. chunk'[i] = chunk[i] /\ LastOf(chunk, i, s, last[s])
    BY <1>1, <2>1 DEF LastsKnown
  <2> QED
    BY <2>3, <2>4 DEF LastOf
<1> QED
  BY <1>3, <1>4

(* The newest effect, and what taking it back does. *)
LEMMA UndoneLast ==
  ASSUME TypeOK, ReadProgress, UndoRead, NEW s \in StreamId
  PROVE  LET e == chunk[Len(chunk)].effect
         IN last'[s] = IF IsPopOf(e, s) THEN e.prev ELSE last[s]
<1> DEFINE e == chunk[Len(chunk)].effect
<1>1. RollbackEffect(e) /\ e \in ReadEffect /\ last \in [StreamId -> Byte \cup {NoByte}]
  BY UndoChunk DEF UndoRead, ChunkEntry, TypeOK, StreamsTypeOK
<1> HIDE DEF e
<1>2. CASE e.kind = "HostPop"
  <2>1. UnpopByte(e.id, e.value, e.prev)
    BY <1>1, <1>2 DEF RollbackEffect
  <2> QED
    BY <1>1, <1>2, <2>1 DEF UnpopByte, IsPopOf, e
<1>3. CASE e.kind # "HostPop"
  <2>1. last' = last
    BY <1>1, <1>3 DEF RollbackEffect, RetreatCursor, UncountUnderrun, streamVars
  <2> QED
    BY <1>3, <2>1 DEF IsPopOf, e
<1> QED
  BY <1>2, <1>3

LEMMA LastsStep ==
  TypeOK /\ ReadProgress /\ LastsKnown /\ ~ HostMayReset /\ [Next]_vars => LastsKnown'
<1> SUFFICES ASSUME TypeOK, ReadProgress, LastsKnown, ~ HostMayReset, [Next]_vars
             PROVE  LastsKnown'
  OBVIOUS
<1>0. /\ sent \in Nat /\ Len(chunk) \in Nat /\ last \in [StreamId -> Byte \cup {NoByte}]
  BY SentWithin DEF TypeOK, StreamsTypeOK
<1>1. CASE Still
  BY <1>1 DEF Still, LastsKnown
<1>2. CASE chunk' = <<>>
  <2>1. TypeOK' /\ Len(chunk') = 0
    BY <1>2, TypeStep
  <2>2. sent' \in Nat
    BY <2>1, I2cAssumption DEF TypeOK
  <2>3. sent' + 1 .. Len(chunk') = {}
    BY <2>1, <2>2, NothingAfter
  <2> QED
    BY <2>3 DEF LastsKnown
<1>3. CASE MasterTakes
  <2>1. chunk' = chunk /\ sent' = sent + 1 /\ last' = last
    BY <1>3 DEF MasterTakes, streamVars
  <2>2. sent' + 1 .. Len(chunk') \subseteq sent + 1 .. Len(chunk)
    BY <1>0, <2>1
  <2> QED
    BY <2>1, <2>2 DEF LastsKnown
<1>4. CASE UndoRead
  <2> DEFINE x == chunk[Len(chunk)]
  <2>1. /\ chunk' \in Seq(ChunkEntry) /\ x \in ChunkEntry /\ chunk = Append(chunk', x)
        /\ Len(chunk') = Len(chunk) - 1 /\ \A i \in 1 .. Len(chunk) - 1 : chunk'[i] = chunk[i]
        /\ sent' = sent
    BY <1>4, UndoChunk
  <2>2. \A s \in StreamId :
          last'[s] = IF IsPopOf(x.effect, s) THEN x.effect.prev ELSE last[s]
    BY <1>4, UndoneLast
  <2> HIDE DEF x
  <2> SUFFICES ASSUME NEW i \in sent' + 1 .. Len(chunk'), NEW s \in StreamId
               PROVE  LastOf(chunk', i, s, last'[s])
    BY DEF LastsKnown
  <2>3. i \in 0 .. Len(chunk') /\ i \in sent + 1 .. Len(chunk) /\ i \in 1 .. Len(chunk) - 1
    BY <1>0, <2>1
  <2>4. LastAt(chunk, i, s, last[s]) = LastAt(chunk', i, s, last'[s])
    <3> DEFINE d == chunk'
    <3>1. /\ d \in Seq(ChunkEntry) /\ i \in 0 .. Len(d) /\ chunk = Append(d, x)
      BY <2>1, <2>3
    <3> HIDE DEF d
    <3>2. LastAt(Append(d, x), i, s, last[s]) =
            LastAt(d, i, s, IF IsPopOf(x.effect, s) THEN x.effect.prev ELSE last[s])
      BY <2>1, <3>1, LastAppend
    <3> QED
      BY <2>2, <3>1, <3>2 DEF d
  <2>5. LastOf(chunk, i, s, last[s]) /\ chunk'[i] = chunk[i]
    BY <2>1, <2>3 DEF LastsKnown
  <2> QED
    BY <2>4, <2>5 DEF LastOf
<1>5. CASE ReadPlain
  <2>1. \A s \in StreamId :
          /\ ~ IsPopOf(NoEffect, s) /\ NoEffect # HostUnderrun(s)
          /\ last'[s] = last[s]
    BY <1>5, PlainRead DEF IsPopOf, NoEffect, HostUnderrun, streamVars
  <2> QED
    BY <1>5, <2>1, PlainRead, LastsRead
<1>6. CASE ReadEmbedded
  <2> DEFINE e == EmbeddedAdvance(pointer)
  <2>1. /\ EmbeddedValue(pointer) \in Byte /\ e \in ReadEffect
        /\ ReadInto(EmbeddedValue(pointer), e)
    BY <1>6, EmbeddedRead
  <2>2. \A s \in StreamId :
          /\ ~ IsPopOf(e, s) /\ e # HostUnderrun(s) /\ last'[s] = last[s]
    BY <1>6, EmbeddedRead DEF IsPopOf, EmbeddedAdvance, HostUnderrun, AdvanceCursor
  <2> HIDE DEF e
  <2> QED
    BY <2>1, <2>2, LastsRead
<1>7. ASSUME NEW t \in StreamId, ReadHost(t) PROVE LastsKnown'
  <2> DEFINE v == Head(queue[t])
             e == HostPop(t, v, last[t])
  <2>1. v \in Byte /\ e \in ReadEffect /\ ReadInto(v, e) /\ PopByte(t)
    BY <1>7, HostRead
  <2>2. \A s \in StreamId :
          /\ IsPopOf(e, s) <=> s = t
          /\ e # HostUnderrun(s)
    BY DEF IsPopOf, HostPop, HostUnderrun
  <2>3. e.prev = last[t]
    BY DEF HostPop
  <2>4. \A s \in StreamId : last'[s] = IF s = t THEN v ELSE last[s]
    BY <1>0, <2>1 DEF PopByte
  <2> HIDE DEF v, e
  <2> QED
    BY <2>1, <2>2, <2>3, <2>4, LastsRead
<1>8. ASSUME NEW t \in StreamId, ReadUnderrun(t) PROVE LastsKnown'
  <2> DEFINE v == UnderrunValue(t, regs[pointer])
             e == HostUnderrun(t)
  <2>1. v \in Byte /\ e \in ReadEffect /\ ReadInto(v, e) /\ last' = last
    BY <1>8, UnderrunRead DEF CountUnderrun
  <2>2. \A s \in StreamId : ~ IsPopOf(e, s) /\ (e = HostUnderrun(s) => s = t)
    BY DEF IsPopOf, HostUnderrun
  <2>3. last[t] # NoByte => v = last[t]
    BY DEF UnderrunValue
  <2> HIDE DEF v, e
  <2> QED
    BY <2>1, <2>2, <2>3, LastsRead
<1> QED
  BY <1>1, <1>2, <1>3, <1>4, <1>5, <1>6, <1>7, <1>8, StepKinds

(* A cursor that moved with the number of samples in flight. *)
LEMMA Shifted ==
  ASSUME NEW r \in Nat \ {0}, NEW c \in Int, NEW d \in Int, NEW k \in Int
  PROVE  (((c + d) % r) - (k + d)) % r = (c - k) % r
<1> DEFINE a == c + d
           n == -(k + d)
<1>1. a \in Int /\ n \in Int /\ a + n = c - k
  OBVIOUS
<1>2. a % r \in Int /\ (a % r) + n = (a % r) - (k + d)
  <2>1. a % r \in Int
    BY <1>1, DivMod
  <2> HIDE DEF a
  <2> QED
    BY <2>1
<1> HIDE DEF a, n
<1>3. ((a % r) + n) % r = (a + n) % r
  BY <1>1, ModPlus
<1> QED
  BY <1>1, <1>2, <1>3 DEF a

LEMMA CountBeyond ==
  ASSUME NEW q, Len(q) \in Nat, NEW T
  PROVE  CountFrom(q, Len(q) + 1, T) = 0
<1>1. Len(q) + 1 .. Len(q) = {}
  OBVIOUS
<1>2. PlacesFrom(q, Len(q) + 1, T) = {}
  BY <1>1 DEF PlacesFrom
<1> QED
  BY <1>2, FS_EmptySet DEF CountFrom

(* The samples in flight after one more byte has been read. *)
LEMMA SamplesRead ==
  ASSUME TypeOK, ReadProgress, SamplesKnown,
         NEW v \in Byte, NEW e \in ReadEffect, ReadInto(v, e),
         \A a \in EmbeddedAddr :
           IF e = EmbeddedAdvance(a)
           THEN /\ cursor'[a] = (cursor[a] + 1) % Len(EmbeddedData[a])
                /\ v = EmbeddedData[a][cursor[a] + 1]
           ELSE cursor'[a] = cursor[a]
  PROVE  SamplesKnown'
<1> DEFINE x == [value |-> v, effect |-> e]
           n == Len(chunk) + 1
<1>1. /\ x \in ChunkEntry /\ chunk' = Append(chunk, x) /\ x.value = v /\ x.effect = e
      /\ sent = 0 /\ sent' = 0 /\ Len(chunk') = n /\ chunk'[n] = x
      /\ \A i \in 1 .. Len(chunk) : chunk'[i] = chunk[i]
  BY ReadIntoChunk
<1>2. Len(chunk) \in Nat /\ chunk \in Seq(ChunkEntry) /\ n \in Nat
  BY <1>1, SentWithin
<1> HIDE DEF x
<1> SUFFICES ASSUME NEW i \in sent' + 1 .. Len(chunk'), NEW a \in EmbeddedAddr
             PROVE  SampleOf(chunk', i, a, cursor'[a])
  BY DEF SamplesKnown
<1> DEFINE T == AdvancesOf(a)
           r == Len(EmbeddedData[a])
           k == CountFrom(chunk, i, T)
           c == cursor[a]
           d == IF e = EmbeddedAdvance(a) THEN 1 ELSE 0
<1>3. i \in 1 .. Len(chunk) + 1 /\ i \in Nat
  BY <1>1, <1>2
<1>4. CountFrom(chunk', i, T) = k + (IF x \in T THEN 1 ELSE 0)
  BY <1>1, <1>2, <1>3, CountAppend
<1>5. x \in T <=> e = EmbeddedAdvance(a)
  BY <1>1 DEF AdvancesOf
<1>6. r \in Nat \ {0} /\ c \in 0 .. r - 1 /\ k \in Nat
  BY <1>2, <1>3, SamplesNotEmpty, CountType DEF TypeOK, StreamsTypeOK
<1>7. cursor'[a] = IF e = EmbeddedAdvance(a) THEN (c + 1) % r ELSE c
  OBVIOUS
<1>8. v = EmbeddedData[a][c + 1] \/ e # EmbeddedAdvance(a)
  OBVIOUS
<1> HIDE DEF T, r, k, c
<1>9. (cursor'[a] - CountFrom(chunk', i, T)) % r = (c - k) % r
  <2>1. CASE e = EmbeddedAdvance(a)
    <3>1. (((c + 1) % r) - (k + 1)) % r = (c - k) % r
      <4>1. r \in Nat \ {0} /\ c \in Int /\ 1 \in Int /\ k \in Int
        BY <1>6
      <4> QED
        BY <4>1, Shifted, Zenon
    <3> QED
      BY <1>4, <1>5, <1>7, <2>1, <3>1
  <2>2. CASE e # EmbeddedAdvance(a)
    <3>1. CountFrom(chunk', i, T) = k
      BY <1>4, <1>5, <1>6, <2>2
    <3> QED
      BY <1>7, <2>2, <3>1
  <2> QED
    BY <2>1, <2>2
<1>10. CASE i = n
  <2>1. k = 0
    <3>1. CountFrom(chunk, Len(chunk) + 1, T) = 0
      BY <1>2, CountBeyond
    <3> QED
      BY <1>10, <3>1 DEF k
  <2>2. (c - k) % r = c
    BY <1>6, <2>1, Wrap
  <2> HIDE DEF n
  <2> QED
    BY <1>1, <1>8, <1>9, <1>10, <2>2 DEF SampleOf, T, r
<1>11. CASE i # n
  <2>1. i \in sent + 1 .. Len(chunk) /\ i \in 1 .. Len(chunk)
    BY <1>1, <1>2, <1>3, <1>11
  <2>2. SampleOf(chunk, i, a, c) /\ chunk'[i] = chunk[i]
    BY <1>1, <2>1 DEF SamplesKnown, c
  <2> QED
    BY <1>9, <2>2 DEF SampleOf, T, r, k
<1> QED
  BY <1>10, <1>11

LEMMA UndoneCursor ==
  ASSUME TypeOK, ReadProgress, UndoRead, NEW a \in EmbeddedAddr
  PROVE  LET r == Len(EmbeddedData[a])
         IN cursor'[a] = IF chunk[Len(chunk)].effect = EmbeddedAdvance(a)
                         THEN (cursor[a] + (-1)) % r ELSE cursor[a]
<1> DEFINE e == chunk[Len(chunk)].effect
           r == Len(EmbeddedData[a])
           c == cursor[a]
<1>1. RollbackEffect(e) /\ e \in ReadEffect /\ cursor \in [EmbeddedAddr -> Nat]
  BY UndoChunk DEF UndoRead, ChunkEntry, TypeOK, StreamsTypeOK
<1>2. r \in Nat \ {0} /\ c \in 0 .. r - 1
  BY SamplesNotEmpty DEF TypeOK, StreamsTypeOK
<1> HIDE DEF e
<1>3. CASE e.kind = "EmbeddedAdvance"
  <2>1. e = EmbeddedAdvance(e.addr) /\ RetreatCursor(e.addr)
    BY <1>1, <1>3 DEF RollbackEffect, ReadEffect, NoEffect, EmbeddedAdvance
  <2>2. e = EmbeddedAdvance(a) <=> e.addr = a
    BY <2>1 DEF EmbeddedAdvance
  <2>3. cursor'[a] = IF e.addr = a THEN (IF c = 0 THEN r - 1 ELSE c - 1) ELSE c
    BY <1>1, <2>1 DEF RetreatCursor
  <2>4. (c + (-1)) % r = IF c = 0 THEN r - 1 ELSE c - 1
    <3> HIDE DEF c, r
    <3> DEFINE b == c + (-1)
    <3>1. b \in Int /\ (c = 0 => b \in -r .. -1 /\ b + r = r - 1)
          /\ (c # 0 => b \in 0 .. r - 1 /\ b = c - 1)
      BY <1>2
    <3> HIDE DEF b
    <3>2. /\ b \in 0 .. r - 1 => b % r = b
          /\ b \in -r .. -1 => b % r = b + r
      BY <1>2, <3>1, Wrap
    <3> QED
      BY <3>1, <3>2 DEF b
  <2> QED
    BY <2>2, <2>3, <2>4 DEF e
<1>4. CASE e.kind # "EmbeddedAdvance"
  <2>1. cursor' = cursor /\ e # EmbeddedAdvance(a)
    BY <1>1, <1>4 DEF RollbackEffect, UnpopByte, UncountUnderrun, streamVars, EmbeddedAdvance
  <2> QED
    BY <2>1 DEF e
<1> QED
  BY <1>3, <1>4

LEMMA SamplesUndo ==
  ASSUME TypeOK, ReadProgress, SamplesKnown, UndoRead
  PROVE  SamplesKnown'
<1> DEFINE x == chunk[Len(chunk)]
           q == chunk'
<1>1. /\ q \in Seq(ChunkEntry) /\ x \in ChunkEntry /\ chunk = Append(q, x)
      /\ Len(q) = Len(chunk) - 1 /\ \A i \in 1 .. Len(chunk) - 1 : q[i] = chunk[i]
      /\ sent' = sent /\ sent \in Nat /\ Len(chunk) \in Nat
  BY UndoChunk, SentWithin
<1> SUFFICES ASSUME NEW i \in sent' + 1 .. Len(chunk'), NEW a \in EmbeddedAddr
             PROVE  SampleOf(chunk', i, a, cursor'[a])
  BY DEF SamplesKnown
<1> DEFINE T == AdvancesOf(a)
           r == Len(EmbeddedData[a])
           k == CountFrom(q, i, T)
           c == cursor[a]
<1>2. cursor'[a] = IF x.effect = EmbeddedAdvance(a) THEN (c + (-1)) % r ELSE c
  BY UndoneCursor
<1> HIDE DEF x, q
<1>3. i \in 1 .. Len(q) + 1 /\ i \in Nat /\ i \in sent + 1 .. Len(chunk) /\ i \in 1 .. Len(chunk) - 1
  BY <1>1 DEF q
<1>4. CountFrom(chunk, i, T) = k + (IF x \in T THEN 1 ELSE 0)
  <2>1. CountFrom(Append(q, x), i, T) = k + (IF x \in T THEN 1 ELSE 0)
    BY <1>1, <1>3, CountAppend
  <2> QED
    BY <1>1, <2>1
<1>5. x \in T <=> x.effect = EmbeddedAdvance(a)
  BY <1>1 DEF AdvancesOf
<1>6. r \in Nat \ {0} /\ c \in 0 .. r - 1 /\ k \in Nat
  BY <1>1, <1>3, SamplesNotEmpty, CountType DEF TypeOK, StreamsTypeOK
<1>7. SampleOf(chunk, i, a, c) /\ q[i] = chunk[i]
  BY <1>1, <1>3 DEF SamplesKnown
<1> HIDE DEF T, r, k, c
<1>8. (cursor'[a] - k) % r = (c - CountFrom(chunk, i, T)) % r
  <2>1. CASE x.effect = EmbeddedAdvance(a)
    <3>1. (((c + (-1)) % r) - ((k + 1) + (-1))) % r = (c - (k + 1)) % r
      <4>1. r \in Nat \ {0} /\ c \in Int /\ -1 \in Int /\ k + 1 \in Int
        BY <1>6
      <4> QED
        BY <4>1, Shifted, Zenon
    <3>2. (k + 1) + (-1) = k
      BY <1>6
    <3> QED
      BY <1>2, <1>4, <1>5, <2>1, <3>1, <3>2
  <2>2. CASE x.effect # EmbeddedAdvance(a)
    <3>1. CountFrom(chunk, i, T) = k
      BY <1>4, <1>5, <1>6, <2>2
    <3> QED
      BY <1>2, <2>2, <3>1
  <2> QED
    BY <2>1, <2>2
<1> QED
  BY <1>7, <1>8 DEF SampleOf, T, r, k, c, q

LEMMA SamplesStep ==
  TypeOK /\ ReadProgress /\ SamplesKnown /\ ~ HostMayReset /\ [Next]_vars => SamplesKnown'
<1> SUFFICES ASSUME TypeOK, ReadProgress, SamplesKnown, ~ HostMayReset, [Next]_vars
             PROVE  SamplesKnown'
  OBVIOUS
<1>0. sent \in Nat /\ Len(chunk) \in Nat /\ cursor \in [EmbeddedAddr -> Nat]
  BY SentWithin DEF TypeOK, StreamsTypeOK
<1>1. CASE Still
  BY <1>1 DEF Still, SamplesKnown
<1>2. CASE chunk' = <<>>
  <2>1. TypeOK' /\ Len(chunk') = 0
    BY <1>2, TypeStep
  <2>2. sent' \in Nat
    BY <2>1, I2cAssumption DEF TypeOK
  <2>3. sent' + 1 .. Len(chunk') = {}
    BY <2>1, <2>2, NothingAfter
  <2> QED
    BY <2>3 DEF SamplesKnown
<1>3. CASE MasterTakes
  <2>1. chunk' = chunk /\ sent' = sent + 1 /\ cursor' = cursor
    BY <1>3 DEF MasterTakes, streamVars
  <2>2. sent' + 1 .. Len(chunk') \subseteq sent + 1 .. Len(chunk)
    BY <1>0, <2>1
  <2> QED
    BY <2>1, <2>2 DEF SamplesKnown
<1>4. CASE UndoRead
  BY <1>4, SamplesUndo
<1>5. CASE ReadPlain
  <2>1. \A a \in EmbeddedAddr : NoEffect # EmbeddedAdvance(a) /\ cursor'[a] = cursor[a]
    BY <1>5, PlainRead DEF NoEffect, EmbeddedAdvance, streamVars
  <2> QED
    BY <1>5, <2>1, PlainRead, SamplesRead
<1>6. CASE ReadEmbedded
  <2> DEFINE v == EmbeddedValue(pointer)
             e == EmbeddedAdvance(pointer)
  <2>1. v \in Byte /\ e \in ReadEffect /\ ReadInto(v, e) /\ AdvanceCursor(pointer)
    BY <1>6, EmbeddedRead
  <2>2. \A a \in EmbeddedAddr : e = EmbeddedAdvance(a) <=> a = pointer
    BY DEF EmbeddedAdvance
  <2>3. v = EmbeddedData[pointer][cursor[pointer] + 1]
    BY DEF EmbeddedValue
  <2>4. \A a \in EmbeddedAddr :
          cursor'[a] = IF a = pointer THEN (cursor[a] + 1) % Len(EmbeddedData[a]) ELSE cursor[a]
    BY <1>0, <2>1 DEF AdvanceCursor
  <2> HIDE DEF v, e
  <2>5. \A a \in EmbeddedAddr :
          IF e = EmbeddedAdvance(a)
          THEN /\ cursor'[a] = (cursor[a] + 1) % Len(EmbeddedData[a])
               /\ v = EmbeddedData[a][cursor[a] + 1]
          ELSE cursor'[a] = cursor[a]
    BY <2>2, <2>3, <2>4
  <2> QED
    BY <2>1, <2>5, SamplesRead
<1>7. ASSUME NEW t \in StreamId, ReadHost(t) PROVE SamplesKnown'
  <2> DEFINE v == Head(queue[t])
             e == HostPop(t, v, last[t])
  <2>1. v \in Byte /\ e \in ReadEffect /\ ReadInto(v, e) /\ cursor' = cursor
    BY <1>7, HostRead DEF PopByte
  <2>2. \A a \in EmbeddedAddr : e # EmbeddedAdvance(a)
    BY DEF EmbeddedAdvance, HostPop
  <2> HIDE DEF v, e
  <2> QED
    BY <2>1, <2>2, SamplesRead
<1>8. ASSUME NEW t \in StreamId, ReadUnderrun(t) PROVE SamplesKnown'
  <2> DEFINE v == UnderrunValue(t, regs[pointer])
             e == HostUnderrun(t)
  <2>1. v \in Byte /\ e \in ReadEffect /\ ReadInto(v, e) /\ cursor' = cursor
    BY <1>8, UnderrunRead DEF CountUnderrun
  <2>2. \A a \in EmbeddedAddr : e # EmbeddedAdvance(a)
    BY DEF EmbeddedAdvance, HostUnderrun
  <2> HIDE DEF v, e
  <2> QED
    BY <2>1, <2>2, SamplesRead
<1> QED
  BY <1>1, <1>2, <1>3, <1>4, <1>5, <1>6, <1>7, <1>8, StepKinds

LEMMA InFlightInit == Init => InFlightKnown
<1> SUFFICES ASSUME Init PROVE InFlightKnown
  OBVIOUS
<1>1. sent = 0 /\ Len(chunk) = 0
  BY DEF Init, IdleRead
<1>2. sent + 1 .. Len(chunk) = {}
  BY <1>1
<1> QED
  BY <1>2 DEF InFlightKnown, InPlace, LastsKnown, SamplesKnown

LEMMA InFlightStep ==
  TypeOK /\ ReadProgress /\ PointerFollowsMaster /\ InFlightKnown /\ ~ HostMayReset /\ [Next]_vars
    => InFlightKnown'
BY InPlaceStep, LastsStep, SamplesStep DEF InFlightKnown

(* The state of the contract, by what is counted of the chunk. *)
LEMMA AheadPlaces ==
  ASSUME NEW c \in Seq(ChunkEntry), NEW k \in Nat, NEW a
  PROVE  {i \in k + 1 .. Len(c) : c[i].effect = EmbeddedAdvance(a)} =
           PlacesFrom(c, k + 1, AdvancesOf(a))
<1>1. \A i \in 1 .. Len(c) : c[i] \in ChunkEntry
  BY ElementOfSeq
<1>2. \A i \in k + 1 .. Len(c) : i \in 1 .. Len(c)
  BY LenProperties
<1> QED
  BY <1>1, <1>2 DEF PlacesFrom, AdvancesOf

LEMMA LatestIs ==
  ASSUME NEW s
  PROVE  Latest(s) = LastAt(chunk, sent, s, last[s])
BY DEF Latest, PopsInFlight, LastAt, PopsAfter

LEMMA LatestNext ==
  ASSUME NEW s
  PROVE  Latest(s)' = LastAt(chunk', sent', s, last'[s])
BY DEF Latest, PopsInFlight, LastAt, PopsAfter

LEMMA PositionIs ==
  ASSUME NEW a, chunk \in Seq(ChunkEntry), sent \in Nat
  PROVE  Position(a) =
           (cursor[a] - CountFrom(chunk, sent + 1, AdvancesOf(a))) % Len(EmbeddedData[a])
BY AheadPlaces DEF Position, CountFrom

LEMMA PositionNext ==
  ASSUME NEW a, chunk' \in Seq(ChunkEntry), sent' \in Nat
  PROVE  Position(a)' =
           (cursor'[a] - CountFrom(chunk', sent' + 1, AdvancesOf(a))) % Len(EmbeddedData[a])
<1> DEFINE c == chunk'
           k == sent'
<1>1. {i \in k + 1 .. Len(c) : c[i].effect = EmbeddedAdvance(a)} =
        PlacesFrom(c, k + 1, AdvancesOf(a))
  <2> HIDE DEF c, k
  <2>1. c \in Seq(ChunkEntry) /\ k \in Nat
    BY DEF c, k
  <2> QED
    BY <2>1, AheadPlaces
<1> QED
  BY <1>1 DEF Position, CountFrom

(* The chunk with nothing in flight. *)
LEMMA NoneInFlight ==
  ASSUME NEW c \in Seq(ChunkEntry), NEW k \in Nat, k = Len(c)
  PROVE  /\ SubSeq(c, k + 1, Len(c)) = <<>>
         /\ \A s, l : LastAt(c, k, s, l) = l
         /\ \A T : CountFrom(c, k + 1, T) = 0
<1>1. k \in 0 .. Len(c) /\ Len(c) \in Nat /\ Len(c) - k = 0
  OBVIOUS
<1>2. SubSeq(c, k + 1, Len(c)) \in Seq(ChunkEntry) /\ Len(SubSeq(c, k + 1, Len(c))) = 0
  BY <1>1, RestOf
<1>3. SubSeq(c, k + 1, Len(c)) = <<>>
  BY <1>2, EmptySeq
<1> QED
  BY <1>1, <1>3, LastEnd, CountBeyond

(* What the steps do to the bytes in flight, as a sequence. *)
LEMMA FlightType ==
  ASSUME TypeOK, ReadProgress
  PROVE  /\ ChunkInFlight \in Seq(ChunkEntry)
         /\ Len(ChunkInFlight) = Len(chunk) - sent
         /\ \A i \in 1 .. Len(chunk) - sent : ChunkInFlight[i] = chunk[sent + i]
<1>1. chunk \in Seq(ChunkEntry) /\ sent \in 0 .. Len(chunk)
  BY SentWithin
<1> QED
  BY <1>1, RestOf DEF ChunkInFlight

LEMMA ReadIntoFlight ==
  ASSUME TypeOK, ReadProgress, TypeOK', ReadProgress',
         NEW v \in Byte, NEW e \in ReadEffect, ReadInto(v, e)
  PROVE  /\ ChunkInFlight = chunk /\ ChunkInFlight' = chunk'
         /\ ChunkInFlight' = Append(ChunkInFlight, [value |-> v, effect |-> e])
<1>1. /\ sent = 0 /\ sent' = 0 /\ chunk' = Append(chunk, [value |-> v, effect |-> e])
      /\ chunk \in Seq(ChunkEntry) /\ chunk' \in Seq(ChunkEntry)
  BY ReadIntoChunk, SentWithin
<1>2. \A c \in Seq(ChunkEntry) : SubSeq(c, 0 + 1, Len(c)) = c
  <2> TAKE c \in Seq(ChunkEntry)
  <2>1. 0 + 1 = 1
    OBVIOUS
  <2>2. SubSeq(c, 1, Len(c)) = c
    BY SubSeqFull
  <2> QED
    BY <2>1, <2>2
<1> QED
  BY <1>1, <1>2 DEF ChunkInFlight

LEMMA UndoFlight ==
  ASSUME TypeOK, ReadProgress, UndoRead
  PROVE  /\ ChunkInFlight' \in Seq(ChunkEntry)
         /\ ChunkInFlight = Append(ChunkInFlight', chunk[Len(chunk)])
<1> DEFINE x == chunk[Len(chunk)]
           d == chunk'
           f == SubSeq(d, sent + 1, Len(d))
           r == Append(f, x)
<1>1. /\ sent' = sent /\ sent \in Nat /\ x \in ChunkEntry /\ Len(chunk) \in Nat
      /\ d \in Seq(ChunkEntry) /\ Len(d) = Len(chunk) - 1 /\ sent < Len(chunk)
      /\ \A i \in 1 .. Len(chunk) - 1 : d[i] = chunk[i]
  BY UndoChunk, SentWithin
<1>2. ChunkInFlight' = f
  BY <1>1 DEF ChunkInFlight
<1> HIDE DEF x, d
<1>3. sent \in 0 .. Len(d) /\ Len(d) \in Nat
  BY <1>1
<1>4. /\ f \in Seq(ChunkEntry) /\ Len(f) = Len(d) - sent
      /\ \A i \in 1 .. Len(d) - sent : f[i] = d[sent + i]
  BY <1>1, <1>3, RestOf
<1>5. /\ ChunkInFlight \in Seq(ChunkEntry) /\ Len(ChunkInFlight) = Len(chunk) - sent
      /\ \A i \in 1 .. Len(chunk) - sent : ChunkInFlight[i] = chunk[sent + i]
  BY FlightType
<1> HIDE DEF f
<1>6. /\ r \in Seq(ChunkEntry) /\ Len(r) = Len(f) + 1 /\ r[Len(f) + 1] = x
      /\ \A i \in 1 .. Len(f) : r[i] = f[i]
  BY <1>1, <1>4, AppendProperties
<1> HIDE DEF r
<1>7. Len(r) = Len(ChunkInFlight) /\ Len(f) + 1 = Len(chunk) - sent
  BY <1>1, <1>4, <1>5, <1>6
<1>8. ASSUME NEW i \in 1 .. Len(r) PROVE r[i] = ChunkInFlight[i]
  <2>1. i \in 1 .. Len(chunk) - sent
    BY <1>5, <1>7
  <2>2. CASE i = Len(f) + 1
    <3>1. sent + i = Len(chunk)
      <4>1. i = Len(chunk) - sent
        BY <1>7, <2>2
      <4>2. \A m, n \in Nat : m + (n - m) = n
        OBVIOUS
      <4> QED
        BY <1>1, <4>1, <4>2
    <3> QED
      BY <1>5, <1>6, <2>1, <2>2, <3>1 DEF x
  <2>3. CASE i # Len(f) + 1
    <3>1. i \in 1 .. Len(f) /\ i \in 1 .. Len(d) - sent /\ sent + i \in 1 .. Len(chunk) - 1
      BY <1>1, <1>4, <1>7, <2>1, <2>3
    <3> QED
      BY <1>1, <1>4, <1>5, <1>6, <2>1, <3>1
  <2> QED
    BY <2>2, <2>3
<1>9. r = ChunkInFlight
  BY <1>5, <1>6, <1>7, <1>8, SeqEqual
<1> QED
  BY <1>2, <1>4, <1>9 DEF r, x

LEMMA TakenFlight ==
  ASSUME TypeOK, ReadProgress, MasterTakes
  PROVE  /\ ChunkInFlight \in Seq(ChunkEntry) /\ ChunkInFlight # <<>>
         /\ Head(ChunkInFlight) = chunk[sent + 1]
         /\ Tail(ChunkInFlight) = ChunkInFlight'
<1> DEFINE k == sent + 1
           f == SubSeq(chunk, k + 1, Len(chunk))
           t == Tail(ChunkInFlight)
<1>1. /\ chunk' = chunk /\ sent' = k /\ sent \in Nat /\ k \in 0 .. Len(chunk)
      /\ Len(chunk) \in Nat /\ chunk \in Seq(ChunkEntry) /\ Len(chunk) - sent >= 1
  BY SentWithin DEF MasterTakes, ReadProgress
<1>2. /\ ChunkInFlight \in Seq(ChunkEntry) /\ Len(ChunkInFlight) = Len(chunk) - sent
      /\ \A i \in 1 .. Len(chunk) - sent : ChunkInFlight[i] = chunk[sent + i]
  BY FlightType
<1>3. ChunkInFlight' = f
  BY <1>1 DEF ChunkInFlight
<1>4. /\ f \in Seq(ChunkEntry) /\ Len(f) = Len(chunk) - k
      /\ \A i \in 1 .. Len(chunk) - k : f[i] = chunk[k + i]
  BY <1>1, RestOf
<1> HIDE DEF f
<1>5. ChunkInFlight # <<>> /\ Head(ChunkInFlight) = ChunkInFlight[1]
  BY <1>1, <1>2, EmptySeq
<1>6. /\ t \in Seq(ChunkEntry) /\ Len(t) = Len(ChunkInFlight) - 1
      /\ \A i \in 1 .. Len(t) : t[i] = ChunkInFlight[i + 1]
  BY <1>2, <1>5, HeadTailProperties
<1> HIDE DEF t
<1>7. Len(t) = Len(f)
  BY <1>1, <1>2, <1>4, <1>6
<1>8. ASSUME NEW i \in 1 .. Len(t) PROVE t[i] = f[i]
  <2>1. /\ i \in 1 .. Len(chunk) - k /\ i + 1 \in 1 .. Len(chunk) - sent
        /\ sent + (i + 1) = k + i
    <3>1. PICK m \in Nat, n \in Nat : m = sent /\ n = Len(chunk)
      BY <1>1
    <3>2. i \in 1 .. (n - m) - 1
      BY <1>2, <1>6, <3>1
    <3>3. /\ i \in 1 .. n - (m + 1) /\ i + 1 \in 1 .. n - m
          /\ m + (i + 1) = (m + 1) + i
      BY <3>2
    <3> QED
      BY <3>1, <3>3
  <2> QED
    BY <1>2, <1>4, <1>6, <2>1
<1>9. t = f
  BY <1>4, <1>6, <1>7, <1>8, SeqEqual
<1>10. 1 \in 1 .. Len(chunk) - sent
  BY <1>1
<1> QED
  BY <1>2, <1>3, <1>5, <1>9, <1>10 DEF t

PointerBar == IF pc = "rollback" THEN pointer ELSE Retreat(pointer, Len(ChunkInFlight))

Books == TypeOK /\ ReadProgress /\ PointerFollowsMaster

LEMMA PointerView ==
  Books => /\ pc = "listen" => PointerBar = pointer
           /\ pc # "listen" => PointerBar = Advance(start, Len(wire))
<1> SUFFICES ASSUME Books
             PROVE  /\ pc = "listen" => PointerBar = pointer
                    /\ pc # "listen" => PointerBar = Advance(start, Len(wire))
  OBVIOUS
<1> USE DEF Books
<1>1. /\ sent \in Nat /\ Len(chunk) \in Nat /\ Len(wire) \in Nat /\ sent <= Len(chunk)
      /\ start \in Byte /\ pointer \in Byte
      /\ pc \in {"listen", "fill", "respond", "rollback"}
  BY SentWithin DEF TypeOK, RegistersTypeOK
<1>2. Len(ChunkInFlight) = Len(chunk) - sent
  BY FlightType
<1>3. CASE pc = "listen"
  <2>1. Len(ChunkInFlight) = 0
    BY <1>1, <1>2, <1>3, SentWithin
  <2>2. Retreat(Advance(pointer, 0), 0) = Advance(pointer, 0 - 0) /\ Advance(pointer, 0) = pointer
    BY <1>1, AdvanceAdds
  <2> QED
    BY <1>3, <2>1, <2>2 DEF PointerBar
<1>4. CASE pc \in {"fill", "respond"}
  <2> DEFINE n == Len(chunk) - sent
             m == Len(wire) + Len(chunk) - sent
  <2>1. pointer = Advance(start, m)
    BY <1>4 DEF PointerFollowsMaster
  <2>2. n \in Int /\ m \in Int /\ m - n = Len(wire)
    BY <1>1
  <2> HIDE DEF n, m
  <2>3. Retreat(pointer, n) = Advance(start, m - n)
    BY <1>1, <2>1, <2>2, AdvanceAdds
  <2> QED
    BY <1>2, <1>4, <2>2, <2>3 DEF PointerBar, n
<1>5. CASE pc = "rollback"
  BY <1>5 DEF PointerBar, PointerFollowsMaster
<1> QED
  BY <1>1, <1>3, <1>4, <1>5

LEMMA PointerViewNext ==
  (Books => /\ pc = "listen" => PointerBar = pointer
            /\ pc # "listen" => PointerBar = Advance(start, Len(wire)))'
BY PointerView, PTL

(* Reading ahead and taking back what was read ahead move no stream of the    *)
(* contract.                                                                 *)
SameStreams ==
  /\ \A s \in StreamId : Pending(s)' = Pending(s) /\ Latest(s)' = Latest(s)
  /\ \A a \in EmbeddedAddr : Position(a)' = Position(a)

LEMMA Regroup ==
  ASSUME NEW B, NEW p \in Seq(B), NEW q \in Seq(B), NEW r \in Seq(B)
  PROVE  (p \o q) \o r = p \o (q \o r)
<1>1. \A a, b, c \in Seq(B) : (a \o b) \o c = a \o (b \o c)
  BY ConcatAssociative
<1> QED
  BY <1>1

LEMMA PoppedByteType ==
  ASSUME NEW x \in ChunkEntry, NEW s
  PROVE  PoppedByte(x, s) \in Seq(Byte)
BY EmptySeq DEF PoppedByte, ChunkEntry

LEMMA HiddenRead ==
  ASSUME TypeOK, ReadProgress, TypeOK', ReadProgress',
         NEW v \in Byte, NEW e \in ReadEffect, ReadInto(v, e),
         \A s \in StreamId :
           /\ PoppedByte([value |-> v, effect |-> e], s) \o queue'[s] = queue[s]
           /\ (IF IsPopOf(e, s) THEN e.prev ELSE last'[s]) = last[s],
         \A a \in EmbeddedAddr :
           cursor'[a] = IF e = EmbeddedAdvance(a)
                        THEN (cursor[a] + 1) % Len(EmbeddedData[a]) ELSE cursor[a]
  PROVE  SameStreams
<1> DEFINE x == [value |-> v, effect |-> e]
<1>1. /\ x \in ChunkEntry /\ x.effect = e /\ chunk' = Append(chunk, x)
      /\ sent = 0 /\ sent' = 0 /\ chunk \in Seq(ChunkEntry) /\ chunk' \in Seq(ChunkEntry)
      /\ Len(chunk) \in Nat
  BY ReadIntoChunk, SentWithin
<1>2. ChunkInFlight' = Append(ChunkInFlight, x) /\ ChunkInFlight \in Seq(ChunkEntry)
  BY ReadIntoFlight, FlightType
<1> HIDE DEF x
<1>3. ASSUME NEW s \in StreamId PROVE Pending(s)' = Pending(s)
  <2>1. Popped(Append(ChunkInFlight, x), s) = Popped(ChunkInFlight, s) \o PoppedByte(x, s)
    BY <1>1, <1>2, PoppedAppend
  <2>2. Pending(s)' = Popped(ChunkInFlight', s) \o queue'[s]
    BY DEF Pending
  <2>3. Popped(ChunkInFlight, s) \in Seq(Byte)
    BY <1>2, PoppedType
  <2>4. PoppedByte(x, s) \in Seq(Byte)
    BY <1>1, PoppedByteType
  <2>5. queue'[s] \in Seq(Byte)
    BY DEF TypeOK, StreamsTypeOK
  <2> DEFINE p == Popped(ChunkInFlight, s)
             q == PoppedByte(x, s)
             r == queue'[s]
  <2>6. p \in Seq(Byte) /\ q \in Seq(Byte) /\ r \in Seq(Byte)
    BY <2>3, <2>4, <2>5
  <2>7. Pending(s)' = (p \o q) \o r
    BY <1>2, <2>1, <2>2
  <2>8. q \o r = queue[s]
    BY DEF x
  <2>9. Pending(s) = p \o queue[s]
    BY DEF Pending
  <2> HIDE DEF p, q, r
  <2>10. (p \o q) \o r = p \o (q \o r)
    BY <2>6, Regroup
  <2> QED
    BY <2>7, <2>8, <2>9, <2>10
<1>4. ASSUME NEW s \in StreamId PROVE Latest(s)' = Latest(s)
  <2>1. LastAt(Append(chunk, x), 0, s, last'[s]) =
          LastAt(chunk, 0, s, IF IsPopOf(x.effect, s) THEN x.effect.prev ELSE last'[s])
    <3>1. 0 \in 0 .. Len(chunk)
      BY <1>1
    <3> QED
      BY <1>1, <3>1, LastAppend
  <2> QED
    BY <1>1, <2>1, LatestIs, LatestNext
<1>5. ASSUME NEW a \in EmbeddedAddr PROVE Position(a)' = Position(a)
  <2> DEFINE T == AdvancesOf(a)
             r == Len(EmbeddedData[a])
             k == CountFrom(chunk, 1, T)
             c == cursor[a]
  <2>1. CountFrom(chunk', 1, T) = k + (IF x \in T THEN 1 ELSE 0)
    <3>1. 1 \in 1 .. Len(chunk) + 1
      BY <1>1
    <3> QED
      BY <1>1, <3>1, CountAppend
  <2>2. x \in T <=> e = EmbeddedAdvance(a)
    BY <1>1 DEF AdvancesOf
  <2>3. r \in Nat \ {0} /\ c \in Nat /\ k \in Nat
    BY <1>1, SamplesNotEmpty, CountType DEF TypeOK, StreamsTypeOK
  <2>4. /\ Position(a) = (c - k) % r
        /\ Position(a)' = (cursor'[a] - CountFrom(chunk', 1, T)) % r
    <3>1. 0 + 1 = 1
      OBVIOUS
    <3> QED
      BY <1>1, <3>1, PositionIs, PositionNext
  <2>5. cursor'[a] = IF e = EmbeddedAdvance(a) THEN (c + 1) % r ELSE c
    OBVIOUS
  <2> HIDE DEF T, r, k, c
  <2>6. CASE e = EmbeddedAdvance(a)
    <3>1. (((c + 1) % r) - (k + 1)) % r = (c - k) % r
      <4>1. r \in Nat \ {0} /\ c \in Int /\ 1 \in Int /\ k \in Int
        BY <2>3
      <4> QED
        BY <4>1, Shifted, Zenon
    <3> QED
      BY <2>1, <2>2, <2>4, <2>5, <2>6, <3>1
  <2>7. CASE e # EmbeddedAdvance(a)
    <3>1. CountFrom(chunk', 1, T) = k
      BY <2>1, <2>2, <2>3, <2>7
    <3> QED
      BY <2>4, <2>5, <2>7, <3>1
  <2> QED
    BY <2>6, <2>7
<1> QED
  BY <1>3, <1>4, <1>5 DEF SameStreams

(* With room for it, the newest byte goes back to where it came from. *)
LEMMA UndoneQueue ==
  ASSUME FeedLimit + ReadChunk <= Capacity,
         TypeOK, ReadProgress, RoomForRollback, InPlace, UndoRead, NEW s \in StreamId
  PROVE  queue'[s] = PoppedByte(chunk[Len(chunk)], s) \o queue[s]
<1> DEFINE x == chunk[Len(chunk)]
           e == x.effect
<1>1. /\ RollbackEffect(e) /\ e \in ReadEffect /\ x.value \in Byte /\ x \in ChunkEntry
      /\ Len(chunk) \in Nat /\ sent \in Nat /\ sent < Len(chunk)
  BY UndoChunk, SentWithin DEF UndoRead, ChunkEntry
<1>2. queue[s] \in Seq(Byte) /\ Len(queue[s]) <= Capacity /\ queue \in [StreamId -> Seq(Byte)]
  BY QueueLevel DEF TypeOK, StreamsTypeOK
<1>3. ReadAt(x, Place(Len(chunk)))
  <2>1. Len(chunk) \in sent + 1 .. Len(chunk)
    BY <1>1
  <2> QED
    BY <2>1 DEF InPlace
<1>4. Len(chunk) \in PopsInFlight(s) <=> IsPopOf(e, s)
  BY UndoPops
<1> HIDE DEF x
<1>5. CASE IsPopOf(e, s)
  <2>1. Cardinality(PopsInFlight(s)) # 0
    BY <1>4, <1>5, ChunkPopsBounded, FS_EmptySet
  <2>2. Len(queue[s]) < Capacity
    BY <2>1, ChunkPopsBounded, QueueLevel, I2cAssumption, CapacityAssumption DEF RoomForRollback
  <2>3. UnpopByte(s, e.value, e.prev)
    BY <1>1, <1>5 DEF RollbackEffect, IsPopOf
  <2>4. e.value = x.value
    <3>1. e.kind = "HostPop"
      BY <1>5 DEF IsPopOf
    <3>2. /\ e # NoEffect
          /\ \A p : e # EmbeddedAdvance(p)
          /\ \A t : e # HostUnderrun(t)
      BY <3>1 DEF NoEffect, EmbeddedAdvance, HostUnderrun
    <3> QED
      BY <1>3, <3>2 DEF ReadAt
  <2>5. queue'[s] = PushFrontOne(queue[s], x.value)
    BY <1>2, <2>3, <2>4 DEF UnpopByte
  <2>6. queue'[s] = <<x.value>> \o queue[s]
    BY <1>1, <1>2, <2>2, <2>5, PushFrontFits
  <2> QED
    BY <1>5, <2>6 DEF PoppedByte, x
<1>6. CASE ~ IsPopOf(e, s)
  <2>1. queue'[s] = queue[s]
    BY <1>1, <1>2, <1>6
    DEF RollbackEffect, IsPopOf, streamVars, RetreatCursor, UnpopByte, UncountUnderrun
  <2>2. <<>> \o queue[s] = queue[s]
    BY <1>2, ConcatEmptySeq
  <2> QED
    BY <1>6, <2>1, <2>2 DEF PoppedByte, x
<1> QED
  BY <1>5, <1>6

LEMMA HiddenUndo ==
  ASSUME FeedLimit + ReadChunk <= Capacity, TypeOK', ReadProgress',
         TypeOK, ReadProgress, RoomForRollback, InFlightKnown, UndoRead
  PROVE  SameStreams
<1> DEFINE x == chunk[Len(chunk)]
           d == chunk'
           f == ChunkInFlight'
<1>1. /\ d \in Seq(ChunkEntry) /\ x \in ChunkEntry /\ chunk = Append(d, x)
      /\ Len(d) = Len(chunk) - 1 /\ sent' = sent /\ sent \in Nat /\ sent < Len(chunk)
      /\ Len(chunk) \in Nat /\ chunk \in Seq(ChunkEntry)
  BY UndoChunk, SentWithin
<1>2. f \in Seq(ChunkEntry) /\ ChunkInFlight = Append(f, x)
  BY UndoFlight
<1>3. ASSUME NEW s \in StreamId PROVE Pending(s)' = Pending(s)
  <2> DEFINE p == Popped(f, s)
             q == PoppedByte(x, s)
             r == queue[s]
  <2>1. p \in Seq(Byte)
    <3> HIDE DEF f
    <3> QED
      BY <1>2, PoppedType
  <2>2. q \in Seq(Byte)
    BY <1>1, PoppedByteType
  <2>3. r \in Seq(Byte)
    BY DEF TypeOK, StreamsTypeOK
  <2>4. Popped(ChunkInFlight, s) = p \o q
    <3> HIDE DEF f, x
    <3> QED
      BY <1>1, <1>2, PoppedAppend
  <2>5. Pending(s) = (p \o q) \o r
    BY <2>4 DEF Pending
  <2>6. queue'[s] = q \o r
    BY UndoneQueue DEF InFlightKnown
  <2>7. Pending(s)' = p \o (q \o r)
    BY <2>6 DEF Pending
  <2> HIDE DEF p, q, r
  <2>8. (p \o q) \o r = p \o (q \o r)
    BY <2>1, <2>2, <2>3, Regroup
  <2> QED
    BY <2>5, <2>7, <2>8
<1>4. ASSUME NEW s \in StreamId PROVE Latest(s)' = Latest(s)
  <2>1. last'[s] = IF IsPopOf(x.effect, s) THEN x.effect.prev ELSE last[s]
    BY UndoneLast
  <2>2. Latest(s)' = LastAt(d, sent, s, last'[s])
    BY <1>1, LatestNext
  <2> HIDE DEF d, x
  <2>3. LastAt(Append(d, x), sent, s, last[s]) =
          LastAt(d, sent, s, IF IsPopOf(x.effect, s) THEN x.effect.prev ELSE last[s])
    <3>1. sent \in 0 .. Len(d)
      BY <1>1
    <3> QED
      BY <1>1, <3>1, LastAppend
  <2>4. Latest(s) = LastAt(Append(d, x), sent, s, last[s])
    BY <1>1, LatestIs
  <2> QED
    BY <2>1, <2>2, <2>3, <2>4
<1>5. ASSUME NEW a \in EmbeddedAddr PROVE Position(a)' = Position(a)
  <2> DEFINE T == AdvancesOf(a)
             r == Len(EmbeddedData[a])
             k == CountFrom(d, sent + 1, T)
             c == cursor[a]
  <2>0. cursor'[a] = IF x.effect = EmbeddedAdvance(a) THEN (c + (-1)) % r ELSE c
    BY UndoneCursor
  <2>4. /\ Position(a) = (c - CountFrom(chunk, sent + 1, T)) % r
        /\ Position(a)' = (cursor'[a] - k) % r
    BY <1>1, PositionIs, PositionNext
  <2> HIDE DEF d, x
  <2>1. CountFrom(chunk, sent + 1, T) = k + (IF x \in T THEN 1 ELSE 0)
    <3>1. sent + 1 \in 1 .. Len(d) + 1
      BY <1>1
    <3>2. CountFrom(Append(d, x), sent + 1, T) = k + (IF x \in T THEN 1 ELSE 0)
      BY <1>1, <3>1, CountAppend
    <3> QED
      BY <1>1, <3>2
  <2>2. x \in T <=> x.effect = EmbeddedAdvance(a)
    BY <1>1 DEF AdvancesOf
  <2>3. r \in Nat \ {0} /\ c \in Nat /\ k \in Nat
    BY <1>1, SamplesNotEmpty, CountType DEF TypeOK, StreamsTypeOK
  <2> HIDE DEF T, r, k, c
  <2>6. CASE x.effect = EmbeddedAdvance(a)
    <3>1. (((c + (-1)) % r) - ((k + 1) + (-1))) % r = (c - (k + 1)) % r
      <4>1. r \in Nat \ {0} /\ c \in Int /\ -1 \in Int /\ k + 1 \in Int
        BY <2>3
      <4> QED
        BY <4>1, Shifted, Zenon
    <3>2. (k + 1) + (-1) = k
      BY <2>3
    <3> QED
      BY <2>0, <2>1, <2>2, <2>4, <2>6, <3>1, <3>2
  <2>7. CASE x.effect # EmbeddedAdvance(a)
    <3>1. CountFrom(chunk, sent + 1, T) = k
      BY <2>1, <2>2, <2>3, <2>7
    <3> QED
      BY <2>0, <2>4, <2>7, <3>1
  <2> QED
    BY <2>6, <2>7
<1> QED
  BY <1>3, <1>4, <1>5 DEF SameStreams

(* Nor does a step that leaves the streams and the chunk alone. *)
LEMMA HiddenStill ==
  ASSUME UNCHANGED <<cursor, queue, last, chunk, sent>>
  PROVE  SameStreams
BY DEF SameStreams, Pending, Latest, Position, PopsInFlight, ChunkInFlight

(* With nothing in flight the contract's streams are the firmware's. *)
LEMMA QuietStreams ==
  TypeOK /\ ReadProgress /\ sent = Len(chunk) =>
    /\ ChunkInFlight = <<>>
    /\ \A s \in StreamId : Pending(s) = queue[s] /\ Latest(s) = last[s]
    /\ \A a \in EmbeddedAddr : Position(a) = cursor[a]
<1> SUFFICES ASSUME TypeOK, ReadProgress, sent = Len(chunk)
             PROVE  /\ ChunkInFlight = <<>>
                    /\ \A s \in StreamId : Pending(s) = queue[s] /\ Latest(s) = last[s]
                    /\ \A a \in EmbeddedAddr : Position(a) = cursor[a]
  OBVIOUS
<1>1. chunk \in Seq(ChunkEntry) /\ sent \in Nat
  BY SentWithin
<1>2. /\ ChunkInFlight = <<>>
      /\ \A s, l : LastAt(chunk, sent, s, l) = l
      /\ \A T : CountFrom(chunk, sent + 1, T) = 0
  BY <1>1, NoneInFlight DEF ChunkInFlight
<1>3. ASSUME NEW s \in StreamId PROVE Pending(s) = queue[s] /\ Latest(s) = last[s]
  <2>1. <<>> \o queue[s] = queue[s]
    BY ConcatEmptySeq DEF TypeOK, StreamsTypeOK
  <2> QED
    BY <1>2, <2>1, PoppedEmpty, LatestIs DEF Pending
<1>4. ASSUME NEW a \in EmbeddedAddr PROVE Position(a) = cursor[a]
  <2> DEFINE r == Len(EmbeddedData[a])
             c == cursor[a]
  <2>1. r \in Nat \ {0} /\ c \in 0 .. r - 1
    BY SamplesNotEmpty DEF TypeOK, StreamsTypeOK
  <2>2. Position(a) = (c - 0) % r
    BY <1>1, <1>2, PositionIs
  <2> HIDE DEF c, r
  <2>3. (c - 0) % r = c
    BY <2>1, Wrap
  <2> QED
    BY <2>2, <2>3 DEF c
<1> QED
  BY <1>2, <1>3, <1>4

LEMMA QuietStreamsNext ==
  (TypeOK /\ ReadProgress /\ sent = Len(chunk) =>
     /\ ChunkInFlight = <<>>
     /\ \A s \in StreamId : Pending(s) = queue[s] /\ Latest(s) = last[s]
     /\ \A a \in EmbeddedAddr : Position(a) = cursor[a])'
BY QuietStreams, PTL

LEMMA HiddenQuiet ==
  ASSUME TypeOK, ReadProgress, TypeOK', ReadProgress', sent = Len(chunk), sent' = Len(chunk'),
         UNCHANGED streamVars
  PROVE  SameStreams
BY QuietStreams, QuietStreamsNext DEF SameStreams, streamVars

(* What a step of the service must do to be a step of the contract. *)
Plays == [Contract!Next]_(Contract!vars)
SameReading == PointerBar' = PointerBar /\ (pc' # "listen" <=> pc # "listen") /\ wire' = wire

LEMMA Unseen ==
  ASSUME SameStreams, SameReading
  PROVE  Plays
<1>1. /\ [s \in StreamId |-> Pending(s)]' = [s \in StreamId |-> Pending(s)]
      /\ [s \in StreamId |-> Latest(s)]' = [s \in StreamId |-> Latest(s)]
      /\ [a \in EmbeddedAddr |-> Position(a)]' = [a \in EmbeddedAddr |-> Position(a)]
  BY DEF SameStreams
<1>2. (pc # "listen")' = (pc # "listen") /\ wire' = wire
  BY DEF SameReading
<1>3. PointerBar' = PointerBar
  BY DEF SameReading
<1> QED
  BY <1>1, <1>2, <1>3 DEF Plays, Contract!vars, PointerBar

LEMMA Addresses ==
  ASSUME SameStreams, pc = "listen", pc' = "listen", PointerBar' \in Byte, wire' = wire
  PROVE  Plays
<1>1. /\ [s \in StreamId |-> Pending(s)]' = [s \in StreamId |-> Pending(s)]
      /\ [s \in StreamId |-> Latest(s)]' = [s \in StreamId |-> Latest(s)]
      /\ [a \in EmbeddedAddr |-> Position(a)]' = [a \in EmbeddedAddr |-> Position(a)]
  BY DEF SameStreams
<1>2. Contract!Address
  BY <1>1 DEF Contract!Address, Contract!streams, PointerBar
<1> QED
  BY <1>2 DEF Plays, Contract!Next

LEMMA Starts ==
  ASSUME SameStreams, pc = "listen", pc' # "listen", PointerBar' \in Byte, wire' = wire
  PROVE  Plays
<1>1. /\ [s \in StreamId |-> Pending(s)]' = [s \in StreamId |-> Pending(s)]
      /\ [s \in StreamId |-> Latest(s)]' = [s \in StreamId |-> Latest(s)]
      /\ [a \in EmbeddedAddr |-> Position(a)]' = [a \in EmbeddedAddr |-> Position(a)]
  BY DEF SameStreams
<1>2. Contract!StartRead
  BY <1>1 DEF Contract!StartRead, Contract!streams, PointerBar
<1> QED
  BY <1>2 DEF Plays, Contract!Next

LEMMA Ends ==
  ASSUME SameStreams, pc # "listen", pc' = "listen", PointerBar' = PointerBar, wire' = <<>>
  PROVE  Plays
<1>1. /\ [s \in StreamId |-> Pending(s)]' = [s \in StreamId |-> Pending(s)]
      /\ [s \in StreamId |-> Latest(s)]' = [s \in StreamId |-> Latest(s)]
      /\ [a \in EmbeddedAddr |-> Position(a)]' = [a \in EmbeddedAddr |-> Position(a)]
  BY DEF SameStreams
<1>2. Contract!EndRead
  BY <1>1 DEF Contract!EndRead, Contract!streams, PointerBar
<1> QED
  BY <1>2 DEF Plays, Contract!Next

LEMMA Accepts ==
  ASSUME NEW s \in StreamId, NEW data \in FeedData, NEW n \in 0 .. Len(data),
         \A t \in StreamId :
           /\ Pending(t)' = IF t = s THEN Pending(t) \o SubSeq(data, 1, n) ELSE Pending(t)
           /\ Latest(t)' = Latest(t),
         \A a \in EmbeddedAddr : Position(a)' = Position(a),
         SameReading
  PROVE  Plays
<1>1. /\ [t \in StreamId |-> Latest(t)]' = [t \in StreamId |-> Latest(t)]
      /\ [a \in EmbeddedAddr |-> Position(a)]' = [a \in EmbeddedAddr |-> Position(a)]
  OBVIOUS
<1>2. [t \in StreamId |-> Pending(t)]' =
        [[t \in StreamId |-> Pending(t)] EXCEPT ![s] = @ \o SubSeq(data, 1, n)]
  OBVIOUS
<1>3. (pc # "listen")' = (pc # "listen") /\ wire' = wire
  BY DEF SameReading
<1>4. PointerBar' = PointerBar
  BY DEF SameReading
<1>5. Contract!Accept(s, data)
  BY <1>1, <1>2, <1>3, <1>4 DEF Contract!Accept, PointerBar
<1>6. s \in Contract!StreamId
  BY DEF Contract!StreamId, StreamId
<1> QED
  BY <1>5, <1>6 DEF Plays, Contract!Next

(* The ways the master takes a byte. *)
TakesByte(b) ==
  /\ pc # "listen"
  /\ pc' # "listen"
  /\ wire' = Append(wire, b)
  /\ PointerBar' = Advance(PointerBar, 1)

LEMMA TakesOf ==
  ASSUME NEW b, TakesByte(b)
  PROVE  Contract!Take(b)
BY DEF Contract!Take, TakesByte, PointerBar, Advance

LEMMA TakesPlain ==
  ASSUME SameStreams, NEW b \in Byte, TakesByte(b), PointerBar \notin CsvAddr
  PROVE  Plays
<1>1. /\ [s \in StreamId |-> Pending(s)]' = [s \in StreamId |-> Pending(s)]
      /\ [s \in StreamId |-> Latest(s)]' = [s \in StreamId |-> Latest(s)]
      /\ [a \in EmbeddedAddr |-> Position(a)]' = [a \in EmbeddedAddr |-> Position(a)]
  BY DEF SameStreams
<1>2. PointerBar \notin EmbeddedAddr /\ \A s \in StreamId : StreamAddr[s] # PointerBar
  BY DEF CsvAddr
<1>3. Contract!TakePlain
  BY <1>1, <1>2, TakesOf
  DEF Contract!TakePlain, Contract!streams, Contract!EmbeddedAddr, Contract!StreamId,
      EmbeddedAddr, StreamId, PointerBar
<1> QED
  BY <1>3 DEF Plays, Contract!Next

LEMMA TakesAgain ==
  ASSUME SameStreams, NEW b \in Byte, TakesByte(b), NEW s \in StreamId,
         StreamAddr[s] = PointerBar, Latest(s) # NoByte => b = Latest(s)
  PROVE  Plays
<1>1. /\ [t \in StreamId |-> Pending(t)]' = [t \in StreamId |-> Pending(t)]
      /\ [t \in StreamId |-> Latest(t)]' = [t \in StreamId |-> Latest(t)]
      /\ [a \in EmbeddedAddr |-> Position(a)]' = [a \in EmbeddedAddr |-> Position(a)]
  BY DEF SameStreams
<1>2. b \in IF Latest(s) # NoByte THEN {Latest(s)} ELSE Byte
  OBVIOUS
<1>3. [t \in StreamId |-> Latest(t)][s] = Latest(s)
  OBVIOUS
<1>4. Contract!TakeAgain(s)
  BY <1>1, <1>2, <1>3, TakesOf DEF Contract!TakeAgain, Contract!streams, PointerBar
<1>5. s \in Contract!StreamId
  BY DEF Contract!StreamId, StreamId
<1> QED
  BY <1>4, <1>5 DEF Plays, Contract!Next

LEMMA TakesPending ==
  ASSUME NEW s \in StreamId, StreamAddr[s] = PointerBar,
         Pending(s) # <<>>, TakesByte(Head(Pending(s))),
         \A t \in StreamId :
           /\ Pending(t)' = IF t = s THEN Tail(Pending(t)) ELSE Pending(t)
           /\ Latest(t)' = IF t = s THEN Head(Pending(t)) ELSE Latest(t),
         \A a \in EmbeddedAddr : Position(a)' = Position(a)
  PROVE  Plays
<1>1. /\ [a \in EmbeddedAddr |-> Position(a)]' = [a \in EmbeddedAddr |-> Position(a)]
      /\ [t \in StreamId |-> Pending(t)][s] = Pending(s)
  OBVIOUS
<1>2. [t \in StreamId |-> Pending(t)]' =
        [[t \in StreamId |-> Pending(t)] EXCEPT ![s] = Tail(@)]
  OBVIOUS
<1>3. [t \in StreamId |-> Latest(t)]' =
        [[t \in StreamId |-> Latest(t)] EXCEPT ![s] = Head(Pending(s))]
  OBVIOUS
<1>4. Contract!TakePending(s)
  BY <1>1, <1>2, <1>3, TakesOf DEF Contract!TakePending, PointerBar
<1>5. s \in Contract!StreamId
  BY DEF Contract!StreamId, StreamId
<1> QED
  BY <1>4, <1>5 DEF Plays, Contract!Next

LEMMA TakesSample ==
  ASSUME NEW p \in EmbeddedAddr, p = PointerBar,
         TakesByte(EmbeddedData[p][Position(p) + 1]),
         \A s \in StreamId : Pending(s)' = Pending(s) /\ Latest(s)' = Latest(s),
         \A a \in EmbeddedAddr :
           Position(a)' = IF a = p THEN (Position(a) + 1) % Len(EmbeddedData[a]) ELSE Position(a)
  PROVE  Plays
<1>1. /\ [s \in StreamId |-> Pending(s)]' = [s \in StreamId |-> Pending(s)]
      /\ [s \in StreamId |-> Latest(s)]' = [s \in StreamId |-> Latest(s)]
      /\ [a \in EmbeddedAddr |-> Position(a)][p] = Position(p)
  OBVIOUS
<1>2. [a \in EmbeddedAddr |-> Position(a)]' =
        [[a \in EmbeddedAddr |-> Position(a)] EXCEPT ![p] = (@ + 1) % Len(EmbeddedData[p])]
  OBVIOUS
<1>3. Contract!TakeSample
  BY <1>1, <1>2, TakesOf
  DEF Contract!TakeSample, Contract!EmbeddedAddr, EmbeddedAddr, PointerBar
<1> QED
  BY <1>3 DEF Plays, Contract!Next

LEMMA Aborts ==
  ASSUME pc # "listen", pc' = "listen", wire' = <<>>, PointerBar' \in Byte,
         \A s \in StreamId : \E n \in 0 .. ReadChunk :
           /\ n <= Len(Pending(s))
           /\ Pending(s)' = SubSeq(Pending(s), n + 1, Len(Pending(s)))
           /\ Latest(s)' = IF n = 0 THEN Latest(s) ELSE Pending(s)[n],
         \A a \in EmbeddedAddr : \E n \in 0 .. ReadChunk :
           Position(a)' = (Position(a) + n) % Len(EmbeddedData[a])
  PROVE  Plays
<1>1. \A s \in StreamId : /\ [t \in StreamId |-> Pending(t)][s] = Pending(s)
                          /\ [t \in StreamId |-> Pending(t)]'[s] = Pending(s)'
                          /\ [t \in StreamId |-> Latest(t)][s] = Latest(s)
                          /\ [t \in StreamId |-> Latest(t)]'[s] = Latest(s)'
  OBVIOUS
<1>2. \A a \in EmbeddedAddr : /\ [x \in EmbeddedAddr |-> Position(x)][a] = Position(a)
                              /\ [x \in EmbeddedAddr |-> Position(x)]'[a] = Position(a)'
  OBVIOUS
<1>3. Contract!StreamId = StreamId /\ Contract!EmbeddedAddr = EmbeddedAddr
  BY DEF Contract!StreamId, StreamId, Contract!EmbeddedAddr, EmbeddedAddr
<1>4. Contract!Abort
  BY <1>1, <1>2, <1>3 DEF Contract!Abort, PointerBar
<1> QED
  BY <1>4 DEF Plays, Contract!Next

(* The pointer of the contract stays while nothing is taken. *)
LEMMA PointerStays ==
  ASSUME Books, Books', start' = start, wire' = wire, (pc' # "listen" <=> pc # "listen"),
         pc = "listen" => pointer' = pointer
  PROVE  SameReading
<1>1. CASE pc = "listen"
  BY <1>1, PointerView, PointerViewNext DEF SameReading
<1>2. CASE pc # "listen"
  <2>1. PointerBar = Advance(start, Len(wire))
    BY <1>2, PointerView
  <2>2. PointerBar' = Advance(start, Len(wire))
    BY <1>2, PointerViewNext DEF Advance
  <2> QED
    BY <1>2, <2>1, <2>2 DEF SameReading
<1> QED
  BY <1>1, <1>2

(* Reading ahead. *)
LEMMA NoPopByte ==
  ASSUME NEW x, NEW s, ~ IsPopOf(x.effect, s), NEW q \in Seq(Byte)
  PROVE  PoppedByte(x, s) \o q = q
<1>1. <<>> \o q = q
  BY ConcatEmptySeq
<1> QED
  BY <1>1 DEF PoppedByte

LEMMA PlainHidden ==
  ASSUME TypeOK, ReadProgress, TypeOK', ReadProgress', ReadPlain
  PROVE  SameStreams
<1> DEFINE v == regs[pointer]
           e == NoEffect
<1>1. v \in Byte /\ e \in ReadEffect /\ ReadInto(v, e) /\ UNCHANGED streamVars
  BY PlainRead
<1>2. /\ \A s \in StreamId : ~ IsPopOf(e, s) /\ queue'[s] = queue[s] /\ last'[s] = last[s]
      /\ \A a \in EmbeddedAddr : e # EmbeddedAdvance(a) /\ cursor'[a] = cursor[a]
      /\ \A s \in StreamId : queue[s] \in Seq(Byte)
  BY <1>1 DEF NoEffect, IsPopOf, EmbeddedAdvance, streamVars, TypeOK, StreamsTypeOK
<1> HIDE DEF v, e
<1>3. \A s \in StreamId : PoppedByte([value |-> v, effect |-> e], s) \o queue'[s] = queue[s]
  BY <1>2, NoPopByte
<1> QED
  BY <1>1, <1>2, <1>3, HiddenRead

LEMMA EmbeddedHidden ==
  ASSUME TypeOK, ReadProgress, TypeOK', ReadProgress', ReadEmbedded
  PROVE  SameStreams
<1> DEFINE v == EmbeddedValue(pointer)
           e == EmbeddedAdvance(pointer)
<1>1. /\ v \in Byte /\ e \in ReadEffect /\ ReadInto(v, e)
      /\ pointer \in EmbeddedAddr /\ AdvanceCursor(pointer)
  BY EmbeddedRead
<1>2. /\ \A s \in StreamId : ~ IsPopOf(e, s) /\ queue'[s] = queue[s] /\ last'[s] = last[s]
      /\ \A s \in StreamId : queue[s] \in Seq(Byte)
  BY <1>1 DEF IsPopOf, EmbeddedAdvance, AdvanceCursor, TypeOK, StreamsTypeOK
<1>3. \A a \in EmbeddedAddr :
        cursor'[a] = IF e = EmbeddedAdvance(a)
                     THEN (cursor[a] + 1) % Len(EmbeddedData[a]) ELSE cursor[a]
  <2>1. \A a \in EmbeddedAddr : e = EmbeddedAdvance(a) <=> a = pointer
    BY DEF EmbeddedAdvance
  <2>2. cursor \in [EmbeddedAddr -> Nat]
    BY DEF TypeOK, StreamsTypeOK
  <2> HIDE DEF e
  <2> QED
    BY <1>1, <2>1, <2>2 DEF AdvanceCursor
<1> HIDE DEF v, e
<1>4. \A s \in StreamId : PoppedByte([value |-> v, effect |-> e], s) \o queue'[s] = queue[s]
  BY <1>2, NoPopByte
<1> QED
  BY <1>1, <1>2, <1>3, <1>4, HiddenRead

LEMMA HostHidden ==
  ASSUME TypeOK, ReadProgress, TypeOK', ReadProgress', NEW t \in StreamId, ReadHost(t)
  PROVE  SameStreams
<1> DEFINE v == Head(queue[t])
           e == HostPop(t, v, last[t])
           x == [value |-> v, effect |-> e]
<1>1. v \in Byte /\ e \in ReadEffect /\ ReadInto(v, e) /\ PopByte(t)
  BY HostRead
<1>2. /\ \A s \in StreamId : IsPopOf(e, s) <=> s = t
      /\ e.prev = last[t]
      /\ \A a \in EmbeddedAddr : e # EmbeddedAdvance(a) /\ cursor'[a] = cursor[a]
  BY <1>1 DEF IsPopOf, HostPop, EmbeddedAdvance, PopByte
<1>3. /\ \A s \in StreamId : queue[s] \in Seq(Byte) /\ queue'[s] \in Seq(Byte)
      /\ queue[t] # <<>> /\ queue'[t] = Tail(queue[t])
      /\ \A s \in StreamId \ {t} : queue'[s] = queue[s] /\ last'[s] = last[s]
  BY <1>1 DEF PopByte, TypeOK, StreamsTypeOK
<1>4. <<v>> \o Tail(queue[t]) = queue[t]
  <2>1. \A q \in Seq(Byte) : q # <<>> => <<Head(q)>> \o Tail(q) = q
    <3> TAKE q \in Seq(Byte)
    <3> HAVE q # <<>>
    <3>1. /\ Head(q) \in Byte /\ Tail(q) \in Seq(Byte) /\ Len(Tail(q)) = Len(q) - 1
          /\ \A i \in 1 .. Len(Tail(q)) : Tail(q)[i] = q[i + 1]
          /\ Len(q) \in Nat \ {0} /\ Head(q) = q[1]
      BY HeadTailProperties, EmptySeq
    <3> DEFINE r == Tail(q)
               w == <<Head(q)>> \o r
    <3>2. /\ w \in Seq(Byte) /\ Len(w) = 1 + Len(r)
          /\ \A i \in 1 .. 1 + Len(r) : w[i] = IF i <= 1 THEN Head(q) ELSE r[i - 1]
      <4>1. <<Head(q)>> \in Seq(Byte) /\ Len(<<Head(q)>>) = 1
        BY <3>1
      <4> HIDE DEF r
      <4> QED
        BY <3>1, <4>1, ConcatProperties DEF r
    <3> HIDE DEF r, w
    <3>3. Len(w) = Len(q) /\ Len(r) = Len(q) - 1
      BY <3>1, <3>2 DEF r
    <3>4. ASSUME NEW i \in 1 .. Len(w) PROVE w[i] = q[i]
      <4>1. CASE i = 1
        BY <3>1, <3>2, <4>1
      <4>2. CASE i # 1
        <5>1. i - 1 \in 1 .. Len(r) /\ ~ (i <= 1) /\ (i - 1) + 1 = i /\ i \in 1 .. 1 + Len(r)
          BY <3>1, <3>3, <4>2
        <5> QED
          BY <3>1, <3>2, <5>1 DEF r
      <4> QED
        BY <4>1, <4>2
    <3>5. w = q
      BY <3>2, <3>3, <3>4, SeqEqual
    <3> QED
      BY <3>5 DEF w, r
  <2> QED
    BY <1>3, <2>1
<1>5. \A s \in StreamId : PoppedByte(x, s) \o queue'[s] = queue[s]
  <2> TAKE s \in StreamId
  <2>1. CASE s = t
    BY <1>2, <1>3, <1>4, <2>1 DEF PoppedByte
  <2>2. CASE s # t
    <3>1. ~ IsPopOf(x.effect, s) /\ queue'[s] = queue[s] /\ queue[s] \in Seq(Byte)
      BY <1>2, <1>3, <2>2
    <3> HIDE DEF x
    <3> QED
      BY <3>1, NoPopByte
  <2> QED
    BY <2>1, <2>2
<1> HIDE DEF v, e
<1> QED
  BY <1>1, <1>2, <1>3, <1>5, HiddenRead DEF x

LEMMA UnderrunHidden ==
  ASSUME TypeOK, ReadProgress, TypeOK', ReadProgress', NEW t \in StreamId, ReadUnderrun(t)
  PROVE  SameStreams
<1> DEFINE v == UnderrunValue(t, regs[pointer])
           e == HostUnderrun(t)
<1>1. v \in Byte /\ e \in ReadEffect /\ ReadInto(v, e) /\ CountUnderrun(t)
  BY UnderrunRead
<1>2. /\ \A s \in StreamId : ~ IsPopOf(e, s) /\ queue'[s] = queue[s] /\ last'[s] = last[s]
      /\ \A a \in EmbeddedAddr : e # EmbeddedAdvance(a) /\ cursor'[a] = cursor[a]
      /\ \A s \in StreamId : queue[s] \in Seq(Byte)
  BY <1>1 DEF HostUnderrun, IsPopOf, EmbeddedAdvance, CountUnderrun, TypeOK, StreamsTypeOK
<1> HIDE DEF v, e
<1>3. \A s \in StreamId : PoppedByte([value |-> v, effect |-> e], s) \o queue'[s] = queue[s]
  BY <1>2, NoPopByte
<1> QED
  BY <1>1, <1>2, <1>3, HiddenRead

LEMMA FillPlays ==
  ASSUME Books, Books', Fill
  PROVE  Plays
<1> USE DEF Books
<1>1. ASSUME NEW v, NEW e, ReadInto(v, e) PROVE SameReading
  <2>1. start' = start /\ wire' = wire /\ pc' = pc /\ pc # "listen"
    BY <1>1 DEF ReadInto
  <2> QED
    BY <2>1, PointerStays
<1>2. CASE ReadPlain
  BY <1>1, <1>2, PlainHidden, Unseen DEF ReadPlain
<1>3. CASE ReadEmbedded
  BY <1>1, <1>3, EmbeddedHidden, Unseen DEF ReadEmbedded
<1>4. ASSUME NEW s \in StreamId, ReadHost(s) PROVE Plays
  BY <1>1, <1>4, HostHidden, Unseen DEF ReadHost
<1>5. ASSUME NEW s \in StreamId, ReadUnderrun(s) PROVE Plays
  BY <1>1, <1>5, UnderrunHidden, Unseen DEF ReadUnderrun
<1>6. CASE Offer
  <2>1. /\ start' = start /\ wire' = wire /\ pc' # "listen" /\ pc # "listen"
        /\ UNCHANGED <<cursor, queue, last, chunk, sent>>
    BY <1>6 DEF Offer, streamVars
  <2> QED
    BY <2>1, PointerStays, HiddenStill, Unseen
<1> QED
  BY <1>2, <1>3, <1>4, <1>5, <1>6 DEF Fill

(* A place more or less to count from. *)
LEMMA CountNext ==
  ASSUME NEW S, NEW q \in Seq(S), NEW k \in 1 .. Len(q), NEW T
  PROVE  CountFrom(q, k, T) = CountFrom(q, k + 1, T) + (IF q[k] \in T THEN 1 ELSE 0)
<1> DEFINE all == PlacesFrom(q, k, T)
           rest == PlacesFrom(q, k + 1, T)
<1>1. /\ k \in Nat /\ k + 1 \in Nat
      /\ k .. Len(q) = (k + 1 .. Len(q)) \cup {k} /\ k \notin k + 1 .. Len(q)
  BY LenProperties
<1>2. all = (IF q[k] \in T THEN rest \cup {k} ELSE rest) /\ k \notin rest
  BY <1>1 DEF PlacesFrom
<1>3. IsFiniteSet(rest) /\ Cardinality(rest) \in Nat
  BY <1>1, CountType DEF CountFrom
<1> HIDE DEF all, rest
<1>4. Cardinality(rest \cup {k}) = Cardinality(rest) + 1
  BY <1>2, <1>3, FS_AddElement
<1>5. Cardinality(all) = Cardinality(rest) + (IF q[k] \in T THEN 1 ELSE 0)
  BY <1>2, <1>3, <1>4
<1> QED
  BY <1>5 DEF CountFrom, all, rest

LEMMA CountAtMost ==
  ASSUME NEW S, NEW q \in Seq(S), NEW k \in Nat, k >= 1, NEW T
  PROVE  CountFrom(q, k, T) <= Len(q)
<1> DEFINE all == 1 .. Len(q)
<1>1. IsFiniteSet(all) /\ Cardinality(all) = Len(q)
  <2>1. Len(q) \in Nat
    BY LenProperties
  <2> QED
    BY <2>1, IntervalSize
<1>2. PlacesFrom(q, k, T) \in SUBSET all
  BY LenProperties DEF PlacesFrom
<1> HIDE DEF all
<1>3. Cardinality(PlacesFrom(q, k, T)) <= Cardinality(all)
  BY <1>1, <1>2, FS_Subset
<1> QED
  BY <1>1, <1>3 DEF CountFrom

(* What the master takes. *)
LEMMA TakenNow ==
  ASSUME Books, Books', MasterTakes
  PROVE  LET x == chunk[sent + 1]
         IN  /\ x \in ChunkEntry /\ x.value \in Byte
             /\ sent \in Nat /\ sent + 1 \in 1 .. Len(chunk)
             /\ TakesByte(x.value)
             /\ Place(sent + 1) = PointerBar
<1> USE DEF Books
<1> DEFINE x == chunk[sent + 1]
           m == Len(wire)
<1>1. /\ pc = "respond" /\ pc' = "respond" /\ chunk' = chunk /\ sent' = sent + 1
      /\ start' = start /\ start \in Byte /\ wire \in Seq(Byte)
      /\ wire' = Append(wire, x.value)
      /\ sent \in Nat /\ Len(chunk) \in Nat /\ chunk \in Seq(ChunkEntry)
      /\ sent < Len(chunk) /\ m \in Nat
  BY SentWithin DEF MasterTakes, ReadProgress, TypeOK
<1>2. sent + 1 \in 1 .. Len(chunk)
  BY <1>1
<1>3. x \in ChunkEntry /\ x.value \in Byte
  <2>1. x \in ChunkEntry
    BY <1>1, <1>2, ElementOfSeq
  <2> QED
    BY <2>1 DEF ChunkEntry
<1>4. PointerBar = Advance(start, m)
  BY <1>1, PointerView
<1>5. m + (sent + 1) - 1 - sent = m
  BY <1>1
<1>6. Place(sent + 1) = PointerBar
  BY <1>4, <1>5 DEF Place
<1> HIDE DEF x
<1>7. Len(wire') = m + 1
  BY <1>1, <1>3, AppendProperties
<1>8. PointerBar' = Advance(start, m + 1)
  BY <1>1, <1>7, PointerViewNext DEF Advance
<1> HIDE DEF m
<1>9. Advance(Advance(start, m), 1) = Advance(start, m + 1)
  BY <1>1, AdvanceAdds
<1>10. TakesByte(x.value)
  BY <1>1, <1>4, <1>8, <1>9 DEF TakesByte
<1> QED
  BY <1>1, <1>2, <1>3, <1>6, <1>10 DEF x

LEMMA TakenStreams ==
  ASSUME Books, Books', MasterTakes, LastsKnown, SamplesKnown
  PROVE  LET x == chunk[sent + 1]
         IN  /\ \A s \in StreamId :
                  /\ Pending(s)' \in Seq(Byte)
                  /\ Pending(s) = PoppedByte(x, s) \o Pending(s)'
                  /\ ~ IsPopOf(x.effect, s) => Latest(s)' = Latest(s)
                  /\ IsPopOf(x.effect, s) => Latest(s)' = x.value
                  /\ x.effect = HostUnderrun(s) /\ Latest(s) # NoByte => x.value = Latest(s)
             /\ \A a \in EmbeddedAddr :
                  /\ x.effect # EmbeddedAdvance(a) => Position(a)' = Position(a)
                  /\ x.effect = EmbeddedAdvance(a) =>
                       /\ x.value = EmbeddedData[a][Position(a) + 1]
                       /\ Position(a)' = (Position(a) + 1) % Len(EmbeddedData[a])
<1> USE DEF Books
<1> DEFINE k == sent + 1
           x == chunk[k]
<1>1. /\ chunk' = chunk /\ sent' = k /\ UNCHANGED <<cursor, queue, last>>
      /\ sent \in Nat /\ Len(chunk) \in Nat /\ chunk \in Seq(ChunkEntry)
      /\ sent < Len(chunk) /\ k \in 1 .. Len(chunk) /\ k \in sent + 1 .. Len(chunk) /\ k \in Nat
  BY TakenNow, SentWithin DEF MasterTakes, streamVars
<1>2. x \in ChunkEntry
  BY TakenNow
<1>3. /\ ChunkInFlight \in Seq(ChunkEntry) /\ ChunkInFlight # <<>>
      /\ Head(ChunkInFlight) = x /\ Tail(ChunkInFlight) = ChunkInFlight'
  BY TakenFlight
<1>4. ASSUME NEW s \in StreamId
      PROVE  Pending(s)' \in Seq(Byte) /\ Pending(s) = PoppedByte(x, s) \o Pending(s)'
  <2> DEFINE p == PoppedByte(x, s)
             q == Popped(ChunkInFlight', s)
             r == queue[s]
  <2>1. p \in Seq(Byte) /\ q \in Seq(Byte) /\ r \in Seq(Byte)
    <3>1. p \in Seq(Byte)
      BY <1>2, PoppedByteType
    <3>2. ChunkInFlight' \in Seq(ChunkEntry)
      BY <1>3, PoppedFirst
    <3>3. q \in Seq(Byte)
      BY <3>2, PoppedType
    <3> QED
      BY <3>1, <3>3 DEF TypeOK, StreamsTypeOK
  <2>2. Popped(ChunkInFlight, s) = p \o q
    BY <1>3, PoppedFirst
  <2>3. Pending(s) = (p \o q) \o r
    BY <2>2 DEF Pending
  <2>4. Pending(s)' = q \o r
    BY <1>1 DEF Pending
  <2> HIDE DEF p, q, r
  <2>5. (p \o q) \o r = p \o (q \o r)
    BY <2>1, Regroup
  <2>6. q \o r \in Seq(Byte)
    BY <2>1, ConcatProperties
  <2> QED
    BY <2>3, <2>4, <2>5, <2>6 DEF p
<1> HIDE DEF x
<1>5. ASSUME NEW s \in StreamId
      PROVE  /\ ~ IsPopOf(x.effect, s) => Latest(s)' = Latest(s)
             /\ IsPopOf(x.effect, s) => Latest(s)' = x.value
             /\ x.effect = HostUnderrun(s) /\ Latest(s) # NoByte => x.value = Latest(s)
  <2>1. Latest(s) = LastAt(chunk, sent, s, last[s])
    BY LatestIs
  <2>2. Latest(s)' = LastAt(chunk, k, s, last[s])
    BY <1>1, LatestNext
  <2>3. LastAt(chunk, sent, s, last[s]) =
          IF IsPopOf(x.effect, s) THEN x.effect.prev ELSE LastAt(chunk, k, s, last[s])
    BY <1>1, LastFront DEF x
  <2>4. LastOf(chunk, k, s, last[s])
    BY <1>1 DEF LastsKnown
  <2>5. x.effect = HostUnderrun(s) => ~ IsPopOf(x.effect, s)
    BY DEF HostUnderrun, IsPopOf
  <2> QED
    BY <2>1, <2>2, <2>3, <2>4, <2>5 DEF LastOf, x
<1>6. ASSUME NEW a \in EmbeddedAddr
      PROVE  /\ x.effect # EmbeddedAdvance(a) => Position(a)' = Position(a)
             /\ x.effect = EmbeddedAdvance(a) =>
                  /\ x.value = EmbeddedData[a][Position(a) + 1]
                  /\ Position(a)' = (Position(a) + 1) % Len(EmbeddedData[a])
  <2> DEFINE T == AdvancesOf(a)
             r == Len(EmbeddedData[a])
             c == cursor[a]
             n == CountFrom(chunk, k + 1, T)
  <2>1. Position(a) = (c - CountFrom(chunk, k, T)) % r
    BY <1>1, PositionIs
  <2>2. Position(a)' = (c - n) % r
    BY <1>1, PositionNext
  <2>3. CountFrom(chunk, k, T) = n + (IF x \in T THEN 1 ELSE 0)
    BY <1>1, CountNext DEF x
  <2>4. x \in T <=> x.effect = EmbeddedAdvance(a)
    BY <1>2 DEF AdvancesOf, x
  <2>5. r \in Nat \ {0} /\ c \in Nat /\ n \in Nat
    <3>1. k + 1 \in Nat
      BY <1>1
    <3> QED
      BY <1>1, <3>1, SamplesNotEmpty, CountType DEF TypeOK, StreamsTypeOK
  <2>6. SampleOf(chunk, k, a, c)
    BY <1>1 DEF SamplesKnown
  <2>7. x.effect = EmbeddedAdvance(a) => x.value = EmbeddedData[a][Position(a) + 1]
    BY <2>1, <2>6 DEF SampleOf, x
  <2> HIDE DEF T, r, c, n, k
  <2>8. CASE x.effect # EmbeddedAdvance(a)
    <3>1. CountFrom(chunk, k, T) = n
      BY <2>3, <2>4, <2>5, <2>8
    <3> QED
      BY <2>1, <2>2, <2>8, <3>1
  <2>9. CASE x.effect = EmbeddedAdvance(a)
    <3>1. CountFrom(chunk, k, T) = n + 1
      BY <2>3, <2>4, <2>9
    <3>2. (((c - (n + 1)) % r) + 1) % r = ((c - (n + 1)) + 1) % r
      <4>1. c - (n + 1) \in Int /\ 1 \in Int /\ r \in Nat \ {0}
        BY <2>5
      <4> QED
        BY <4>1, ModPlus, Zenon
    <3>3. (c - (n + 1)) + 1 = c - n
      BY <2>5
    <3>4. Position(a)' = (Position(a) + 1) % r
      BY <2>1, <2>2, <3>1, <3>2, <3>3
    <3> QED
      BY <2>7, <2>9, <3>4 DEF r
  <2> QED
    BY <2>8, <2>9
<1> QED
  BY <1>4, <1>5, <1>6 DEF x

LEMMA MasterPlays ==
  ASSUME Books, Books', InFlightKnown, MasterTakes
  PROVE  Plays
<1> DEFINE x == chunk[sent + 1]
           p == PointerBar
<1>1. /\ x.value \in Byte /\ TakesByte(x.value) /\ sent + 1 \in sent + 1 .. Len(chunk)
      /\ Place(sent + 1) = p
  BY TakenNow
<1>2. ReadAt(x, p)
  BY <1>1 DEF InFlightKnown, InPlace
<1>3. /\ \A s \in StreamId :
           /\ Pending(s)' \in Seq(Byte)
           /\ Pending(s) = PoppedByte(x, s) \o Pending(s)'
           /\ ~ IsPopOf(x.effect, s) => Latest(s)' = Latest(s)
           /\ IsPopOf(x.effect, s) => Latest(s)' = x.value
           /\ x.effect = HostUnderrun(s) /\ Latest(s) # NoByte => x.value = Latest(s)
      /\ \A a \in EmbeddedAddr :
           /\ x.effect # EmbeddedAdvance(a) => Position(a)' = Position(a)
           /\ x.effect = EmbeddedAdvance(a) =>
                /\ x.value = EmbeddedData[a][Position(a) + 1]
                /\ Position(a)' = (Position(a) + 1) % Len(EmbeddedData[a])
  BY TakenStreams DEF InFlightKnown
<1> HIDE DEF x, p
<1>4. ASSUME NEW s \in StreamId, ~ IsPopOf(x.effect, s)
      PROVE  Pending(s)' = Pending(s) /\ Latest(s)' = Latest(s)
  BY <1>3, <1>4, NoPopByte
<1>5. CASE p \notin CsvAddr /\ x.effect = NoEffect
  <2>1. /\ \A s \in StreamId : ~ IsPopOf(x.effect, s)
        /\ \A a \in EmbeddedAddr : x.effect # EmbeddedAdvance(a)
    BY <1>5 DEF NoEffect, IsPopOf, EmbeddedAdvance
  <2>2. SameStreams
    BY <1>3, <1>4, <2>1 DEF SameStreams
  <2> QED
    BY <1>1, <1>5, <2>2, TakesPlain DEF p
<1>6. CASE p \in EmbeddedAddr /\ x.effect = EmbeddedAdvance(p)
  <2>1. /\ \A s \in StreamId : ~ IsPopOf(x.effect, s)
        /\ \A a \in EmbeddedAddr : x.effect = EmbeddedAdvance(a) <=> a = p
    BY <1>6 DEF IsPopOf, EmbeddedAdvance
  <2>2. /\ \A a \in EmbeddedAddr :
             Position(a)' =
               IF a = p THEN (Position(a) + 1) % Len(EmbeddedData[a]) ELSE Position(a)
        /\ x.value = EmbeddedData[p][Position(p) + 1]
    BY <1>3, <1>6, <2>1
  <2>3. \A s \in StreamId : Pending(s)' = Pending(s) /\ Latest(s)' = Latest(s)
    BY <1>4, <2>1
  <2>4. TakesByte(EmbeddedData[p][Position(p) + 1])
    BY <1>1, <2>2
  <2> QED
    BY <1>6, <2>2, <2>3, <2>4, TakesSample DEF p
<1>7. ASSUME NEW s \in StreamId, StreamAddr[s] = p, x.effect = HostUnderrun(s)
      PROVE  Plays
  <2>1. /\ \A t \in StreamId : ~ IsPopOf(x.effect, t)
        /\ \A a \in EmbeddedAddr : x.effect # EmbeddedAdvance(a)
    BY <1>7 DEF HostUnderrun, IsPopOf, EmbeddedAdvance
  <2>2. SameStreams
    BY <1>3, <1>4, <2>1 DEF SameStreams
  <2>3. Latest(s) # NoByte => x.value = Latest(s)
    BY <1>3, <1>7
  <2> QED
    BY <1>1, <1>7, <2>2, <2>3, TakesAgain DEF p
<1>8. ASSUME NEW s \in StreamId, StreamAddr[s] = p, IsPopOf(x.effect, s)
      PROVE  Plays
  <2>1. /\ \A t \in StreamId : IsPopOf(x.effect, t) <=> t = s
        /\ \A a \in EmbeddedAddr : x.effect # EmbeddedAdvance(a)
    BY <1>8 DEF IsPopOf, EmbeddedAdvance
  <2>2. Pending(s) = <<x.value>> \o Pending(s)' /\ Pending(s)' \in Seq(Byte)
    BY <1>3, <1>8 DEF PoppedByte
  <2>3. Pending(s) # <<>> /\ Head(Pending(s)) = x.value /\ Tail(Pending(s)) = Pending(s)'
    BY <1>1, <2>2, ConsParts
  <2>4. \A t \in StreamId :
          /\ Pending(t)' = IF t = s THEN Tail(Pending(t)) ELSE Pending(t)
          /\ Latest(t)' = IF t = s THEN Head(Pending(t)) ELSE Latest(t)
    BY <1>3, <1>4, <2>1, <2>3
  <2>5. \A a \in EmbeddedAddr : Position(a)' = Position(a)
    BY <1>3, <2>1
  <2>6. TakesByte(Head(Pending(s)))
    BY <1>1, <2>3
  <2> QED
    BY <1>8, <2>3, <2>4, <2>5, <2>6, TakesPending DEF p
<1> QED
  BY <1>2, <1>5, <1>6, <1>7, <1>8 DEF ReadAt

(* What the host feeds comes after everything pending. *)
LEMMA FeedPlays ==
  ASSUME Books, Books', NEW s \in StreamId, NEW data \in FeedData, HostFeed(s, data)
  PROVE  Plays
<1> USE DEF Books
<1> DEFINE n == Accepted(queue[s], data)
           d == SubSeq(data, 1, n)
<1>1. /\ FeedStream(s, data) /\ pc' = pc /\ pointer' = pointer
      /\ UNCHANGED <<kind, start, chunk, sent, total, preview, wire>>
  BY DEF HostFeed, OtherTaskRuns, readVars, regVars
<1>2. /\ queue \in [StreamId -> Seq(Byte)] /\ \A t \in StreamId : Len(queue[t]) <= Capacity
      /\ data \in Seq(Byte)
  BY I2cAssumption DEF TypeOK, StreamsTypeOK
<1>3. n \in 0 .. Len(data)
  BY <1>2, PushBackFits
<1>4. d \in Seq(Byte)
  <2>1. \A i \in 1 .. Len(data) : data[i] \in Byte
    BY <1>2, ElementOfSeq
  <2>2. 1 \in Int /\ n \in Int /\ \A i \in 1 .. n : i \in 1 .. Len(data)
    BY <1>3, LenProperties, <1>2
  <2> HIDE DEF n
  <2> QED
    BY <2>1, <2>2, SubSeqProperties
<1>5. \A t \in StreamId :
        queue'[t] = IF t = s THEN queue[t] \o d ELSE queue[t]
  BY <1>1, <1>2 DEF FeedStream, PushBack
<1> HIDE DEF n
<1>6. ChunkInFlight \in Seq(ChunkEntry) /\ ChunkInFlight' = ChunkInFlight
  BY <1>1, FlightType DEF ChunkInFlight
<1>7. ASSUME NEW t \in StreamId
      PROVE  Pending(t)' = IF t = s THEN Pending(t) \o d ELSE Pending(t)
  <2> DEFINE p == Popped(ChunkInFlight, t)
             r == queue[t]
  <2>1. p \in Seq(Byte) /\ r \in Seq(Byte)
    BY <1>2, <1>6, PoppedType
  <2>2. Pending(t) = p \o r /\ Pending(t)' = p \o queue'[t]
    BY <1>6 DEF Pending
  <2> HIDE DEF p, r, d
  <2>3. (p \o r) \o d = p \o (r \o d)
    BY <1>4, <2>1, Regroup
  <2> QED
    BY <1>5, <2>2, <2>3 DEF r
<1>8. /\ \A t \in StreamId : Latest(t)' = Latest(t)
      /\ \A a \in EmbeddedAddr : Position(a)' = Position(a)
  BY <1>1 DEF FeedStream, Latest, Position, PopsInFlight
<1>9. SameReading
  BY <1>1, PointerStays
<1> QED
  BY <1>3, <1>7, <1>8, <1>9, Accepts DEF d

(* A bus error: what is in flight is lost, and nothing else. *)
LEMMA SplitOff ==
  ASSUME NEW S, NEW p \in Seq(S), NEW q \in Seq(S)
  PROVE  /\ Len(p) \in Nat /\ Len(p) <= Len(p \o q)
         /\ SubSeq(p \o q, Len(p) + 1, Len(p \o q)) = q
         /\ \A i \in 1 .. Len(p) : (p \o q)[i] = p[i]
<1> DEFINE r == p \o q
           m == Len(p)
           n == Len(q)
           t == SubSeq(r, m + 1, Len(r))
<1>1. m \in Nat /\ n \in Nat
  BY LenProperties
<1>2. /\ r \in Seq(S) /\ Len(r) = m + n
      /\ \A i \in 1 .. m + n : r[i] = IF i <= m THEN p[i] ELSE q[i - m]
  BY ConcatProperties
<1> HIDE DEF r, m, n
<1>3. m \in 0 .. Len(r)
  BY <1>1, <1>2
<1>4. t \in Seq(S) /\ Len(t) = Len(r) - m /\ \A i \in 1 .. Len(r) - m : t[i] = r[m + i]
  BY <1>2, <1>3, RestOf
<1> HIDE DEF t
<1>5. Len(t) = n /\ Len(r) - m = n
  BY <1>1, <1>2, <1>4
<1>6. ASSUME NEW i \in 1 .. n PROVE t[i] = q[i]
  <2>1. m + i \in 1 .. m + n /\ ~ (m + i <= m) /\ (m + i) - m = i
    BY <1>1
  <2> QED
    BY <1>2, <1>4, <1>5, <2>1
<1>7. t = q
  BY <1>4, <1>5, <1>6, SeqEqual DEF n
<1>8. m <= Len(r) /\ \A i \in 1 .. m : i \in 1 .. m + n /\ i <= m
  BY <1>1, <1>2
<1> QED
  BY <1>1, <1>2, <1>7, <1>8 DEF r, m, t

LEMMA LostBytes ==
  ASSUME Books, Books', LastsKnown, ReadError, NEW s \in StreamId
  PROVE  \E n \in 0 .. ReadChunk :
           /\ n <= Len(Pending(s))
           /\ Pending(s)' = SubSeq(Pending(s), n + 1, Len(Pending(s)))
           /\ Latest(s)' = IF n = 0 THEN Latest(s) ELSE Pending(s)[n]
<1> USE DEF Books
<1> DEFINE f == ChunkInFlight
           p == Popped(f, s)
           q == queue[s]
           n == Len(p)
<1>1. /\ UNCHANGED <<cursor, queue, last>> /\ chunk' = <<>> /\ sent' = 0
  BY DEF ReadError, Return, streamVars
<1>2. Pending(s)' = q /\ Latest(s)' = last[s]
  <2>1. (sent = Len(chunk))'
    BY <1>1, EmptySeq
  <2>2. Pending(s)' = queue'[s] /\ Latest(s)' = last'[s]
    BY <2>1, QuietStreamsNext
  <2> QED
    BY <1>1, <2>2
<1>3. /\ sent \in Nat /\ Len(chunk) \in Nat /\ sent <= Len(chunk) /\ Len(chunk) <= ReadChunk
      /\ f \in Seq(ChunkEntry) /\ Len(f) = Len(chunk) - sent
      /\ \A i \in 1 .. Len(chunk) - sent : f[i] = chunk[sent + i]
  BY SentWithin, FlightType DEF TypeOK
<1>4. Pending(s) = p \o q
  BY DEF Pending
<1>5. Latest(s) = LastAt(chunk, sent, s, last[s])
  BY LatestIs
<1> HIDE DEF f
<1>6. p \in Seq(Byte) /\ q \in Seq(Byte)
  BY <1>3, PoppedType DEF TypeOK, StreamsTypeOK
<1>7. /\ n <= Len(f)
      /\ p = <<>> => \A i \in 1 .. Len(f) : ~ IsPopOf(f[i].effect, s)
      /\ p # <<>> => EndsAt(f, s)
  BY <1>3, PoppedLast
<1>8. p # <<>> => \E i \in 1 .. Len(f) :
        /\ IsPopOf(f[i].effect, s)
        /\ \A j \in i + 1 .. Len(f) : ~ IsPopOf(f[j].effect, s)
        /\ p[n] = f[i].value
  BY <1>7 DEF EndsAt
<1> HIDE DEF p, q
<1>9. /\ n \in Nat /\ n <= Len(p \o q)
      /\ SubSeq(p \o q, n + 1, Len(p \o q)) = q
      /\ \A i \in 1 .. n : (p \o q)[i] = p[i]
  BY <1>6, SplitOff
<1>10. n \in 0 .. ReadChunk
  BY <1>3, <1>7, <1>9, I2cAssumption
<1>11. n = 0 <=> p = <<>>
  BY <1>6, EmptySeq
<1>12. CASE p = <<>>
  <2>1. PopsAfter(chunk, sent, s) = {}
    <3>1. ASSUME NEW j \in sent + 1 .. Len(chunk) PROVE ~ IsPopOf(chunk[j].effect, s)
      <4>1. j - sent \in 1 .. Len(chunk) - sent /\ sent + (j - sent) = j
        BY <1>3
      <4>2. j - sent \in 1 .. Len(f) /\ f[j - sent] = chunk[j]
        BY <1>3, <4>1
      <4> QED
        BY <1>7, <1>12, <4>2
    <3> QED
      BY <3>1 DEF PopsAfter
  <2>2. Latest(s) = last[s]
    BY <1>5, <2>1 DEF LastAt
  <2> QED
    BY <1>2, <1>4, <1>9, <1>10, <1>11, <1>12, <2>2
<1>13. CASE p # <<>>
  <2>1. PICK i \in 1 .. Len(f) :
          /\ IsPopOf(f[i].effect, s)
          /\ \A j \in i + 1 .. Len(f) : ~ IsPopOf(f[j].effect, s)
          /\ p[n] = f[i].value
    BY <1>8, <1>13
  <2> DEFINE k == sent + i
  <2>2. /\ k \in sent + 1 .. Len(chunk) /\ k \in Nat /\ i \in 1 .. Len(chunk) - sent
    BY <1>3
  <2>3. f[i] = chunk[k]
    BY <1>3, <2>2
  <2>4. PopsAfter(chunk, k, s) = {}
    <3>1. ASSUME NEW j \in k + 1 .. Len(chunk) PROVE ~ IsPopOf(chunk[j].effect, s)
      <4>1. /\ j - sent \in 1 .. Len(chunk) - sent /\ sent + (j - sent) = j
            /\ j - sent \in i + 1 .. Len(chunk) - sent
        BY <1>3, <2>2
      <4>2. j - sent \in i + 1 .. Len(f) /\ f[j - sent] = chunk[j]
        BY <1>3, <4>1
      <4> QED
        BY <2>1, <4>2
    <3> QED
      BY <3>1 DEF PopsAfter
  <2>5. LastAt(chunk, k, s, last[s]) = last[s]
    BY <2>4 DEF LastAt
  <2> HIDE DEF k
  <2>6. LastOf(chunk, k, s, last[s])
    BY <2>2 DEF LastsKnown
  <2>7. last[s] = p[n]
    BY <2>1, <2>3, <2>5, <2>6 DEF LastOf
  <2>8. n \in 1 .. n /\ n # 0
    BY <1>9, <1>11, <1>13
  <2>9. (p \o q)[n] = last[s]
    BY <1>9, <2>7, <2>8
  <2> QED
    BY <1>2, <1>4, <1>9, <1>10, <2>8, <2>9
<1> QED
  BY <1>12, <1>13

LEMMA LostSamples ==
  ASSUME Books, Books', ReadError, NEW a \in EmbeddedAddr
  PROVE  \E n \in 0 .. ReadChunk :
           Position(a)' = (Position(a) + n) % Len(EmbeddedData[a])
<1> USE DEF Books
<1> DEFINE T == AdvancesOf(a)
           r == Len(EmbeddedData[a])
           c == cursor[a]
           n == CountFrom(chunk, sent + 1, T)
<1>1. UNCHANGED <<cursor, queue, last>> /\ chunk' = <<>> /\ sent' = 0
  BY DEF ReadError, Return, streamVars
<1>2. Position(a)' = c
  <2>1. (sent = Len(chunk))'
    BY <1>1, EmptySeq
  <2>2. Position(a)' = cursor'[a]
    BY <2>1, QuietStreamsNext
  <2> QED
    BY <1>1, <2>2
<1>3. /\ sent \in Nat /\ Len(chunk) \in Nat /\ Len(chunk) <= ReadChunk
      /\ chunk \in Seq(ChunkEntry) /\ sent + 1 \in Nat /\ sent + 1 >= 1
  BY SentWithin DEF TypeOK
<1>4. Position(a) = (c - n) % r
  BY <1>3, PositionIs
<1>5. n \in Nat /\ n <= Len(chunk)
  BY <1>3, CountType, CountAtMost
<1>6. r \in Nat \ {0} /\ c \in 0 .. r - 1
  BY SamplesNotEmpty DEF TypeOK, StreamsTypeOK
<1> HIDE DEF T, r, c, n
<1>7. (((c - n) % r) + n) % r = ((c - n) + n) % r
  <2>1. c - n \in Int /\ n \in Int /\ r \in Nat \ {0}
    BY <1>5, <1>6
  <2> QED
    BY <2>1, ModPlus, Zenon
<1>8. (c - n) + n = c
  BY <1>5, <1>6
<1>9. c % r = c
  BY <1>6, Wrap
<1>10. n \in 0 .. ReadChunk
  BY <1>3, <1>5, I2cAssumption
<1>11. Position(a)' = (Position(a) + n) % r
  BY <1>2, <1>4, <1>7, <1>8, <1>9
<1> QED
  BY <1>10, <1>11 DEF r

LEMMA ErrorPlays ==
  ASSUME Books, Books', InFlightKnown, ReadError
  PROVE  Plays
<1>1. pc # "listen" /\ pc' = "listen" /\ wire' = <<>>
  BY DEF ReadError, Return
<1>2. PointerBar' \in Byte
  BY <1>1, PointerViewNext DEF Books, TypeOK, RegistersTypeOK
<1>3. LastsKnown
  BY DEF InFlightKnown
<1>4. /\ \A s \in StreamId : \E n \in 0 .. ReadChunk :
           /\ n <= Len(Pending(s))
           /\ Pending(s)' = SubSeq(Pending(s), n + 1, Len(Pending(s)))
           /\ Latest(s)' = IF n = 0 THEN Latest(s) ELSE Pending(s)[n]
      /\ \A a \in EmbeddedAddr : \E n \in 0 .. ReadChunk :
           Position(a)' = (Position(a) + n) % Len(EmbeddedData[a])
  BY <1>3, LostBytes, LostSamples
<1> QED
  BY <1>1, <1>2, <1>4, Aborts

LEMMA CommandPlays ==
  ASSUME Books, Books', Command
  PROVE  Plays
<1> USE DEF Books
<1>1. pointer' \in Byte /\ start' \in Byte /\ Len(wire') \in Nat
  BY LenProperties DEF TypeOK, RegistersTypeOK
<1>2. CASE WriteEmpty \/ ListenError
  <2>1. /\ pc' = pc /\ start' = start /\ wire' = wire /\ pointer' = pointer
        /\ UNCHANGED <<cursor, queue, last, chunk, sent>>
    BY <1>2 DEF WriteEmpty, ListenError, streamVars, regVars, readVars
  <2> QED
    BY <2>1, HiddenStill, PointerStays, Unseen
<1>3. ASSUME NEW m \in Messages, Write(m) \/ GeneralCall(m) PROVE Plays
  <2>1. /\ pc = "listen" /\ pc' = "listen" /\ wire' = wire
        /\ UNCHANGED <<cursor, queue, last, chunk, sent>>
    BY <1>3 DEF Write, GeneralCall, Listening, streamVars, readVars
  <2>2. PointerBar' \in Byte
    BY <1>1, <2>1, PointerViewNext
  <2> QED
    BY <2>1, <2>2, HiddenStill, Addresses
<1>4. ASSUME NEW k, NEW p, Listening, ServeRead(k, p) PROVE Plays
  <2>1. /\ pc = "listen" /\ pc' = "fill" /\ wire' = wire
        /\ UNCHANGED <<cursor, queue, last, chunk, sent>>
    BY <1>4 DEF Listening, ServeRead, streamVars
  <2>2. PointerBar' = Advance(start', Len(wire'))
    BY <2>1, PointerViewNext DEF Advance
  <2>3. PointerBar' \in Byte
    <3>1. \A p1 \in Byte, n \in Nat : Advance(p1, n) \in Byte
      BY PointerIsByte
    <3> QED
      BY <1>1, <2>2, <3>1
  <2> QED
    BY <2>1, <2>3, HiddenStill, Starts
<1> QED
  BY <1>2, <1>3, <1>4 DEF Command, WriteRead, Read

LEMMA ReturnPlays ==
  ASSUME Books, Books', Done \/ RecordLeftover
  PROVE  Plays
<1> USE DEF Books
<1>1. /\ pc \in {"respond", "rollback"} /\ pc' = "listen" /\ wire' = <<>>
      /\ pointer' = pointer /\ chunk' = <<>> /\ sent' = 0 /\ UNCHANGED streamVars
  BY DEF Done, RecordLeftover, Return, regVars
<1>2. /\ sent = Len(chunk) /\ sent \in Nat /\ Len(wire) \in Nat
  BY SentWithin DEF Done, RecordLeftover, ReadProgress
<1>3. sent' = Len(chunk')
  BY <1>1, EmptySeq
<1>4. SameStreams
  BY <1>1, <1>2, <1>3, HiddenQuiet
<1>5. PointerBar' = pointer
  BY <1>1, PointerViewNext
<1>6. PointerBar = pointer
  <2>1. Len(wire) + Len(chunk) - sent = Len(wire)
    BY <1>2
  <2>2. pointer = Advance(start, Len(wire))
    BY <1>1, <2>1 DEF PointerFollowsMaster
  <2> QED
    BY <1>1, <2>2, PointerView
<1> QED
  BY <1>1, <1>4, <1>5, <1>6, Ends

(* Every step of the service is one of the contract. *)
ServiceInv == Books /\ RoomForRollback /\ InFlightKnown

LEMMA ServicePlays ==
  ASSUME FeedLimit + ReadChunk <= Capacity, ~ HostMayReset,
         ServiceInv, Books', [Next]_vars
  PROVE  Plays
<1> USE DEF ServiceInv
<1>1. CASE HandleReset \/ RequestReset \/ UNCHANGED vars
  <2>1. /\ pc' = pc /\ start' = start /\ wire' = wire /\ pointer' = pointer
        /\ UNCHANGED <<cursor, queue, last, chunk, sent>>
    BY <1>1 DEF HandleReset, RequestReset, OtherTaskRuns, vars, streamVars, regVars, readVars
  <2> QED
    BY <2>1, HiddenStill, PointerStays, Unseen
<1>2. CASE NeedMoreBytes
  <2>1. /\ pc = "respond" /\ pc' = "fill" /\ start' = start /\ wire' = wire
        /\ chunk' = <<>> /\ sent' = 0 /\ sent = ReadChunk /\ UNCHANGED streamVars
    BY <1>2 DEF NeedMoreBytes
  <2>2. sent = Len(chunk) /\ sent' = Len(chunk')
    BY <2>1, EmptySeq DEF Books, ReadProgress
  <2>3. SameStreams
    BY <2>1, <2>2, HiddenQuiet DEF Books
  <2> QED
    BY <2>1, <2>3, PointerStays, Unseen
<1>3. CASE LeftoverBytes
  <2>1. /\ pc = "respond" /\ pc' = "rollback" /\ start' = start /\ wire' = wire
        /\ UNCHANGED <<cursor, queue, last, chunk, sent>>
    BY <1>3 DEF LeftoverBytes, streamVars, readVars
  <2> QED
    BY <2>1, HiddenStill, PointerStays, Unseen
<1>4. CASE UndoRead
  <2>1. pc # "listen" /\ pc' = pc /\ start' = start /\ wire' = wire
    BY <1>4 DEF UndoRead
  <2>2. SameStreams
    BY <1>4, HiddenUndo DEF Books
  <2> QED
    BY <2>1, <2>2, PointerStays, Unseen
<1>5. CASE \E s \in StreamId, data \in FeedData : HostFeed(s, data)
  BY <1>5, FeedPlays
<1> QED
  BY <1>1, <1>2, <1>3, <1>4, <1>5, CommandPlays, FillPlays, MasterPlays, ReturnPlays, ErrorPlays
  DEF Next, EndOfRead, Rollback, Host, HostReset

LEMMA ServiceInit ==
  Init => Contract!Init
<1> SUFFICES ASSUME Init PROVE Contract!Init
  OBVIOUS
<1>1. TypeOK /\ ReadProgress /\ PointerFollowsMaster
  BY TypeInit, PointerInit DEF Init, ReadProgress
<1>2. /\ pc = "listen" /\ chunk = <<>> /\ sent = 0 /\ pointer = 0 /\ wire = <<>>
      /\ \A s \in StreamId : queue[s] = <<>> /\ last[s] = NoByte
      /\ \A a \in EmbeddedAddr : cursor[a] = 0
  BY DEF Init, IdleRead, StreamsInit, RegistersInit
<1>3. sent = Len(chunk)
  BY <1>2, EmptySeq
<1>4. /\ \A s \in StreamId : Pending(s) = <<>> /\ Latest(s) = NoByte
      /\ \A a \in EmbeddedAddr : Position(a) = 0
  BY <1>1, <1>2, <1>3, QuietStreams
<1>5. PointerBar = 0
  BY <1>1, <1>2, PointerView DEF Books
<1> QED
  BY <1>2, <1>4, <1>5
  DEF Contract!Init, Contract!StreamId, Contract!EmbeddedAddr, StreamId, EmbeddedAddr, PointerBar

(* Reading ahead is invisible: with a host that keeps a chunk of room free   *)
(* and does not reset the streams, the service is the device of              *)
(* StreamContract, whatever the registers, the chunk size and the feeds.     *)
THEOREM ReadingCorrect ==
  ASSUME ~ HostMayReset, FeedLimit + ReadChunk <= Capacity
  PROVE  Spec => ReadsAreExact
<1>1. Init => ServiceInv
  BY TypeInit, PointerInit, RoomInit, InFlightInit DEF Init, ReadProgress, ServiceInv, Books
<1>2. ServiceInv /\ [Next]_vars => ServiceInv'
  BY TypeStep, ProgressStep, PointerStep, RoomStep, InFlightStep DEF ServiceInv, Books
<1>3. ServiceInv /\ ServiceInv' /\ [Next]_vars => [Contract!Next]_(Contract!vars)
  BY ServicePlays DEF ServiceInv, Plays
<1> QED
  BY <1>1, <1>2, <1>3, ServiceInit, PTL DEF Spec, ReadsAreExact, Contract!Spec

===============================================================================
