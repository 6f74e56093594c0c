-------------------------------- MODULE Streams --------------------------------
(***************************************************************************)
(* The StreamManager of firmware/src/streams.rs: for every register backed *)
(* by a CSV file either a cursor into samples compiled into the firmware   *)
(* (embedded) or a bounded queue of bytes the USB host feeds (host stream).*)
(* Reading such a register changes the manager; the change is described by *)
(* a ReadEffect, with which rollback_effect takes it back.                 *)
(*                                                                         *)
(* Each function of streams.rs is one critical section, hence one action.  *)
(* has_last and last_value are one variable, last, which is NoByte when    *)
(* has_last is false (last_value is then 0 and never read).                *)
(***************************************************************************)
EXTENDS QueueOps, FiniteSets

CONSTANTS
  EmbeddedData,   \* register -> its compiled-in samples (CSV_REGISTERS)
  StreamAddr,     \* host stream id -> its register (HOST_STREAM_ADDRS)
  CounterMod,     \* the modulus of the u32 counters
  NoByte          \* no last value yet

EmbeddedAddr == DOMAIN EmbeddedData
StreamId == DOMAIN StreamAddr

ASSUME StreamsAssumption ==
  /\ CounterMod \in Nat \ {0}
  /\ NoByte \notin Byte
  /\ EmbeddedAddr \subseteq Byte
  /\ \A a \in EmbeddedAddr : EmbeddedData[a] \in Seq(Byte) \ {<<>>}
  /\ StreamAddr \in [StreamId -> Byte \ EmbeddedAddr]
  /\ \A s, t \in StreamId : StreamAddr[s] = StreamAddr[t] => s = t

VARIABLES
  cursor,      \* embedded_cursor
  queue,       \* the ring buffer of each host stream, oldest byte first
  last,        \* the last byte popped from each host stream
  underruns, drops

streamVars == <<cursor, queue, last, underruns, drops>>

StreamsInit ==
  /\ cursor = [a \in EmbeddedAddr |-> 0]
  /\ queue = [s \in StreamId |-> <<>>]
  /\ last = [s \in StreamId |-> NoByte]
  /\ underruns = [s \in StreamId |-> 0]
  /\ drops = [s \in StreamId |-> 0]

-------------------------------------------------------------------------------
(* ReadEffect.  prev stands for prev_has_last and prev_last. *)
NoEffect == [kind |-> "None"]
EmbeddedAdvance(a) == [kind |-> "EmbeddedAdvance", addr |-> a]
HostPop(s, v, prev) == [kind |-> "HostPop", id |-> s, value |-> v, prev |-> prev]
HostUnderrun(s) == [kind |-> "HostUnderrun", id |-> s]

ReadEffect ==
  {NoEffect}
    \cup [kind : {"EmbeddedAdvance"}, addr : EmbeddedAddr]
    \cup [kind : {"HostPop"}, id : StreamId, value : Byte, prev : Byte \cup {NoByte}]
    \cup [kind : {"HostUnderrun"}, id : StreamId]

IsPopOf(e, s) == e.kind = "HostPop" /\ e.id = s

-------------------------------------------------------------------------------
(* read_for_register, by kind of register; the value read is                *)
(* EmbeddedValue(a), Head(queue[s]) or UnderrunValue(s, fallback).          *)
EmbeddedValue(a) == EmbeddedData[a][cursor[a] + 1]

UnderrunValue(s, fallback) == IF last[s] # NoByte THEN last[s] ELSE fallback

AdvanceCursor(a) ==
  /\ cursor' = [cursor EXCEPT ![a] = (@ + 1) % Len(EmbeddedData[a])]
  /\ UNCHANGED <<queue, last, underruns, drops>>

(* Mutant of PopByte: the byte is read but stays in the queue. *)
M_PopByte(s) ==
  /\ queue[s] # <<>>
  /\ last' = [last EXCEPT ![s] = Head(queue[s])]
  /\ UNCHANGED <<cursor, queue, underruns, drops>>

PopByte(s) ==
  /\ queue[s] # <<>>
  /\ queue' = [queue EXCEPT ![s] = Tail(@)]
  /\ last' = [last EXCEPT ![s] = Head(queue[s])]
  /\ UNCHANGED <<cursor, underruns, drops>>

CountUnderrun(s) ==
  /\ queue[s] = <<>>
  /\ underruns' = [underruns EXCEPT ![s] = (@ + 1) % CounterMod]
  /\ UNCHANGED <<cursor, queue, last, drops>>

-------------------------------------------------------------------------------
(* rollback_effect, by kind of effect. *)
RetreatCursor(a) ==
  /\ cursor' = [cursor EXCEPT ![a] = IF @ = 0 THEN Len(EmbeddedData[a]) - 1 ELSE @ - 1]
  /\ UNCHANGED <<queue, last, underruns, drops>>

UnpopByte(s, v, prev) ==
  /\ queue' = [queue EXCEPT ![s] = PushFrontOne(@, v)]
  /\ last' = [last EXCEPT ![s] = prev]
  /\ UNCHANGED <<cursor, underruns, drops>>

UncountUnderrun(s) ==
  /\ underruns' = [underruns EXCEPT ![s] = IF @ = 0 THEN 0 ELSE @ - 1]
  /\ UNCHANGED <<cursor, queue, last, drops>>

(* Mutant of RollbackEffect: the last value is not restored. *)
M_RollbackEffect(e) ==
  \/ e.kind = "None" /\ UNCHANGED streamVars
  \/ e.kind = "EmbeddedAdvance" /\ RetreatCursor(e.addr)
  \/ e.kind = "HostPop" /\ UnpopByte(e.id, e.value, e.value)
  \/ e.kind = "HostUnderrun" /\ UncountUnderrun(e.id)

RollbackEffect(e) ==
  \/ e.kind = "None" /\ UNCHANGED streamVars
  \/ e.kind = "EmbeddedAdvance" /\ RetreatCursor(e.addr)
  \/ e.kind = "HostPop" /\ UnpopByte(e.id, e.value, e.prev)
  \/ e.kind = "HostUnderrun" /\ UncountUnderrun(e.id)

-------------------------------------------------------------------------------
(* feed, for a valid stream id. *)
FeedStream(s, data) ==
  /\ queue' = [queue EXCEPT ![s] = PushBack(@, data)]
  /\ drops' = [drops EXCEPT
                 ![s] = (@ + Len(data) - Accepted(queue[s], data)) % CounterMod]
  /\ UNCHANGED <<cursor, last, underruns>>

(* reset_all *)
ResetAll ==
  /\ cursor' = [a \in EmbeddedAddr |-> 0]
  /\ queue' = [s \in StreamId |-> <<>>]
  /\ last' = [s \in StreamId |-> NoByte]
  /\ underruns' = [s \in StreamId |-> 0]
  /\ drops' = [s \in StreamId |-> 0]

StreamsTypeOK ==
  /\ cursor \in [EmbeddedAddr -> Nat]
  /\ \A a \in EmbeddedAddr : cursor[a] < Len(EmbeddedData[a])
  /\ queue \in [StreamId -> Seq(Byte)]
  /\ \A s \in StreamId : Len(queue[s]) <= Capacity
  /\ last \in [StreamId -> Byte \cup {NoByte}]
  /\ underruns \in [StreamId -> 0 .. CounterMod - 1]
  /\ drops \in [StreamId -> 0 .. CounterMod - 1]

===============================================================================
