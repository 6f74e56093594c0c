------------------------------- MODULE HostRing -------------------------------
(***************************************************************************)
(* The ring buffer inside HostStreamState (firmware/src/streams.rs): a     *)
(* fixed array, the index of its oldest byte and a length.  The array is   *)
(* never cleared, so bytes of earlier contents stay in it.                 *)
(***************************************************************************)
EXTENDS Integers, Sequences

CONSTANTS
  Byte,       \* the values of a u8
  Capacity,   \* HOST_STREAM_BUFFER_CAPACITY
  FeedData,   \* the data push_back may be called with
  NoByte      \* pop_front() = None

ASSUME RingAssumption ==
  /\ Capacity \in Nat \ {0}
  /\ 0 \in Byte
  /\ NoByte \notin Byte
  /\ \A data \in FeedData : data \in Seq(Byte)

VARIABLES buf, head, len, ret

vars == <<buf, head, len, ret>>

Slot == 0 .. Capacity - 1

Init ==
  /\ buf = [i \in Slot |-> 0]
  /\ head = 0
  /\ len = 0
  /\ ret = NoByte

(* Mutant of PopFront: the head index is not wrapped. *)
M_PopFront ==
  /\ len # 0
  /\ ret' = buf[head]
  /\ head' = head + 1
  /\ len' = len - 1
  /\ UNCHANGED buf

PopFront ==
  /\ len # 0
  /\ ret' = buf[head]
  /\ head' = (head + 1) % Capacity
  /\ len' = len - 1
  /\ UNCHANGED buf

PopFrontEmpty ==
  /\ len = 0
  /\ ret' = NoByte
  /\ UNCHANGED <<buf, head, len>>

(* The copy loop writes data[0 .. accepted) to the slots from the tail on. *)
PushBack(data) ==
  LET accepted == IF Len(data) <= Capacity - len THEN Len(data) ELSE Capacity - len
      tail == (head + len) % Capacity
      offset(i) == (i - tail) % Capacity
  IN /\ buf' = [i \in Slot |-> IF offset(i) < accepted THEN data[offset(i) + 1] ELSE buf[i]]
     /\ len' = len + accepted
     /\ ret' = accepted
     /\ UNCHANGED head

(* Mutant of PushFrontOne: the byte is stored before the head is moved. *)
M_PushFrontOne(v) ==
  /\ len < Capacity
  /\ buf' = [buf EXCEPT ![head] = v]
  /\ head' = IF head = 0 THEN Capacity - 1 ELSE head - 1
  /\ len' = len + 1
  /\ ret' = NoByte

PushFrontOne(v) ==
  /\ len < Capacity
  /\ head' = IF head = 0 THEN Capacity - 1 ELSE head - 1
  /\ buf' = [buf EXCEPT ![head'] = v]
  /\ len' = len + 1
  /\ ret' = NoByte

PushFrontOneFull(v) ==
  /\ len >= Capacity
  /\ ret' = NoByte
  /\ UNCHANGED <<buf, head, len>>

ResetWithAddr ==
  /\ head' = 0
  /\ len' = 0
  /\ ret' = NoByte
  /\ UNCHANGED buf

Next ==
  \/ PopFront
  \/ PopFrontEmpty
  \/ \E data \in FeedData : PushBack(data)
  \/ \E v \in Byte : PushFrontOne(v) \/ PushFrontOneFull(v)
  \/ ResetWithAddr

Spec == Init /\ [][Next]_vars

-------------------------------------------------------------------------------
(* The indices stay inside the array whatever calls are made: no call of   *)
(* streams.rs can index buf out of bounds, which would panic the firmware. *)
TypeOK ==
  /\ buf \in [Slot -> Byte]
  /\ head \in Slot
  /\ len \in 0 .. Capacity
  /\ ret \in Byte \cup {NoByte} \cup 0 .. Capacity

(* The bytes the ring holds, oldest first. *)
Contents == [i \in 1 .. len |-> buf[(head + i - 1) % Capacity]]

Queue == INSTANCE ByteQueue WITH queue <- Contents

(* HostStreamState's ring is a bounded FIFO queue: every pop, push and     *)
(* push-front of streams.rs 100-139 does to the bytes held, and returns,   *)
(* what the queue of ByteQueue does, wherever head and tail wrap.          *)
QueueSpec == Queue!Spec

===============================================================================
