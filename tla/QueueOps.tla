------------------------------- MODULE QueueOps -------------------------------
(***************************************************************************)
(* What the byte queue of a host stream does, as operators on the sequence *)
(* of its queued bytes.  HostRing shows that the ring buffer of            *)
(* firmware/src/streams.rs implements them; Streams and every module above *)
(* it use them.                                                            *)
(***************************************************************************)
EXTENDS Integers, Sequences

CONSTANTS
  Byte,       \* the values of a u8
  Capacity    \* HOST_STREAM_BUFFER_CAPACITY

ASSUME CapacityAssumption == Capacity \in Nat \ {0}

Free(q) == Capacity - Len(q)

(* How many bytes of data a push accepts: what fits, from the front. *)
Accepted(q, data) == IF Len(data) <= Free(q) THEN Len(data) ELSE Free(q)

PushBack(q, data) == q \o SubSeq(data, 1, Accepted(q, data))

(* Mutant of PushFrontOne: the last free place is never used. *)
M_PushFrontOne(q, v) == IF Len(q) >= Capacity - 1 THEN q ELSE <<v>> \o q

(* A full queue swallows the byte without telling the caller. *)
PushFrontOne(q, v) == IF Len(q) >= Capacity THEN q ELSE <<v>> \o q

===============================================================================
