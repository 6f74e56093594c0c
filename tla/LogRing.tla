--------------------------------- MODULE LogRing --------------------------------
(***************************************************************************)
(* The ring of firmware/src/log.rs that keeps the last I2C transactions.   *)
(* Each function is one critical section, hence one step of the task that  *)
(* calls it: the I2C task pushes, the USB command line clears and takes    *)
(* snapshots.                                                              *)
(***************************************************************************)
EXTENDS Integers, Sequences

CONSTANTS
  Event,          \* what record is called with
  NoEvent,        \* the payload of Event::empty
  Capacity,       \* RING_CAPACITY
  SeqLimit          \* the modulus of the u32 sequence number

ASSUME LogAssumption ==
  /\ Capacity \in Nat \ {0}
  /\ SeqLimit \in Nat \ {0}
  /\ NoEvent \notin Event

VARIABLES entries, next, count, seq   \* Ring

ringVars == <<entries, next, count, seq>>

Slot == 0 .. Capacity - 1
Entry == [seq : 0 .. SeqLimit - 1, event : Event \cup {NoEvent}]

RingInit ==
  /\ entries = [i \in Slot |-> [seq |-> 0, event |-> NoEvent]]
  /\ next = 0
  /\ count = 0
  /\ seq = 0

(* Mutant of Push: the count runs past the capacity. *)
M_Push(e) ==
  /\ seq' = (seq + 1) % SeqLimit
  /\ entries' = [entries EXCEPT ![next] = [seq |-> seq', event |-> e]]
  /\ next' = (next + 1) % Capacity
  /\ count' = count + 1

Push(e) ==
  /\ seq' = (seq + 1) % SeqLimit
  /\ entries' = [entries EXCEPT ![next] = [seq |-> seq', event |-> e]]
  /\ next' = (next + 1) % Capacity
  /\ count' = IF count < Capacity THEN count + 1 ELSE count

(* The entries stay in the array. *)
ClearRing ==
  /\ next' = 0
  /\ count' = 0
  /\ seq' = 0
  /\ UNCHANGED entries

(* Mutant of LastEntries: the snapshot starts at the oldest slot of the array. *)
M_LastEntries(n) == [i \in 1 .. n |-> entries[(i - 1) % Capacity]]

(* The n entries before next. *)
LastEntries(n) ==
  LET first == (next + Capacity - n) % Capacity
  IN [i \in 1 .. n |-> entries[(first + i - 1) % Capacity]]

(* What snapshot copies into a slice of n events. *)
Snapshot(n) == LastEntries(IF count <= n THEN count ELSE n)

(* The ring's indices stay inside its array. *)
RingTypeOK ==
  /\ entries \in [Slot -> Entry]
  /\ next \in Slot
  /\ count \in 0 .. Capacity
  /\ seq \in 0 .. SeqLimit - 1

===============================================================================
