-------------------------------- MODULE EventLog --------------------------------
(***************************************************************************)
(* What the transaction log promises: the newest events, at most Capacity  *)
(* of them, oldest first, each with the number it got when it was logged.  *)
(***************************************************************************)
EXTENDS Integers, Sequences

CONSTANTS Event, Capacity, SeqLimit

VARIABLES
  log,    \* the events kept, as [seq, event] records
  seq     \* the number of the event logged last

vars == <<log, seq>>

Newest(q, n) == IF Len(q) <= n THEN q ELSE SubSeq(q, Len(q) - n + 1, Len(q))

Init == log = <<>> /\ seq = 0

Push(e) ==
  /\ seq' = (seq + 1) % SeqLimit
  /\ log' = Newest(Append(log, [seq |-> seq', event |-> e]), Capacity)

Clear == log' = <<>> /\ seq' = 0

Next == Clear \/ \E e \in Event : Push(e)

Spec == Init /\ [][Next]_vars

===============================================================================
