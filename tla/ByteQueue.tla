------------------------------- MODULE ByteQueue ------------------------------
(***************************************************************************)
(* The abstract specification of a host stream's buffer: a bounded         *)
(* first-in first-out queue of bytes that also takes one byte back at its  *)
(* front.  ret is what the last call returned.                             *)
(***************************************************************************)
EXTENDS QueueOps

CONSTANTS
  FeedData,   \* the data a caller may push, a set of byte sequences
  NoByte      \* pop_front() = None, and the return of calls without a result

VARIABLES queue, ret

vars == <<queue, ret>>

Init == queue = <<>> /\ ret = NoByte

Pop ==
  /\ queue # <<>>
  /\ ret' = Head(queue)
  /\ queue' = Tail(queue)

PopEmpty ==
  /\ queue = <<>>
  /\ ret' = NoByte
  /\ UNCHANGED queue

Push(data) ==
  /\ ret' = Accepted(queue, data)
  /\ queue' = PushBack(queue, data)

PushFront(v) ==
  /\ ret' = NoByte
  /\ queue' = PushFrontOne(queue, v)

Clear ==
  /\ ret' = NoByte
  /\ queue' = <<>>

Next ==
  \/ Pop
  \/ PopEmpty
  \/ \E data \in FeedData : Push(data)
  \/ \E v \in Byte : PushFront(v)
  \/ Clear

Spec == Init /\ [][Next]_vars

===============================================================================
