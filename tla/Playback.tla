-------------------------------- MODULE Playback --------------------------------
(***************************************************************************)
(* What csv_streamer promises: the bytes a stream takes are the samples of *)
(* its CSV file in order, round and round, none left out and none twice.   *)
(* A run of the streamer starts with the first sample; the chunk an        *)
(* earlier run had under way may still arrive.                             *)
(***************************************************************************)
EXTENDS StreamDevice

CONSTANTS
  Samples,     \* stream id -> the samples of its CSV file
  FeedChunk    \* FEED_CHUNK_BYTES

VARIABLES
  active,      \* whether a run of the streamer is feeding
  position,    \* the index in Samples of the next byte each stream is to take
  leftover     \* payloads of earlier runs that may still arrive, oldest first

vars == <<deviceVars, active, position, leftover>>

Init ==
  /\ DeviceInit
  /\ active = FALSE
  /\ position = [s \in StreamId |-> 0]
  /\ leftover = <<>>

(* The n samples of stream s from index i on. *)
Chunk(s, i, n) == [k \in 1 .. n |-> Samples[s][((i + k - 1) % Len(Samples[s])) + 1]]

BeginRun ==
  /\ ~active
  /\ active' = TRUE
  /\ UNCHANGED <<deviceVars, position, leftover>>

Take(s, n) ==
  LET data == Chunk(s, position[s], n)
  IN /\ active
     /\ FeedStream(s, data)
     /\ position' = [position EXCEPT ![s] = (@ + Accepted(queue[s], data)) % Len(Samples[s])]
     /\ UNCHANGED <<ahead, active, leftover>>

TakeLeftover ==
  /\ leftover # <<>>
  /\ FeedStream(Head(Head(leftover)), Tail(Head(leftover)))
  /\ leftover' = Tail(leftover)
  /\ UNCHANGED <<ahead, active, position>>

(* A run ends.  What it had under way arrives later, or is lost, and so is   *)
(* all behind it.                                                            *)
EndRun ==
  /\ active' = FALSE
  /\ \E s \in StreamId, n \in 0 .. FeedChunk :
       LET underWay == Append(leftover, <<s>> \o Chunk(s, position[s], n))
       IN \E k \in 0 .. Len(underWay) : leftover' = SubSeq(underWay, 1, k)
  /\ position' = [s \in StreamId |-> 0]
  /\ UNCHANGED deviceVars

Next ==
  \/ BeginRun
  \/ \E s \in StreamId, n \in 0 .. FeedChunk : Take(s, n)
  \/ TakeLeftover
  \/ EndRun
  \/ I2cTask /\ UNCHANGED <<active, position, leftover>>

Spec == Init /\ [][Next]_vars

===============================================================================
