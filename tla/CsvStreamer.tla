------------------------------- MODULE CsvStreamer ------------------------------
(***************************************************************************)
(* tools/csv_streamer: the host program that keeps the host streams fed    *)
(* with the samples of their CSV files, over the channel that UsbStream    *)
(* provides.  A run negotiates, fills each stream to PrefillLevel, and     *)
(* then passes over the streams again and again, refilling those at        *)
(* LowMark or below; from time to time a pass first asks each stream for   *)
(* its free space (a feed without data).  A run may end at any time: it is *)
(* killed, its port fails, or an answer does not come in two seconds.      *)
(*                                                                         *)
(* The model file is that of the firmware: the descriptors of HELLO_RESP   *)
(* are the streams (the checks of lines 117-144 hold).                     *)
(***************************************************************************)
EXTENDS StreamChannel, SequencesExt

CONSTANTS
  Samples,     \* stream id -> the samples of its CSV file
  FeedChunk,   \* FEED_CHUNK_BYTES
  MaxStarts    \* how often the program is started: a bound

PrefillLevel == (Capacity * 3) \div 4
LowMark == Capacity \div 2

ASSUME StreamerAssumption ==
  /\ IsFiniteSet(StreamId) /\ StreamId # {}
  /\ StreamId = 0 .. Cardinality(StreamId) - 1
  /\ StreamId \subseteq Byte
  /\ Samples \in [StreamId -> Seq(Byte) \ {<<>>}]
  /\ FeedChunk \in Nat \ {0}
  /\ MaxStarts \in Nat

VARIABLES
  pc,        \* closed, hello, ready, await (of an acknowledgement) or failed
  todo,      \* at stream at: prefill, probe or refill; or pause between passes
  at,        \* the stream the loop is at
  due,       \* probe_due of this pass
  free,      \* StreamState.free
  cur,       \* StreamState.cursor
  chunkLen,  \* chunk_len of the feed under way
  starts

streamerVars == <<pc, todo, at, due, free, cur, chunkLen, starts>>
vars == <<deviceVars, channelVars, streamerVars>>

Init ==
  /\ ChannelInit
  /\ pc = "closed"
  /\ todo = "prefill"
  /\ at = 0
  /\ due = FALSE
  /\ free = [s \in StreamId |-> 0]
  /\ cur = [s \in StreamId |-> 0]
  /\ chunkLen = 0
  /\ starts = 0

Smaller(a, b) == IF a <= b THEN a ELSE b

-------------------------------------------------------------------------------
(* Mutant of Start: the run does not negotiate. *)
M_Start ==
  /\ pc \in {"closed", "failed"}
  /\ starts < MaxStarts
  /\ link
  /\ pc' = "ready"
  /\ free' = [s \in StreamId |-> Capacity]
  /\ starts' = starts + 1
  /\ UNCHANGED <<deviceVars, channelVars, todo, at, due, cur, chunkLen>>

(* The port is opened and HELLO_REQ is sent. *)
Start ==
  /\ pc \in {"closed", "failed"}
  /\ starts < MaxStarts
  /\ Request([op |-> HelloReq, payload |-> <<>>])
  /\ pc' = "hello"
  /\ starts' = starts + 1
  /\ UNCHANGED <<todo, at, due, free, cur, chunkLen>>

(* Killed, timed out, or the port failed.  Variables of the process go.      *)
Forget ==
  /\ todo' = "prefill"
  /\ at' = 0
  /\ due' = FALSE
  /\ free' = [s \in StreamId |-> 0]
  /\ cur' = [s \in StreamId |-> 0]
  /\ chunkLen' = 0
  /\ UNCHANGED starts

End ==
  /\ pc \in {"hello", "ready", "await"}
  /\ pc' = "closed"
  /\ Forget
  /\ UNCHANGED <<deviceVars, channelVars>>

(* HELLO_RESP: the streams are taken to be empty, whatever they hold. *)
Attach ==
  /\ pc' = "ready"
  /\ free' = [s \in StreamId |-> Capacity]
  /\ UNCHANGED <<todo, at, due, cur, chunkLen, starts>>

-------------------------------------------------------------------------------
FillLevel(s) == Capacity - free[s]

(* The samples from the cursor on. *)
NextSamples(n) ==
  [i \in 1 .. n |-> Samples[at][((cur[at] + i - 1) % Len(Samples[at])) + 1]]

(* feed_chunk, up to its answer *)
SendFeed(n) ==
  /\ Request([op |-> Feed, payload |-> <<at>> \o NextSamples(n)])
  /\ cur' = [cur EXCEPT ![at] = (@ + n) % Len(Samples[at])]
  /\ chunkLen' = n
  /\ pc' = "await"
  /\ UNCHANGED <<todo, at, due, free, starts>>

(* Mutant of WantsPrefill: one chunk more when the level is reached. *)
M_WantsPrefill == FillLevel(at) <= PrefillLevel /\ free[at] # 0

WantsPrefill == FillLevel(at) < PrefillLevel /\ free[at] # 0

WantsRefill == FillLevel(at) <= LowMark /\ free[at] # 0

FirstTodo == IF due THEN "probe" ELSE "refill"

(* On to the next stream, to the main loop after the prefill, or to the      *)
(* pause at the end of a pass.                                               *)
NextStream ==
  /\ at' = (at + 1) % Cardinality(StreamId)
  /\ todo' = IF at' = 0 THEN "pause" ELSE IF todo = "prefill" THEN todo ELSE FirstTodo
  /\ due' = (due /\ at' # 0)

Prefill ==
  /\ pc = "ready" /\ todo = "prefill"
  /\ WantsPrefill
  /\ SendFeed(Smaller(FeedChunk, free[at]))

Probe ==
  /\ pc = "ready" /\ todo = "probe"
  /\ SendFeed(0)

Refill ==
  /\ pc = "ready" /\ todo = "refill"
  /\ WantsRefill
  /\ SendFeed(Smaller(FeedChunk, free[at]))

SkipStream ==
  /\ pc = "ready"
  /\ \/ todo = "prefill" /\ ~WantsPrefill
     \/ todo = "refill" /\ ~WantsRefill
  /\ NextStream
  /\ UNCHANGED <<deviceVars, channelVars, pc, free, cur, chunkLen, starts>>

(* Mutant of BeginPass: the streams are never probed. *)
M_BeginPass(isDue) ==
  /\ pc = "ready" /\ todo = "pause"
  /\ todo' = "refill"
  /\ due' = FALSE
  /\ UNCHANGED <<deviceVars, channelVars, pc, at, free, cur, chunkLen, starts>>

BeginPass(isDue) ==
  /\ pc = "ready" /\ todo = "pause"
  /\ due' = isDue
  /\ todo' = IF isDue THEN "probe" ELSE "refill"
  /\ UNCHANGED <<deviceVars, channelVars, pc, at, free, cur, chunkLen, starts>>

-------------------------------------------------------------------------------
(* Mutant of RewindCursor: bytes that were not accepted are not sent again. *)
M_RewindCursor(s, n) == UNCHANGED cur

RewindCursor(s, n) ==
  LET size == Len(Samples[s])
  IN cur' = [cur EXCEPT ![s] = (@ + size - (n % size)) % size]

(* feed_chunk, from its answer on, and what its caller does with it *)
Account(ack) ==
  IF ack.id = at /\ ack.accepted <= chunkLen
  THEN /\ RewindCursor(at, chunkLen - ack.accepted)
       /\ free' = [free EXCEPT ![at] = ack.free]
       /\ pc' = "ready"
       /\ \/ todo = "prefill" /\ ack.accepted # 0 /\ UNCHANGED <<todo, at, due>>
          \/ todo = "prefill" /\ ack.accepted = 0 /\ NextStream
          \/ todo = "probe" /\ todo' = "refill" /\ UNCHANGED <<at, due>>
          \/ todo = "refill" /\ NextStream
       /\ chunkLen' = 0
       /\ UNCHANGED starts
  ELSE pc' = "failed" /\ Forget

(* read_until_frame: an answer that is not awaited is skipped.  The device   *)
(* has no other answers to these frames; one that does not come ends the run.*)
ReadAnswer ==
  /\ pc \in {"hello", "await"}
  /\ TakeAnswer
  /\ LET a == Head(answers)
     IN \/ pc = "hello" /\ a.op = "HelloResp" /\ Attach
        \/ pc = "await" /\ a.op = "FeedAck" /\ Account(a)
        \/ pc = "hello" /\ a.op = "FeedAck" /\ UNCHANGED streamerVars
        \/ pc = "await" /\ a.op = "HelloResp" /\ UNCHANGED streamerVars

-------------------------------------------------------------------------------
(* Answers that arrive while nobody has the port open may be thrown away. *)
Discard ==
  /\ pc \in {"closed", "failed"}
  /\ TakeAnswer
  /\ UNCHANGED streamerVars

(* A run whose port went away does not get it back. *)
Link ==
  /\ \/ LinkDown
     \/ pc \in {"closed", "failed"} /\ LinkUp
  /\ UNCHANGED streamerVars

Device == (Handle \/ DeviceRuns) /\ UNCHANGED streamerVars

Run ==
  \/ Prefill \/ Probe \/ Refill \/ SkipStream \/ ReadAnswer
  \/ \E isDue \in BOOLEAN : BeginPass(isDue)

Next == Start \/ Run \/ End \/ Discard \/ Link \/ Device

Spec == Init /\ [][Next]_vars

(* The program runs, the device answers, and every now and then 50 ms have   *)
(* passed since the last probe.                                              *)
FairSpec ==
  /\ Spec
  /\ WF_vars(Run)
  /\ WF_vars(Handle /\ UNCHANGED streamerVars)
  /\ SF_vars(BeginPass(TRUE))

-------------------------------------------------------------------------------
Feeding == link /\ pc \in {"ready", "await"}

(* How many bytes of the feed under way the stream has not taken. *)
Unaccepted(s) ==
  IF pc # "await" \/ s # at THEN 0
  ELSE IF requests # <<>> THEN chunkLen
  ELSE chunkLen - answers[Len(answers)].accepted

PayloadOf(f) == IF f.op = Feed THEN <<f.payload>> ELSE <<>>

FeedPayloads(q) == FlattenSeq([i \in DOMAIN q |-> PayloadOf(q[i])])

(* The sample each stream is to take next, and the feeds of earlier runs. *)
Position ==
  [s \in StreamId |->
     IF ~Feeding THEN 0
     ELSE LET size == Len(Samples[s])
          IN (cur[s] + size * Unaccepted(s) - Unaccepted(s)) % size]

Leftover ==
  FeedPayloads(IF Feeding /\ pc = "await" /\ requests # <<>>
               THEN SubSeq(requests, 1, Len(requests) - 1) ELSE requests)

(* However the device takes a chunk - wholly, in part, not at all - and      *)
(* wherever a run ends, the next byte a stream takes is the sample after the *)
(* one it took last: cursor, rewinding and acknowledgements never lose or    *)
(* repeat a sample within a run (main.rs 342-417).                           *)
PlaybackOf == INSTANCE Playback WITH
  active <- Feeding, position <- Position, leftover <- Leftover

PlaysBack == PlaybackOf!Spec

(* A run overfeeds no stream, although its idea of the free space is old     *)
(* when it feeds and wrong when it starts: a stream and its bytes in flight  *)
(* stay within a chunk per start of the program, and a byte put back, of the *)
(* prefill level (main.rs 150, 161-174, 211-226).  This is the room that     *)
(* RoomForRollback of I2cProperties needs.                                   *)
LimitKept ==
  \A s \in StreamId :
    Len(queue[s]) + InFlight(s) < PrefillLevel + ReadAhead + FeedChunk * starts

(* The checks of feed_chunk on the acknowledgement it gets never fail: it is *)
(* the answer to its own feed (main.rs 364-380).                             *)
NeverFails == pc # "failed"

(* A stream that is at its low mark or below is fed, unless the run ends or  *)
(* a byte is put back (main.rs 194-230); without probes the program would    *)
(* not notice that the device consumes bytes.                                *)
KeptFed ==
  \A s \in StreamId :
    (Feeding /\ todo # "prefill" /\ Len(queue[s]) <= LowMark) ~>
      \/ ~Feeding
      \/ Len(queue[s]) > LowMark
      \/ pc = "await" /\ at = s /\ chunkLen > 0

===============================================================================
