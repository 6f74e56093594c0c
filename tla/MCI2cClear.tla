------------------------------- MODULE MCI2cClear -------------------------------
(***************************************************************************)
(* I2cService with a host that sends ResetStreams, and a history variable: *)
(* the streams that nobody has fed since they were last reset.             *)
(***************************************************************************)
EXTENDS MCI2c

VARIABLE unfed

HistoryInit == Init /\ unfed = StreamId

HistoryNext ==
  \/ /\ HostReset
     /\ unfed' = StreamId
  \/ \E s \in StreamId, data \in FeedData :
       /\ HostFeed(s, data)
       /\ unfed' = unfed \ {s}
  \/ /\ HandleReset \/ Command \/ Fill \/ MasterTakes \/ NeedMoreBytes
          \/ EndOfRead \/ Rollback \/ RequestReset
     /\ UNCHANGED unfed

HistorySpec == HistoryInit /\ [][HistoryNext]_<<vars, unfed>>

(* reset_all clears all buffers (streams.rs 363): between reads, a stream    *)
(* nobody has fed since the reset has no byte queued and no last value.      *)
ResetEmptiesStreams ==
  pc = "listen" => \A s \in unfed : queue[s] = <<>> /\ last[s] = NoByte

===============================================================================
