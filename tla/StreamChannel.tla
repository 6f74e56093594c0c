------------------------------ MODULE StreamChannel -----------------------------
(***************************************************************************)
(* The stream channel without its bytes: frames to the device in the order *)
(* they were sent, answers to the host in the order they were given.       *)
(* UsbStream shows that the stream task provides it; CsvStreamer uses it.  *)
(***************************************************************************)
EXTENDS StreamDevice

VARIABLES
  link,        \* whether the host has the port connected
  requests,    \* the frames the device has not carried out, oldest first
  answers      \* the answers the host has not read, oldest first

channelVars == <<link, requests, answers>>

ChannelInit ==
  /\ DeviceInit
  /\ link = FALSE
  /\ requests = <<>>
  /\ answers = <<>>

Request(f) ==
  /\ link
  /\ requests' = Append(requests, f)
  /\ UNCHANGED <<deviceVars, link, answers>>

TakeAnswer ==
  /\ answers # <<>>
  /\ answers' = Tail(answers)
  /\ UNCHANGED <<deviceVars, link, requests>>

(* A frame the device had in hand when the link went down is carried out,    *)
(* and its answer is lost.                                                   *)
Handle ==
  /\ requests # <<>>
  /\ LET f == Head(requests)
     IN /\ answers' = IF link THEN Append(answers, Answer(f.op, f.payload)) ELSE <<>>
        /\ CarryOut(f.op, f.payload)
  /\ requests' = Tail(requests)
  /\ UNCHANGED <<link, ahead>>

LinkUp ==
  /\ ~link
  /\ requests = <<>>
  /\ link' = TRUE
  /\ UNCHANGED <<deviceVars, requests, answers>>

LinkDown ==
  /\ link
  /\ link' = FALSE
  /\ answers' = <<>>
  /\ \E n \in 0 .. 1 : n <= Len(requests) /\ requests' = SubSeq(requests, 1, n)
  /\ UNCHANGED deviceVars

DeviceRuns == I2cTask /\ UNCHANGED channelVars

===============================================================================
