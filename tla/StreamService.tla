------------------------------ MODULE StreamService -----------------------------
(***************************************************************************)
(* The abstract specification of the stream channel for any host: frames   *)
(* are carried out once each, in order, and answered in order, until the   *)
(* link goes down or framing is lost.                                      *)
(***************************************************************************)
EXTENDS StreamChannel

CONSTANT Frames     \* the frames the host sends, as [op, payload] records

VARIABLE broken     \* whether framing is lost: anything may happen to the streams

vars == <<deviceVars, channelVars, broken>>

Init == ChannelInit /\ broken = FALSE

Break ==
  /\ link
  /\ ~broken
  /\ broken' = TRUE
  /\ requests' = <<>>
  /\ answers' = <<>>
  /\ UNCHANGED <<deviceVars, link>>

StayBroken ==
  /\ broken
  /\ UNCHANGED <<channelVars, broken>>

(* With framing lost the device may have anything in hand. *)
LinkDownBroken ==
  /\ broken
  /\ broken' = FALSE
  /\ link' = FALSE
  /\ answers' = <<>>
  /\ UNCHANGED deviceVars

Next ==
  \/ ~broken /\ UNCHANGED broken
       /\ \/ \E f \in Frames : Request(f)
          \/ TakeAnswer \/ Handle \/ LinkUp \/ LinkDown \/ DeviceRuns
  \/ Break \/ StayBroken \/ LinkDownBroken

Spec == Init /\ [][Next]_vars

===============================================================================
