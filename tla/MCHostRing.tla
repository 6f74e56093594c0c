------------------------------ MODULE MCHostRing ------------------------------
(* HostRing for TLC: two byte values, four slots, pushes of up to 5 bytes. *)
EXTENDS HostRing, SequencesExt

MCFeedData == BoundedSeq({0, 1}, 5)

===============================================================================
