------------------------------- MODULE MCStreamer -------------------------------
(***************************************************************************)
(* Two streams, fed with two samples and with one over and over; queues of *)
(* five bytes, prefilled to three and refilled at two or below in chunks   *)
(* of two.                                                                 *)
(***************************************************************************)
EXTENDS CsvStreamer, TLC

MCByte == 0 .. 3
MCEmbeddedData == <<>>
MCStreamAddr == (0 :> 3) @@ (1 :> 2)
MCSamples == (0 :> <<1, 2>>) @@ (1 :> <<1>>)

===============================================================================
