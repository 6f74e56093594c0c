--------------------------------- MODULE MCUsb ---------------------------------
(***************************************************************************)
(* UsbStream for TLC: one host stream with id 0 at register 3; packets of  *)
(* up to 4 bytes, 8 bytes to collect frames in.                            *)
(***************************************************************************)
EXTENDS UsbProperties, TLC

MCByte == 0 .. 3
MCEmbeddedData == <<>>
MCStreamAddr == 0 :> 3

Frame(op, payload) == [op |-> op, payload |-> payload]
FeedFrame(payload) == Frame(Feed, payload)

(* Frames of every opcode, with and without fault, of up to 5 bytes; one      *)
(* behind which a packet need not fit, and one that never fits.              *)
MCFrames ==
  {Frame(HelloReq, <<>>), FeedFrame(<<0>>), FeedFrame(<<0, 3>>), Frame(ResetStreams, <<>>),
   Frame(0, <<>>), FeedFrame(<<>>), FeedFrame(<<1>>), Frame(ResetStreams, <<3>>),
   FeedFrame(<<0, 3, 3>>), FeedFrame(<<0, 3, 3, 3, 3, 3>>)}

===============================================================================
