--------------------------------- MODULE MCI2c ---------------------------------
(***************************************************************************)
(* I2cService for TLC: four registers.  0 is read-write, 1 plays back two  *)
(* embedded samples, 2 is a host stream, 3 is not declared.  In MCI2c.cfg  *)
(* the pointer stands still, so that all bytes of a chunk come from one    *)
(* register; elsewhere it is incremented.                                  *)
(***************************************************************************)
EXTENDS I2cProperties, TLC

CONSTANTS s1, s2

MCByte == 0 .. 3
MCDefault == (0 :> 3) @@ (1 :> 0) @@ (2 :> 0)
MCEmbeddedData == 1 :> <<2, 3>>
MCStreamAddr == s1 :> 2
MCMessages == {<<>>, <<0>>, <<2>>, <<0, 1>>, <<3, 1, 2>>}
MCFewMessages == {<<1>>, <<2>>, <<0, 1>>}
MCOneMessage == {<<2>>}
MCOneFeed == {<<1>>}
MCFeedData == {<<>>, <<1>>, <<1, 2>>}

===============================================================================
