---------------------------------- MODULE MCCli ---------------------------------
(***************************************************************************)
(* A buffer of two words: every kind of command, white space before it and *)
(* a line that is a command once it is cut.                                *)
(***************************************************************************)
EXTENDS UsbCli

MCLines == {<<"dump">>, <<Blank, "clear">>, <<"reset_i2c", Blank, "x">>, <<"help">>}
MCLineEnd == <<EndOfLine, EndOfLine>>
MCTextLines == [help |-> 2, stream_status |-> 2]

===============================================================================
