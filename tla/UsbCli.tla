--------------------------------- MODULE UsbCli ---------------------------------
(***************************************************************************)
(* The command line of firmware/src/usb_cli.rs with the log it shows: it   *)
(* collects a line from USB packets, carries the command out and writes    *)
(* its answer line by line, awaiting the host at each; meanwhile the I2C   *)
(* task logs transactions and takes up reset requests.                     *)
(*                                                                         *)
(* A command word is one symbol, since nothing depends on its spelling.    *)
(* EndOfLine stands for \n and \r, Blank for the white space that trim     *)
(* removes.  An answer is modelled by its number of lines, and a line of a *)
(* dump by its event.                                                      *)
(***************************************************************************)
EXTENDS LogRing

CONSTANTS
  Lines,         \* the lines the user types, as sequences of symbols
  CmdBytes,      \* the length of cmd_buf
  MaxPacket,     \* USB_MAX_PACKET_SIZE
  Window,        \* how many lines the user types ahead
  LineEnd,       \* what the terminal ends a line with: \n, \r or both
  TextLines      \* the commands that only write text, and how many lines of it

EndOfLine == "eol"
Blank == " "

ASSUME CliAssumption ==
  /\ CmdBytes \in Nat \ {0}
  /\ MaxPacket \in Nat \ {0}
  /\ Window \in Nat
  /\ Lines \subseteq Seq(STRING) \ {<<>>}
  /\ \A line \in Lines : \A i \in 1 .. Len(line) : line[i] # EndOfLine
  /\ LineEnd \in Seq({EndOfLine}) \ {<<>>}
  /\ TextLines \in [{"help", "stream_status"} -> Nat \ {0}]

VARIABLES
  pc,        \* connect, receive, parse or write
  cmd,       \* the first cmd_len bytes of cmd_buf
  packet,    \* the bytes of the packet not yet looked at
  output,    \* the lines the running command has still to write
  link,      \* whether the host has the port connected
  inbound,   \* bytes the user typed and the task has not read
  typed,     \* the user's lines, typed on this connection and not carried out
  shown,     \* the events of the last dump that reached the host
  stale,     \* whether the task goes on with bytes of an earlier connection
  reset      \* RESET_SIGNAL

taskVars == <<pc, cmd, packet, output>>
hostVars == <<link, inbound, typed>>
vars == <<ringVars, taskVars, hostVars, shown, stale, reset>>

Init ==
  /\ RingInit
  /\ pc = "connect"
  /\ cmd = <<>>
  /\ packet = <<>>
  /\ output = <<>>
  /\ link = FALSE
  /\ inbound = <<>>
  /\ typed = <<>>
  /\ shown = <<>>
  /\ stale = FALSE
  /\ reset = FALSE

(* A line of an answer that is not an event of a dump. *)
Text == [seq |-> 0, event |-> NoEvent]

Write(lines) == pc' = "write" /\ output' = lines
WriteText(n) == Write([i \in 1 .. n |-> Text])

-------------------------------------------------------------------------------
(* task: greeting, packets and bytes *)
Connect ==
  /\ pc = "connect"
  /\ link
  /\ WriteText(1)
  /\ cmd' = <<>>
  /\ packet' = <<>>
  /\ stale' = FALSE
  /\ UNCHANGED <<ringVars, hostVars, shown, reset>>

ConnectionLost ==
  /\ pc = "receive"
  /\ ~link
  /\ pc' = "connect"
  /\ UNCHANGED <<ringVars, cmd, packet, output, hostVars, shown, stale, reset>>

ReadPacket(n) ==
  /\ pc = "receive"
  /\ link
  /\ n <= Len(inbound)
  /\ packet' = SubSeq(inbound, 1, n)
  /\ inbound' = SubSeq(inbound, n + 1, Len(inbound))
  /\ pc' = "parse"
  /\ UNCHANGED <<ringVars, cmd, output, link, typed, shown, stale, reset>>

PacketDone ==
  /\ pc = "parse"
  /\ packet = <<>>
  /\ pc' = "receive"
  /\ UNCHANGED <<ringVars, cmd, packet, output, hostVars, shown, stale, reset>>

(* Mutant of CollectByte: when the buffer is full it starts again. *)
M_CollectByte(b) == cmd' = IF Len(cmd) < CmdBytes THEN Append(cmd, b) ELSE <<b>>

(* Bytes that do not fit are dropped. *)
CollectByte(b) == cmd' = IF Len(cmd) < CmdBytes THEN Append(cmd, b) ELSE cmd

ParseByte ==
  /\ pc = "parse"
  /\ packet # <<>>
  /\ \/ Head(packet) # EndOfLine /\ CollectByte(Head(packet))
     \/ Head(packet) = EndOfLine /\ cmd = <<>> /\ UNCHANGED cmd
  /\ packet' = Tail(packet)
  /\ UNCHANGED <<ringVars, pc, output, hostVars, shown, stale, reset>>

-------------------------------------------------------------------------------
(* handle_cli_command *)
Word(line) ==
  LET isWord(b) == b # Blank
      first == CHOOSE i \in 1 .. Len(line) : isWord(line[i]) /\ \A j \in 1 .. i - 1 : ~isWord(line[j])
      final == CHOOSE i \in first .. Len(line) :
                 isWord(line[i]) /\ \A j \in i + 1 .. Len(line) : ~isWord(line[j])
  IN IF \A i \in 1 .. Len(line) : ~isWord(line[i]) THEN <<>> ELSE SubSeq(line, first, final)

Dump ==
  /\ IF count = 0 THEN WriteText(1)
     ELSE Write(<<Text>> \o Snapshot(Capacity) \o <<Text>>)
  /\ shown' = <<>>
  /\ UNCHANGED <<ringVars, reset>>

Clear == ClearRing /\ WriteText(1) /\ UNCHANGED <<shown, reset>>

(* A request made while one is pending is one with it. *)
RequestReset ==
  reset' = TRUE /\ WriteText(1) /\ UNCHANGED <<ringVars, shown>>

WriteAbout(word) ==
  /\ WriteText(IF word \in {<<w>> : w \in DOMAIN TextLines} THEN TextLines[word[1]] ELSE 1)
  /\ UNCHANGED <<ringVars, shown, reset>>

Command(word) ==
  \/ word = <<"dump">> /\ Dump
  \/ word = <<"clear">> /\ Clear
  \/ word = <<"reset_i2c">> /\ RequestReset
  \/ word \notin {<<"dump">>, <<"clear">>, <<"reset_i2c">>} /\ WriteAbout(word)

(* Mutant of HandleLine: the rest of the packet is dropped. *)
M_HandleLine ==
  /\ pc = "parse"
  /\ packet # <<>>
  /\ Head(packet) = EndOfLine
  /\ cmd # <<>>
  /\ Command(Word(cmd))
  /\ packet' = <<>>
  /\ typed' = IF typed = <<>> THEN typed ELSE Tail(typed)
  /\ UNCHANGED <<cmd, link, inbound, stale>>

HandleLine ==
  /\ pc = "parse"
  /\ packet # <<>>
  /\ Head(packet) = EndOfLine
  /\ cmd # <<>>
  /\ Command(Word(cmd))
  /\ packet' = Tail(packet)
  /\ typed' = IF typed = <<>> THEN typed ELSE Tail(typed)
  /\ UNCHANGED <<cmd, link, inbound, stale>>

(* Mutant of NextLine: a dump is taken from the ring as it is by then. *)
M_NextLine ==
  IF Head(output).event = NoEvent \/ count = 0 THEN Head(output)
  ELSE LastEntries(count)[IF Len(output) <= count THEN count + 2 - Len(output) ELSE 1]

NextLine == Head(output)

(* One line is written; errors are ignored and the rest is tried. *)
WriteLine ==
  /\ pc = "write"
  /\ output # <<>>
  /\ output' = Tail(output)
  /\ shown' = IF link /\ NextLine.event # NoEvent THEN Append(shown, NextLine) ELSE shown
  /\ UNCHANGED <<ringVars, pc, cmd, packet, hostVars, stale, reset>>

Written ==
  /\ pc = "write"
  /\ output = <<>>
  /\ pc' = "parse"
  /\ cmd' = <<>>
  /\ UNCHANGED <<ringVars, packet, output, hostVars, shown, stale, reset>>

-------------------------------------------------------------------------------
(* The link and the user.  A pending read fails when the link goes down.  A *)
(* task that is writing may not notice.                                     *)
LinkUp ==
  /\ ~link
  /\ pc # "receive"
  /\ link' = TRUE
  /\ UNCHANGED <<ringVars, taskVars, inbound, typed, shown, stale, reset>>

LinkDown ==
  /\ link
  /\ pc # "parse"
  /\ link' = FALSE
  /\ inbound' = <<>>
  /\ typed' = <<>>
  /\ shown' = <<>>
  /\ stale' = (stale \/ (pc = "write" /\ packet # <<>>))
  /\ UNCHANGED <<ringVars, taskVars, reset>>

Type(line) ==
  /\ link
  /\ Len(typed) < Window
  /\ typed' = Append(typed, line)
  /\ inbound' = inbound \o line \o LineEnd
  /\ UNCHANGED <<ringVars, taskVars, link, shown, stale, reset>>

(* The I2C task runs while this one awaits. *)
LogEvent(e) ==
  /\ pc # "parse"
  /\ Push(e)
  /\ UNCHANGED <<taskVars, hostVars, shown, stale, reset>>

TakeReset(e) ==
  /\ pc # "parse"
  /\ reset
  /\ reset' = FALSE
  /\ Push(e)
  /\ UNCHANGED <<taskVars, hostVars, shown, stale>>

-------------------------------------------------------------------------------
Task ==
  \/ Connect \/ ConnectionLost \/ PacketDone \/ ParseByte
  \/ HandleLine \/ WriteLine \/ Written
  \/ \E n \in 1 .. MaxPacket : ReadPacket(n)

Next ==
  \/ Task
  \/ LinkUp \/ LinkDown
  \/ \E line \in Lines : Type(line)
  \/ \E e \in Event : LogEvent(e) \/ TakeReset(e)

Spec == Init /\ [][Next]_vars

(* The executor runs the task when it is ready, and the host reads what is   *)
(* written.                                                                  *)
FairSpec == Spec /\ WF_vars(Task)

-------------------------------------------------------------------------------
(* The line buffer and the log ring are never indexed outside. *)
TypeOK ==
  /\ RingTypeOK
  /\ pc \in {"connect", "receive", "parse", "write"}
  /\ Len(cmd) <= CmdBytes
  /\ Len(packet) <= MaxPacket
  /\ output \in Seq(Entry)
  /\ shown \in Seq(Entry)

(* The ring is the log of EventLog: after any number of events, clears and   *)
(* wraps it holds the newest events in the order they were logged.           *)
Log == INSTANCE EventLog WITH log <- LastEntries(count)

LogSpec == Log!Spec

(* A dump has no gaps and no repeats: what reaches the host is numbered one  *)
(* after the other, although events are logged while the dump is written     *)
(* and the array holds older ones, also from before the last clear           *)
(* (usb_cli.rs 85-101, log.rs 65-80, 112-125).                               *)
DumpIsConsecutive ==
  \A i \in 1 .. Len(shown) - 1 : shown[i + 1].seq = (shown[i].seq + 1) % SeqLimit

Cut(line) == IF Len(line) <= CmdBytes THEN line ELSE SubSeq(line, 1, CmdBytes)

(* Whatever packets cut them and whatever is running when they come, lines   *)
(* are carried out in the order they were typed, each as it was typed up to  *)
(* the length of the buffer (usb_cli.rs 35-57); unless the link went down    *)
(* while a command was writing, which the task does not notice (47, 94-99).  *)
HandledAsTyped ==
  [][(HandleLine /\ ~stale) => (typed # <<>> /\ cmd = Cut(Head(typed)))]_vars

(* A reset that is typed is requested, also behind a long dump, unless the   *)
(* link goes down first.                                                     *)
ResetRequested ==
  (typed # <<>> /\ Word(Cut(Head(typed))) = <<"reset_i2c">>) ~> (reset \/ ~link \/ stale)

===============================================================================
