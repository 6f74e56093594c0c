----------------------------- MODULE StreamContract -----------------------------
(***************************************************************************)
(* What the I2C master and the USB host may rely on: a device that reads a *)
(* register at the moment the master takes its byte.  There are no chunks, *)
(* nothing is read ahead and nothing is taken back.                        *)
(*                                                                         *)
(* A byte the host fed stays pending until the master takes it, pending    *)
(* bytes are taken in the order they were fed, and a read that ends leaves *)
(* everything the master has not taken.  Only a bus error may consume      *)
(* bytes the master has not seen, and at most ReadChunk of them.           *)
(***************************************************************************)
EXTENDS Integers, Sequences

CONSTANTS
  Byte, NoByte, RegCount, AutoIncrement, EmbeddedData, StreamAddr, FeedData,
  ReadChunk

EmbeddedAddr == DOMAIN EmbeddedData
StreamId == DOMAIN StreamAddr

VARIABLES
  pending,    \* the bytes fed to each host stream and not taken yet
  latest,     \* the byte of each host stream the master took last
  position,   \* the next sample of each embedded stream
  pointer,    \* the register of the next byte
  reading,    \* whether a read is going on
  wire        \* the bytes the master took in this read

vars == <<pending, latest, position, pointer, reading, wire>>
streams == <<pending, latest, position>>

Init ==
  /\ pending = [s \in StreamId |-> <<>>]
  /\ latest = [s \in StreamId |-> NoByte]
  /\ position = [a \in EmbeddedAddr |-> 0]
  /\ pointer = 0
  /\ reading = FALSE
  /\ wire = <<>>

(* The host feeds; the device keeps what it has room for. *)
Accept(s, data) ==
  /\ \E n \in 0 .. Len(data) :
       pending' = [pending EXCEPT ![s] = @ \o SubSeq(data, 1, n)]
  /\ UNCHANGED <<latest, position, pointer, reading, wire>>

(* A write or a general call: the master moves the pointer. *)
Address ==
  /\ ~reading
  /\ pointer' \in Byte
  /\ UNCHANGED <<streams, reading, wire>>

StartRead ==
  /\ ~reading
  /\ reading' = TRUE
  /\ pointer' \in Byte
  /\ UNCHANGED <<streams, wire>>

Take(b) ==
  /\ reading
  /\ wire' = Append(wire, b)
  /\ pointer' = IF AutoIncrement THEN (pointer + 1) % RegCount ELSE pointer
  /\ UNCHANGED reading

TakeSample ==
  /\ pointer \in EmbeddedAddr
  /\ Take(EmbeddedData[pointer][position[pointer] + 1])
  /\ position' = [position EXCEPT ![pointer] = (@ + 1) % Len(EmbeddedData[pointer])]
  /\ UNCHANGED <<pending, latest>>

TakePending(s) ==
  /\ StreamAddr[s] = pointer
  /\ pending[s] # <<>>
  /\ Take(Head(pending[s]))
  /\ pending' = [pending EXCEPT ![s] = Tail(@)]
  /\ latest' = [latest EXCEPT ![s] = Head(pending[s])]
  /\ UNCHANGED position

(* An underrun, decided when the byte was requested: a feed may have come since. *)
TakeAgain(s) ==
  /\ StreamAddr[s] = pointer
  /\ \E b \in IF latest[s] # NoByte THEN {latest[s]} ELSE Byte : Take(b)
  /\ UNCHANGED streams

TakePlain ==
  /\ pointer \notin EmbeddedAddr
  /\ \A s \in StreamId : StreamAddr[s] # pointer
  /\ \E b \in Byte : Take(b)
  /\ UNCHANGED streams

EndRead ==
  /\ reading
  /\ reading' = FALSE
  /\ wire' = <<>>
  /\ UNCHANGED <<streams, pointer>>

(* A bus error: bytes read ahead are gone. *)
Abort ==
  /\ reading
  /\ reading' = FALSE
  /\ wire' = <<>>
  /\ pointer' \in Byte
  /\ \A s \in StreamId : \E n \in 0 .. ReadChunk :
       /\ n <= Len(pending[s])
       /\ pending'[s] = SubSeq(pending[s], n + 1, Len(pending[s]))
       /\ latest'[s] = IF n = 0 THEN latest[s] ELSE pending[s][n]
  /\ \A a \in EmbeddedAddr : \E n \in 0 .. ReadChunk :
       position'[a] = (position[a] + n) % Len(EmbeddedData[a])

Next ==
  \/ \E s \in StreamId, data \in FeedData : Accept(s, data)
  \/ Address
  \/ StartRead
  \/ TakeSample
  \/ \E s \in StreamId : TakePending(s) \/ TakeAgain(s)
  \/ TakePlain
  \/ EndRead
  \/ Abort

Spec == Init /\ [][Next]_vars

===============================================================================
