----------------------------- MODULE UsbCliProofs -----------------------------
(***************************************************************************)
(* The transaction log and its dump, for every capacity, every modulus of  *)
(* the sequence number and every set of lines: the ring implements the log *)
(* of EventLog, no index leaves an array, a dump that reaches the host has *)
(* no gap, and lines are carried out as they were typed.                   *)
(***************************************************************************)
EXTENDS UsbCli, DataLemmas

(* The slot k places behind slot x. *)
At(x, k) == (x + k) % Capacity

LEMMA AtInSlot ==
  ASSUME NEW x \in Slot, NEW k \in Int
  PROVE  At(x, k) \in Slot
BY LogAssumption, DivMod DEF Slot, At

(* The n entries before slot x of an array b, as LastEntries lists them. *)
LEMMA LogWindow ==
  ASSUME NEW b \in [Slot -> Entry], NEW x \in Slot, NEW n \in 0 .. Capacity, NEW w,
         w = [i \in 1 .. n |-> b[(((x + Capacity - n) % Capacity) + i - 1) % Capacity]]
  PROVE  /\ w \in Seq(Entry)
         /\ Len(w) = n
         /\ \A i \in 1 .. n : w[i] = b[At(x, (Capacity - n) + (i - 1))]
<1> USE LogAssumption
<1>1. ASSUME NEW i \in 1 .. n
      PROVE  /\ (((x + Capacity - n) % Capacity) + i - 1) % Capacity
                  = At(x, (Capacity - n) + (i - 1))
             /\ At(x, (Capacity - n) + (i - 1)) \in Slot
  <2> DEFINE a == x + Capacity - n
             m == i - 1
  <2>1. a \in Int /\ m \in Int /\ Capacity \in Nat \ {0} /\ (Capacity - n) + m \in Int
    BY DEF Slot
  <2>2. a % Capacity \in Int
    BY <2>1, DivMod
  <2>3. x + ((Capacity - n) + m) = a + m /\ (a % Capacity) + i - 1 = (a % Capacity) + m
    BY <2>2 DEF Slot
  <2>4. ((a % Capacity) + m) % Capacity = (a + m) % Capacity
    <3> HIDE DEF a, m
    <3> QED
      BY <2>1, ModPlus
  <2>5. At(x, (Capacity - n) + m) \in Slot
    BY <2>1, AtInSlot
  <2> HIDE DEF a
  <2>6. ((a % Capacity) + i - 1) % Capacity = At(x, (Capacity - n) + m)
    BY <2>3, <2>4 DEF At
  <2> QED
    BY <2>5, <2>6 DEF a
<1>2. \A i \in 1 .. n : w[i] = b[At(x, (Capacity - n) + (i - 1))]
  BY <1>1
<1>3. w \in [1 .. n -> Entry]
  BY <1>1
<1>4. w \in Seq(Entry)
  BY <1>3, SeqDef
<1>5. Len(w) = n
  BY <1>3, <1>4, LenProperties
<1> QED
  BY <1>2, <1>4, <1>5

(* The log: what LastEntries(count) is now and in the next state. *)
log == LastEntries(count)

LEMMA LogNow ==
  ASSUME RingTypeOK
  PROVE  /\ log \in Seq(Entry)
         /\ Len(log) = count
         /\ \A i \in 1 .. count : log[i] = entries[At(next, (Capacity - count) + (i - 1))]
BY LogWindow DEF RingTypeOK, log, LastEntries

LEMMA LogNext ==
  ASSUME RingTypeOK'
  PROVE  /\ log' \in Seq(Entry)
         /\ Len(log') = count'
         /\ \A i \in 1 .. count' :
              log'[i] = entries'[At(next', (Capacity - count') + (i - 1))]
BY LogWindow DEF RingTypeOK, log, LastEntries

-------------------------------------------------------------------------------
LEMMA PushTypeOK ==
  ASSUME RingTypeOK, NEW e \in Event, Push(e)
  PROVE  RingTypeOK'
<1> USE LogAssumption DEF RingTypeOK
<1>1. next' \in Slot
  <2>1. next + 1 \in Int
    BY DEF Slot
  <2> QED
    BY <2>1, DivMod DEF Push, Slot
<1>2. seq' \in 0 .. SeqLimit - 1
  <2>1. seq + 1 \in Int /\ SeqLimit \in Nat \ {0}
    OBVIOUS
  <2> QED
    BY <2>1, DivMod DEF Push
<1>3. entries' \in [Slot -> Entry]
  BY <1>2 DEF Push, Entry
<1>4. count' \in 0 .. Capacity
  BY DEF Push
<1> QED
  BY <1>1, <1>2, <1>3, <1>4

LEMMA ClearTypeOK ==
  ASSUME RingTypeOK, ClearRing
  PROVE  RingTypeOK'
BY LogAssumption DEF RingTypeOK, ClearRing, Slot

(* What keeping the newest of one event too many drops. *)
LEMMA NewestOfLonger ==
  ASSUME NEW q \in Seq(Entry), NEW c \in 0 .. Capacity, Len(q) = c + 1
  PROVE  LET d == IF c < Capacity THEN 0 ELSE 1
         IN /\ Log!Newest(q, Capacity) \in Seq(Entry)
            /\ Len(Log!Newest(q, Capacity)) = (c + 1) - d
            /\ \A i \in 1 .. (c + 1) - d : Log!Newest(q, Capacity)[i] = q[i + d]
<1> USE LogAssumption
<1>1. CASE c < Capacity
  BY <1>1 DEF Log!Newest
<1>2. CASE c = Capacity
  <2>1. Log!Newest(q, Capacity) = SubSeq(q, 2, c + 1)
    BY <1>2 DEF Log!Newest
  <2>2. \A i \in 2 .. c + 1 : q[i] \in Entry
    BY ElementOfSeq
  <2>3. /\ SubSeq(q, 2, c + 1) \in Seq(Entry)
        /\ Len(SubSeq(q, 2, c + 1)) = IF 2 <= c + 1 THEN (c + 1) - 2 + 1 ELSE 0
        /\ \A i \in 1 .. (c + 1) - 2 + 1 : SubSeq(q, 2, c + 1)[i] = q[2 + i - 1]
    BY <2>2, SubSeqProperties
  <2> QED
    BY <1>2, <2>1, <2>3
<1> QED
  BY <1>1, <1>2

(* A push appends to the log and, once the log is full, drops its oldest   *)
(* event: the slot it overwrites is that event's.                          *)
LEMMA PushAppends ==
  ASSUME RingTypeOK, NEW e \in Event, Push(e)
  PROVE  log' = Log!Newest(Append(log, [seq |-> seq', event |-> e]), Capacity)
<1> USE LogAssumption
<1> DEFINE new == [seq |-> seq', event |-> e]
           longer == Append(log, new)
           kept == Log!Newest(longer, Capacity)
<1>1. RingTypeOK'
  BY PushTypeOK
<1>2. /\ entries \in [Slot -> Entry] /\ next \in Slot /\ count \in 0 .. Capacity
      /\ next \in 0 .. Capacity - 1 /\ Capacity \in Nat \ {0}
  BY DEF RingTypeOK, Slot
<1>3. /\ entries' = [entries EXCEPT ![next] = new]
      /\ next' = (next + 1) % Capacity
      /\ count' = IF count < Capacity THEN count + 1 ELSE count
      /\ new \in Entry
  BY <1>1 DEF Push, RingTypeOK, Entry
<1> HIDE DEF new
<1>4. /\ longer \in Seq(Entry) /\ Len(longer) = count + 1
      /\ \A i \in 1 .. count : longer[i] = log[i]
      /\ longer[count + 1] = new
  <2> HIDE DEF log
  <2> QED
    BY <1>3, LogNow, AppendProperties
<1> DEFINE d == IF count < Capacity THEN 0 ELSE 1
<1>5. /\ kept \in Seq(Entry) /\ Len(kept) = count'
      /\ \A i \in 1 .. count' : kept[i] = longer[i + d]
  <2> HIDE DEF longer
  <2>1. count' = (count + 1) - d
    BY <1>2, <1>3
  <2> QED
    BY <1>2, <1>4, <2>1, NewestOfLonger
(* The slot of the i-th entry after the push is that of entry i + d before.  *)
<1>6. ASSUME NEW i \in 1 .. count'
      PROVE  LET k == (Capacity - count) + (i + d - 1)
             IN /\ At(next', (Capacity - count') + (i - 1)) = At(next, k)
                /\ k \in 0 .. Capacity
                /\ k = Capacity <=> i + d = count + 1
  <2> DEFINE a == next + 1
             m == (Capacity - count') + (i - 1)
             k == (Capacity - count) + (i + d - 1)
  <2>1. a \in Int /\ m \in Int /\ a + m = next + k
    BY <1>2, <1>3
  <2>2. ((a % Capacity) + m) % Capacity = (a + m) % Capacity
    <3> HIDE DEF a, m
    <3> QED
      BY <1>2, <2>1, ModPlus
  <2>3. At(next', m) = At(next, k)
    <3> HIDE DEF m, k
    <3> QED
      BY <1>3, <2>1, <2>2 DEF At
  <2>4. k \in 0 .. Capacity /\ (k = Capacity <=> i + d = count + 1)
    BY <1>2, <1>3
  <2> QED
    BY <2>3, <2>4
(* Only one lap on is the slot itself reached again.                         *)
<1>7. ASSUME NEW k \in 0 .. Capacity
      PROVE  At(next, k) \in Slot /\ (At(next, k) = next <=> k \in {0, Capacity})
  <2> DEFINE a == next + k
  <2>1. a \in Int /\ (a \in 0 .. Capacity - 1 \/ a \in Capacity .. Capacity + Capacity - 1)
    BY <1>2
  <2>2. \/ a \in 0 .. Capacity - 1 /\ a % Capacity = a
        \/ a \in Capacity .. Capacity + Capacity - 1 /\ a % Capacity = a - Capacity
    <3> HIDE DEF a
    <3> QED
      BY <1>2, <2>1, Wrap
  <2> QED
    BY <1>2, <2>2 DEF At, Slot
<1>8. ASSUME NEW i \in 1 .. count'
      PROVE  log'[i] = longer[i + d]
  <2> DEFINE k == (Capacity - count) + (i + d - 1)
  <2>1. log'[i] = entries'[At(next, k)] /\ k \in 0 .. Capacity
    BY <1>1, <1>6, LogNext
  <2>2. CASE i + d = count + 1
    <3>1. At(next, k) = next
      BY <1>6, <1>7, <2>1, <2>2
    <3> HIDE DEF longer, k
    <3> QED
      BY <1>2, <1>3, <1>4, <2>1, <2>2, <3>1
  <2>3. CASE i + d # count + 1
    <3>1. i + d \in 1 .. count /\ k # Capacity /\ k # 0
      BY <1>2, <1>3, <2>3
    <3>2. At(next, k) # next /\ At(next, k) \in Slot
      <4> HIDE DEF k
      <4> QED
        BY <1>7, <2>1, <3>1
    <3>3. entries'[At(next, k)] = entries[At(next, k)]
      BY <1>2, <1>3, <3>2
    <3>4. log[i + d] = entries[At(next, (Capacity - count) + ((i + d) - 1))]
      BY <3>1, LogNow
    <3> HIDE DEF longer
    <3> QED
      BY <1>4, <2>1, <3>1, <3>3, <3>4
  <2> QED
    BY <2>2, <2>3
<1> HIDE DEF longer, d
<1>9. \A i \in 1 .. count' : log'[i] = kept[i]
  BY <1>5, <1>8
<1>10. log' = kept
  <2> HIDE DEF kept, log
  <2> QED
    BY <1>1, <1>5, <1>9, LogNext, SeqEqual
<1> QED
  BY <1>10 DEF longer, new

LEMMA ClearEmpties ==
  ASSUME RingTypeOK, ClearRing
  PROVE  log' = <<>>
BY ClearTypeOK, LogNext, EmptySeq DEF ClearRing

-------------------------------------------------------------------------------
(* What lines and packets are made of. *)
Symbol == STRING \cup {EndOfLine}

SymbolsOK == cmd \in Seq(Symbol) /\ packet \in Seq(Symbol) /\ inbound \in Seq(Symbol)

(* The events of the log are numbered one after the other up to seq. *)
LogNumbered ==
  /\ \A i \in 1 .. count : log[i].event \in Event
  /\ \A i \in 1 .. count - 1 : log[i + 1].seq = (log[i].seq + 1) % SeqLimit
  /\ count > 0 => log[count].seq = seq

IsEvent(line) == line.event # NoEvent

(* The lines still to write go on where the lines shown end, and among them  *)
(* events follow a text only at the beginning of a dump.                     *)
DumpJoined ==
  /\ DumpIsConsecutive
  /\ (~link => shown = <<>>)
  /\ \A i \in 1 .. Len(output) - 1 : IsEvent(output[i + 1]) =>
       IF IsEvent(output[i]) THEN output[i + 1].seq = (output[i].seq + 1) % SeqLimit
                             ELSE i = 1 /\ shown = <<>>
  /\ output # <<>> /\ shown # <<>> /\ IsEvent(output[1]) =>
       output[1].seq = (shown[Len(shown)].seq + 1) % SeqLimit

CliInv == TypeOK /\ SymbolsOK /\ LogNumbered /\ DumpJoined

(* What a step does to the ring. *)
LEMMA RingStep ==
  ASSUME [Next]_vars
  PROVE  (\E e \in Event : Push(e)) \/ ClearRing \/ UNCHANGED ringVars
<1> USE DEF ringVars
<1>1. CASE Task
  <2>1. CASE HandleLine
    BY <2>1 DEF HandleLine, Command, Dump, Clear, RequestReset, WriteAbout
  <2>2. CASE Connect \/ ConnectionLost \/ PacketDone \/ ParseByte \/ WriteLine \/ Written
    BY <2>2 DEF Connect, ConnectionLost, PacketDone, ParseByte, WriteLine, Written
  <2>3. CASE \E n \in 1 .. MaxPacket : ReadPacket(n)
    BY <2>3 DEF ReadPacket
  <2> QED
    BY <1>1, <2>1, <2>2, <2>3 DEF Task
<1>2. CASE LinkUp \/ LinkDown \/ \E line \in Lines : Type(line)
  BY <1>2 DEF LinkUp, LinkDown, Type
<1>3. CASE \E e \in Event : LogEvent(e) \/ TakeReset(e)
  BY <1>3 DEF LogEvent, TakeReset
<1>4. CASE UNCHANGED vars
  BY <1>4 DEF vars
<1> QED
  BY <1>1, <1>2, <1>3, <1>4 DEF Next

LEMMA RingTypeStep ==
  ASSUME RingTypeOK, [Next]_vars
  PROVE  RingTypeOK'
<1>1. CASE UNCHANGED ringVars
  BY <1>1 DEF RingTypeOK, ringVars
<1> QED
  BY <1>1, RingStep, PushTypeOK, ClearTypeOK

(* Events are numbered one after the other, also across a wrap of the ring,  *)
(* a wrap of the number and a clear.                                         *)
LEMMA NumberedStep ==
  ASSUME RingTypeOK, LogNumbered, [Next]_vars
  PROVE  LogNumbered'
<1> USE LogAssumption
<1>1. ASSUME NEW e \in Event, Push(e)
      PROVE  LogNumbered'
  <2> DEFINE new == [seq |-> seq', event |-> e]
             longer == Append(log, new)
             kept == Log!Newest(longer, Capacity)
  <2>1. RingTypeOK'
    BY <1>1, PushTypeOK
  <2>2. new \in Entry /\ seq' = (seq + 1) % SeqLimit /\ new.seq = seq' /\ new.event = e
    BY <1>1, <2>1 DEF Push, RingTypeOK, Entry
  <2>3. count \in 0 .. Capacity /\ Capacity \in Nat \ {0}
    BY DEF RingTypeOK
  <2> HIDE DEF new
  <2>4. /\ longer \in Seq(Entry) /\ Len(longer) = count + 1
        /\ \A i \in 1 .. count : longer[i] = log[i]
        /\ longer[count + 1] = new
    <3> HIDE DEF log
    <3> QED
      BY <2>2, LogNow, AppendProperties
  <2> HIDE DEF longer
  <2>5. /\ \A i \in 1 .. count + 1 : longer[i].event \in Event
        /\ \A i \in 1 .. count : longer[i + 1].seq = (longer[i].seq + 1) % SeqLimit
        /\ longer[count + 1].seq = seq'
    <3>1. \A i \in 1 .. count + 1 : i \in 1 .. count \/ i = count + 1
      BY <2>3
    <3>2. \A i \in 1 .. count + 1 : longer[i].event \in Event
      BY <2>2, <2>4, <3>1 DEF LogNumbered
    <3>3. ASSUME NEW i \in 1 .. count
          PROVE  longer[i + 1].seq = (longer[i].seq + 1) % SeqLimit
      <4>1. CASE i = count
        BY <2>2, <2>3, <2>4, <4>1 DEF LogNumbered
      <4>2. CASE i # count
        <5>1. i \in 1 .. count - 1 /\ i + 1 \in 1 .. count
          BY <2>3, <4>2
        <5> QED
          BY <2>4, <5>1 DEF LogNumbered
      <4> QED
        BY <4>1, <4>2
    <3> QED
      BY <2>2, <2>4, <3>2, <3>3
  <2>6. log' = kept
    BY <1>1, PushAppends DEF longer, new
  <2>7. count' \in 1 .. count + 1 /\ count' <= Capacity
    BY <1>1, <2>3 DEF Push
  <2>8. count' = (count + 1) - (IF count < Capacity THEN 0 ELSE 1)
    BY <1>1, <2>3 DEF Push
  <2>9. PICK d \in 0 .. 1 : /\ count' = (count + 1) - d
                           /\ \A i \in 1 .. (count + 1) - d : kept[i] = longer[i + d]
    <3> DEFINE n == IF count < Capacity THEN 0 ELSE 1
    <3>1. \A i \in 1 .. (count + 1) - n : kept[i] = longer[i + n]
      BY <2>3, <2>4, NewestOfLonger
    <3>2. n \in 0 .. 1 /\ count' = (count + 1) - n
      BY <2>8
    <3> HIDE DEF n, kept
    <3> QED
      BY <3>1, <3>2
  <2> HIDE DEF kept
  <2>10. \A i \in 1 .. count' : log'[i].event \in Event
    BY <2>3, <2>5, <2>6, <2>7, <2>9
  <2>11. ASSUME NEW i \in 1 .. count' - 1
         PROVE  log'[i + 1].seq = (log'[i].seq + 1) % SeqLimit
    <3>1. i \in 1 .. count' /\ i + 1 \in 1 .. count' /\ i + d \in 1 .. count
      BY <2>3, <2>7, <2>9
    <3>2. (i + 1) + d = (i + d) + 1
      BY <3>1
    <3> QED
      BY <2>5, <2>6, <2>9, <3>1, <3>2
  <2>12. log'[count'].seq = seq'
    BY <2>3, <2>5, <2>6, <2>7, <2>9
  <2> QED
    BY <2>10, <2>11, <2>12 DEF LogNumbered
<1>2. CASE ClearRing
  BY <1>2 DEF ClearRing, LogNumbered
<1>3. CASE UNCHANGED ringVars
  <2>1. log' = log /\ count' = count /\ seq' = seq
    BY <1>3 DEF ringVars, log, LastEntries
  <2> HIDE DEF log
  <2> QED
    BY <2>1 DEF LogNumbered
<1> QED
  BY <1>1, <1>2, <1>3, RingStep

-------------------------------------------------------------------------------
(* An answer that is only text. *)
LEMMA TextIsEntry == Text \in Entry /\ ~IsEvent(Text)
BY LogAssumption DEF Text, Entry, IsEvent

LEMMA TextAnswer ==
  ASSUME NEW n \in Nat, WriteText(n)
  PROVE  /\ pc' = "write"
         /\ output' \in Seq(Entry) /\ Len(output') = n
         /\ \A i \in 1 .. n : ~IsEvent(output'[i])
<1>1. pc' = "write" /\ output' = [i \in 1 .. n |-> Text]
  BY DEF WriteText, Write
<1>2. output' \in [1 .. n -> Entry]
  BY <1>1, TextIsEntry
<1>3. output' \in Seq(Entry)
  BY <1>2, SeqDef
<1>4. Len(output') = n
  BY <1>2, <1>3, LenProperties
<1> QED
  BY <1>1, <1>3, <1>4, TextIsEntry

(* What a command writes: text, or the log between two lines of text. *)
IsDump(lines) ==
  /\ Len(lines) = count + 2
  /\ \A i \in 1 .. count : lines[i + 1] = log[i]
  /\ ~IsEvent(lines[1]) /\ ~IsEvent(lines[count + 2])

LEMMA CommandWrites ==
  ASSUME RingTypeOK, NEW word, Command(word)
  PROVE  /\ pc' = "write"
         /\ output' \in Seq(Entry)
         /\ \/ shown' = shown /\ \A i \in 1 .. Len(output') : ~IsEvent(output'[i])
            \/ shown' = <<>> /\ \A i \in 1 .. Len(output') : ~IsEvent(output'[i])
            \/ shown' = <<>> /\ IsDump(output')
<1>1. CASE Dump
  <2>1. CASE count = 0
    BY <1>1, <2>1, TextAnswer DEF Dump
  <2>2. CASE count # 0
    <3>1. count \in 1 .. Capacity /\ Capacity \in Nat
      BY <2>2, LogAssumption DEF RingTypeOK
    <3>2. Snapshot(Capacity) = log
      BY <3>1 DEF Snapshot, log
    <3>3. pc' = "write" /\ output' = (<<Text>> \o log) \o <<Text>> /\ shown' = <<>>
      BY <1>1, <2>2, <3>2 DEF Dump, Write
    <3>4. <<Text>> \in Seq(Entry) /\ Len(<<Text>>) = 1 /\ <<Text>>[1] = Text
      BY TextIsEntry
    <3> HIDE DEF log
    <3> DEFINE front == <<Text>> \o log
    <3>5. /\ front \in Seq(Entry)
          /\ Len(front) = Len(<<Text>>) + Len(log)
          /\ \A i \in 1 .. Len(<<Text>>) + Len(log) :
               front[i] = IF i <= Len(<<Text>>) THEN <<Text>>[i] ELSE log[i - Len(<<Text>>)]
      BY <3>4, LogNow, ConcatProperties
    <3>6. /\ Len(front) = count + 1
          /\ front[1] = Text
          /\ \A i \in 1 .. count : front[i + 1] = log[i]
      BY <3>1, <3>4, <3>5, LogNow
    <3> HIDE DEF front
    <3>7. /\ front \o <<Text>> \in Seq(Entry)
          /\ Len(front \o <<Text>>) = Len(front) + Len(<<Text>>)
          /\ \A i \in 1 .. Len(front) + Len(<<Text>>) :
               (front \o <<Text>>)[i] =
                 IF i <= Len(front) THEN front[i] ELSE <<Text>>[i - Len(front)]
      BY <3>4, <3>5, ConcatProperties
    <3>8. /\ Len(front \o <<Text>>) = count + 2
          /\ (front \o <<Text>>)[1] = Text
          /\ (front \o <<Text>>)[count + 2] = Text
          /\ \A i \in 1 .. count : (front \o <<Text>>)[i + 1] = log[i]
      BY <3>1, <3>4, <3>6, <3>7
    <3>9. output' = front \o <<Text>>
      BY <3>3 DEF front
    <3> QED
      BY <3>3, <3>7, <3>8, <3>9, TextIsEntry DEF IsDump
  <2> QED
    BY <2>1, <2>2
<1>2. CASE Clear \/ RequestReset
  BY <1>2, TextAnswer DEF Clear, RequestReset
<1>3. CASE WriteAbout(word)
  <2> DEFINE n == IF word \in {<<w>> : w \in DOMAIN TextLines} THEN TextLines[word[1]] ELSE 1
  <2>1. n \in Nat
    BY CliAssumption
  <2>2. WriteText(n) /\ shown' = shown
    BY <1>3 DEF WriteAbout
  <2> HIDE DEF n
  <2> QED
    BY <2>1, <2>2, TextAnswer
<1> QED
  BY <1>1, <1>2, <1>3 DEF Command

(* No buffer of the command line is indexed outside. *)
LEMMA TypeStep ==
  ASSUME TypeOK, SymbolsOK, [Next]_vars
  PROVE  TypeOK' /\ SymbolsOK'
<1> USE CliAssumption DEF TypeOK, SymbolsOK
<1>1. RingTypeOK'
  BY RingTypeStep
<1>2. CASE Connect
  BY <1>1, <1>2, TextAnswer DEF Connect, hostVars
<1>3. CASE ConnectionLost \/ PacketDone
  BY <1>1, <1>3 DEF ConnectionLost, PacketDone, hostVars
<1>4. ASSUME NEW n \in 1 .. MaxPacket, ReadPacket(n)
      PROVE  TypeOK' /\ SymbolsOK'
  <2>1. n \in 1 .. Len(inbound) /\ Len(inbound) \in Nat /\ n <= MaxPacket
    BY <1>4, LenProperties DEF ReadPacket
  <2>2. \A i \in 1 .. Len(inbound) : inbound[i] \in Symbol
    BY ElementOfSeq
  <2>3. packet' \in Seq(Symbol) /\ Len(packet') = n
    <3>1. \A i \in 1 .. n : inbound[i] \in Symbol
      BY <2>1, <2>2
    <3>2. /\ SubSeq(inbound, 1, n) \in Seq(Symbol)
          /\ Len(SubSeq(inbound, 1, n)) = IF 1 <= n THEN n - 1 + 1 ELSE 0
      BY <2>1, <3>1, SubSeqProperties
    <3> QED
      BY <1>4, <2>1, <3>2 DEF ReadPacket
  <2>4. inbound' \in Seq(Symbol)
    <3>1. \A i \in n + 1 .. Len(inbound) : inbound[i] \in Symbol
      BY <2>1, <2>2
    <3>2. n + 1 \in Int /\ Len(inbound) \in Int
      BY <2>1
    <3>3. SubSeq(inbound, n + 1, Len(inbound)) \in Seq(Symbol)
      BY <3>1, <3>2, SubSeqProperties
    <3> QED
      BY <1>4, <3>3 DEF ReadPacket
  <2> QED
    BY <1>1, <1>4, <2>1, <2>3, <2>4 DEF ReadPacket
<1>5. CASE ParseByte
  <2>1. Head(packet) \in Symbol /\ packet' \in Seq(Symbol) /\ Len(packet') = Len(packet) - 1
    BY <1>5, HeadTailProperties DEF ParseByte
  <2>2. Len(packet) \in Nat
    BY LenProperties
  <2>3. cmd' \in Seq(Symbol) /\ Len(cmd') <= CmdBytes
    <3>1. CASE cmd' = cmd
      BY <3>1
    <3>2. CASE cmd' = Append(cmd, Head(packet)) /\ Len(cmd) < CmdBytes
      <4>1. /\ Append(cmd, Head(packet)) \in Seq(Symbol)
            /\ Len(Append(cmd, Head(packet))) = Len(cmd) + 1
        BY <2>1, AppendProperties
      <4>2. Len(cmd) \in Nat
        BY LenProperties
      <4> QED
        BY <3>2, <4>1, <4>2
    <3> QED
      BY <1>5, <3>1, <3>2 DEF ParseByte, CollectByte
  <2> QED
    BY <1>1, <1>5, <2>1, <2>2, <2>3 DEF ParseByte, hostVars
<1>6. CASE HandleLine
  <2>1. packet' \in Seq(Symbol) /\ Len(packet') = Len(packet) - 1
    BY <1>6, HeadTailProperties DEF HandleLine
  <2>2. Len(packet) \in Nat
    BY LenProperties
  <2>3. pc' = "write" /\ output' \in Seq(Entry) /\ (shown' = shown \/ shown' = <<>>)
    BY <1>6, CommandWrites DEF HandleLine
  <2>4. UNCHANGED <<cmd, inbound>>
    BY <1>6 DEF HandleLine
  <2>5. shown' \in Seq(Entry)
    BY <2>3, EmptySeq
  <2> QED
    BY <1>1, <2>1, <2>2, <2>3, <2>4, <2>5
<1>7. CASE WriteLine
  <2>1. Head(output) \in Entry /\ output' \in Seq(Entry)
    BY <1>7, HeadTailProperties DEF WriteLine
  <2>2. shown' \in Seq(Entry)
    <3>1. Append(shown, Head(output)) \in Seq(Entry)
      BY <2>1, AppendProperties
    <3> QED
      BY <1>7, <3>1 DEF WriteLine, NextLine
  <2> QED
    BY <1>1, <1>7, <2>1, <2>2 DEF WriteLine, hostVars
<1>8. CASE Written
  <2>1. <<>> \in Seq(Symbol) /\ Len(<<>>) = 0
    BY EmptySeq
  <2> QED
    BY <1>1, <1>8, <2>1 DEF Written, hostVars
<1>9. CASE LinkUp \/ LinkDown
  <2>1. CASE LinkUp
    BY <1>1, <2>1 DEF LinkUp, taskVars
  <2>2. CASE LinkDown
    <3>1. shown' \in Seq(Entry) /\ inbound' \in Seq(Symbol)
      BY <2>2, EmptySeq DEF LinkDown
    <3> QED
      BY <1>1, <2>2, <3>1 DEF LinkDown, taskVars
  <2> QED
    BY <1>9, <2>1, <2>2
<1>10. ASSUME NEW line \in Lines, Type(line)
       PROVE  TypeOK' /\ SymbolsOK'
  <2>1. line \in Seq(Symbol) /\ LineEnd \in Seq(Symbol)
    <3>1. LineEnd \in Seq({EndOfLine}) /\ line \in Seq(STRING)
      OBVIOUS
    <3>2. {EndOfLine} \subseteq Symbol /\ STRING \subseteq Symbol
      BY DEF Symbol
    <3> QED
      BY <3>1, <3>2, SeqMonotonic
  <2>2. inbound \o line \in Seq(Symbol)
    BY <2>1, ConcatProperties
  <2>3. (inbound \o line) \o LineEnd \in Seq(Symbol)
    BY <2>1, <2>2, ConcatProperties
  <2> QED
    BY <1>1, <1>10, <2>3 DEF Type, taskVars
<1>11. ASSUME NEW e \in Event, LogEvent(e) \/ TakeReset(e)
       PROVE  TypeOK' /\ SymbolsOK'
  BY <1>1, <1>11 DEF LogEvent, TakeReset, taskVars, hostVars
<1>12. CASE UNCHANGED vars
  BY <1>1, <1>12 DEF vars, taskVars, hostVars
<1> QED
  BY <1>2, <1>3, <1>4, <1>5, <1>6, <1>7, <1>8, <1>9, <1>10, <1>11, <1>12 DEF Next, Task

(* The dump stays joined to what was shown of it. *)
LEMMA JoinedStep ==
  ASSUME CliInv, [Next]_vars
  PROVE  DumpJoined'
<1>1. /\ output \in Seq(Entry) /\ shown \in Seq(Entry)
      /\ Len(output) \in Nat /\ Len(shown) \in Nat
      /\ output' \in Seq(Entry) /\ shown' \in Seq(Entry)
      /\ Len(output') \in Nat /\ Len(shown') \in Nat
      /\ RingTypeOK
  <2>1. TypeOK'
    BY TypeStep DEF CliInv
  <2> QED
    BY <2>1, LenProperties DEF CliInv, TypeOK
<1>2. DumpJoined
  BY DEF CliInv
(* Steps that write nothing and show nothing, or forget what was shown. *)
<1>3. ASSUME output' = output, shown' = shown, link' = link \/ link' = TRUE
      PROVE  DumpJoined'
  BY <1>2, <1>3 DEF DumpJoined, DumpIsConsecutive, IsEvent
<1>4. ASSUME output' = output, shown' = <<>>
      PROVE  DumpJoined'
  <2>1. Len(<<>>) = 0
    BY EmptySeq
  <2> QED
    BY <1>2, <1>4, <2>1 DEF DumpJoined, DumpIsConsecutive, IsEvent
(* A new answer of text alone. *)
<1>5. ASSUME \A i \in 1 .. Len(output') : ~IsEvent(output'[i]),
             shown' = shown \/ shown' = <<>>, link' = link
      PROVE  DumpJoined'
  <2>1. DumpIsConsecutive' /\ (~link' => shown' = <<>>)
    BY <1>1, <1>2, <1>5, EmptySeq DEF DumpJoined, DumpIsConsecutive
  <2>2. \A i \in 1 .. Len(output') - 1 : ~IsEvent(output'[i + 1])
    BY <1>1, <1>5
  <2>3. output' # <<>> => ~IsEvent(output'[1])
    BY <1>1, <1>5, EmptySeq
  <2> QED
    BY <2>1, <2>2, <2>3 DEF DumpJoined, IsEvent
(* A new dump. *)
<1>6. ASSUME IsDump(output'), shown' = <<>>
      PROVE  DumpJoined'
  <2>1. count \in Nat /\ Len(output') = count + 2
    BY <1>1, <1>6 DEF IsDump, RingTypeOK
  <2>2. DumpIsConsecutive'
    BY <1>6, EmptySeq DEF DumpIsConsecutive
  <2>3. ASSUME NEW i \in 1 .. Len(output') - 1, IsEvent(output'[i + 1])
        PROVE  IF IsEvent(output'[i])
               THEN output'[i + 1].seq = (output'[i].seq + 1) % SeqLimit
               ELSE i = 1 /\ shown' = <<>>
    <3>1. i \in 1 .. count + 1 /\ i # count + 1
      BY <1>6, <2>1, <2>3 DEF IsDump
    <3>2. CASE i = 1
      BY <1>6, <3>2 DEF IsDump
    <3>3. CASE i # 1
      <4>1. i - 1 \in 1 .. count /\ i - 1 \in 1 .. count - 1 /\ i \in 1 .. count /\ (i - 1) + 1 = i
        BY <2>1, <3>1, <3>3
      <4>2. output'[i + 1] = log[i] /\ output'[i] = log[i - 1]
        <5>1. output'[(i - 1) + 1] = log[i - 1]
          BY <1>6, <4>1 DEF IsDump
        <5> QED
          BY <1>6, <4>1, <5>1 DEF IsDump
      <4>3. log[i - 1].event \in Event
        BY <4>1 DEF CliInv, LogNumbered
      <4>4. log[(i - 1) + 1].seq = (log[i - 1].seq + 1) % SeqLimit
        BY <4>1 DEF CliInv, LogNumbered
      <4> QED
        BY <4>1, <4>2, <4>3, <4>4, LogAssumption DEF IsEvent
    <3> QED
      BY <3>2, <3>3
  <2> QED
    BY <1>6, <2>2, <2>3 DEF DumpJoined, IsEvent
(* One line is written. *)
<1>7. CASE WriteLine
  <2>1. /\ output # <<>> /\ output' = Tail(output) /\ link' = link
        /\ shown' = IF link /\ IsEvent(output[1]) THEN Append(shown, output[1]) ELSE shown
    <3>1. output # <<>> => Head(output) = output[1]
      BY <1>1
    <3> QED
      BY <1>7, <3>1 DEF WriteLine, NextLine, IsEvent, hostVars
  <2>2. /\ Len(output) >= 1 /\ Len(output') = Len(output) - 1
        /\ \A i \in 1 .. Len(output') : output'[i] = output[i + 1]
    BY <1>1, <2>1, HeadTailProperties, EmptySeq
  <2>3. ~link' => shown' = <<>>
    BY <1>2, <2>1 DEF DumpJoined
  <2>4. ASSUME NEW i \in 1 .. Len(output') - 1, IsEvent(output'[i + 1])
        PROVE  IsEvent(output'[i]) /\ output'[i + 1].seq = (output'[i].seq + 1) % SeqLimit
    <3>1. /\ i + 1 \in 1 .. Len(output) - 1 /\ i + 1 # 1
          /\ i \in 1 .. Len(output') /\ i + 1 \in 1 .. Len(output')
      BY <1>1, <2>2
    <3>2. output'[i] = output[i + 1] /\ output'[i + 1] = output[(i + 1) + 1]
      BY <2>2, <3>1
    <3> QED
      BY <1>2, <2>4, <3>1, <3>2 DEF DumpJoined
  <2>5. CASE link /\ IsEvent(output[1])
    <3>1. /\ shown' = Append(shown, output[1]) /\ output[1] \in Entry
      BY <1>1, <2>1, <2>2, <2>5, ElementOfSeq
    <3>2. /\ Len(shown') = Len(shown) + 1 /\ shown'[Len(shown) + 1] = output[1]
          /\ \A i \in 1 .. Len(shown) : shown'[i] = shown[i]
      BY <1>1, <3>1, AppendProperties
    <3>3. ASSUME NEW i \in 1 .. Len(shown') - 1
          PROVE  shown'[i + 1].seq = (shown'[i].seq + 1) % SeqLimit
      <4>1. CASE i = Len(shown)
        <5>1. shown # <<>> /\ i \in 1 .. Len(shown)
          BY <1>1, <3>2, <4>1, EmptySeq
        <5> QED
          BY <1>2, <2>1, <2>5, <3>2, <4>1, <5>1 DEF DumpJoined
      <4>2. CASE i # Len(shown)
        <5>1. i \in 1 .. Len(shown) - 1 /\ i \in 1 .. Len(shown) /\ i + 1 \in 1 .. Len(shown)
          BY <1>1, <3>2, <4>2
        <5> QED
          BY <1>2, <3>2, <5>1 DEF DumpJoined, DumpIsConsecutive
      <4> QED
        BY <4>1, <4>2
    <3>4. output' # <<>> /\ IsEvent(output'[1]) =>
            output'[1].seq = (shown'[Len(shown')].seq + 1) % SeqLimit
      <4> SUFFICES ASSUME output' # <<>>, IsEvent(output'[1])
                   PROVE  output'[1].seq = (shown'[Len(shown')].seq + 1) % SeqLimit
        OBVIOUS
      <4>1. 1 \in 1 .. Len(output') /\ 1 \in 1 .. Len(output) - 1
        BY <1>1, <2>2, EmptySeq
      <4>2. output'[1] = output[1 + 1]
        BY <2>2, <4>1
      <4> QED
        BY <1>2, <2>5, <3>2, <4>1, <4>2 DEF DumpJoined
    <3> QED
      BY <2>3, <2>4, <3>3, <3>4 DEF DumpJoined, DumpIsConsecutive, IsEvent
  <2>6. CASE ~(link /\ IsEvent(output[1]))
    <3>1. shown' = shown
      BY <2>1, <2>6
    <3>2. output' # <<>> /\ IsEvent(output'[1]) => shown = <<>>
      <4> SUFFICES ASSUME output' # <<>>, IsEvent(output'[1])
                   PROVE  shown = <<>>
        OBVIOUS
      <4>1. 1 \in 1 .. Len(output') /\ 1 \in 1 .. Len(output) - 1
        BY <1>1, <2>2, EmptySeq
      <4>2. output'[1] = output[1 + 1]
        BY <2>2, <4>1
      <4>3. IsEvent(output[1]) => ~link
        BY <2>6
      <4> QED
        BY <1>2, <4>1, <4>2, <4>3 DEF DumpJoined
    <3>3. DumpIsConsecutive'
      BY <1>2, <3>1 DEF DumpJoined, DumpIsConsecutive
    <3> QED
      BY <2>3, <2>4, <3>1, <3>2, <3>3 DEF DumpJoined, IsEvent
  <2> QED
    BY <2>5, <2>6
<1>8. CASE Connect
  <2>1. output' \in Seq(Entry) /\ \A i \in 1 .. Len(output') : ~IsEvent(output'[i])
    BY <1>8, TextAnswer DEF Connect
  <2>2. shown' = shown /\ link' = link
    BY <1>8 DEF Connect, hostVars
  <2> QED
    BY <1>5, <2>1, <2>2
<1>9. CASE HandleLine
  <2>1. link' = link
    BY <1>9 DEF HandleLine
  <2>2. \/ shown' = shown /\ \A i \in 1 .. Len(output') : ~IsEvent(output'[i])
        \/ shown' = <<>> /\ \A i \in 1 .. Len(output') : ~IsEvent(output'[i])
        \/ shown' = <<>> /\ IsDump(output')
    BY <1>1, <1>9, CommandWrites DEF HandleLine
  <2> QED
    BY <1>5, <1>6, <2>1, <2>2
<1>10. CASE LinkDown
  BY <1>4, <1>10 DEF LinkDown, taskVars
<1>11. CASE \/ ConnectionLost \/ PacketDone \/ ParseByte \/ Written \/ LinkUp
            \/ (\E n \in 1 .. MaxPacket : ReadPacket(n))
            \/ (\E line \in Lines : Type(line))
            \/ (\E e \in Event : LogEvent(e) \/ TakeReset(e))
            \/ UNCHANGED vars
  <2>1. output' = output /\ shown' = shown /\ (link' = link \/ link' = TRUE)
    BY <1>11 DEF ConnectionLost, PacketDone, ParseByte, Written, LinkUp, ReadPacket, Type,
                 LogEvent, TakeReset, vars, taskVars, hostVars
  <2> QED
    BY <1>3, <2>1
<1> QED
  BY <1>7, <1>8, <1>9, <1>10, <1>11 DEF Next, Task

-------------------------------------------------------------------------------
LEMMA CliInvariant == Spec => []CliInv
<1> USE LogAssumption, CliAssumption
<1>1. Init => CliInv
  <2> SUFFICES ASSUME Init PROVE CliInv
    OBVIOUS
  <2>1. RingTypeOK
    BY DEF Init, RingInit, RingTypeOK, Entry, Slot
  <2>2. <<>> \in Seq(Symbol) /\ <<>> \in Seq(Entry) /\ Len(<<>>) = 0
    BY EmptySeq
  <2>3. TypeOK /\ SymbolsOK
    BY <2>1, <2>2 DEF Init, TypeOK, SymbolsOK
  <2>4. LogNumbered
    BY DEF Init, RingInit, LogNumbered
  <2>5. DumpJoined
    BY <2>2 DEF Init, DumpJoined, DumpIsConsecutive
  <2> QED
    BY <2>3, <2>4, <2>5 DEF CliInv
<1>2. CliInv /\ [Next]_vars => CliInv'
  BY TypeStep, NumberedStep, JoinedStep DEF CliInv, TypeOK
<1> QED
  BY <1>1, <1>2, PTL DEF Spec

(* The line buffer, the packet and the log ring are never indexed outside.   *)
THEOREM CliTypeOK == Spec => []TypeOK
BY CliInvariant, PTL DEF CliInv

(* A dump that reaches the host has no gap and no repeat.                    *)
THEOREM DumpHasNoGap == Spec => []DumpIsConsecutive
<1>1. CliInv => DumpIsConsecutive
  BY DEF CliInv, DumpJoined
<1> QED
  BY <1>1, CliInvariant, PTL

(* The ring of log.rs implements the transaction log.                        *)
THEOREM RingRefinesLog == Spec => LogSpec
<1>1. Init => Log!Init
  <2> SUFFICES ASSUME Init PROVE log = <<>> /\ seq = 0
    BY DEF Log!Init, log
  <2>1. RingTypeOK
    BY LogAssumption DEF Init, RingInit, RingTypeOK, Entry, Slot
  <2> QED
    BY <2>1, LogNow, EmptySeq DEF Init, RingInit
<1>2. CliInv /\ [Next]_vars => [Log!Next]_(Log!vars)
  <2> SUFFICES ASSUME CliInv, [Next]_vars
               PROVE  [Log!Next]_(Log!vars)
    OBVIOUS
  <2>1. RingTypeOK
    BY DEF CliInv, TypeOK
  <2>2. ASSUME NEW e \in Event, Push(e)
        PROVE  Log!Push(e)
    BY <2>1, <2>2, PushAppends DEF Push, Log!Push, log
  <2>3. ASSUME ClearRing
        PROVE  Log!Clear
    BY <2>1, <2>3, ClearEmpties DEF ClearRing, Log!Clear, log
  <2>4. ASSUME UNCHANGED ringVars
        PROVE  UNCHANGED Log!vars
    BY <2>4 DEF ringVars, Log!vars, LastEntries
  <2> QED
    BY <2>2, <2>3, <2>4, RingStep DEF Log!Next
<1> QED
  BY <1>1, <1>2, CliInvariant, PTL DEF Spec, LogSpec, Log!Spec

-------------------------------------------------------------------------------
(* The bytes of the lines typed and not carried out.                         *)
Ended(t) == [i \in 1 .. Len(t) |-> t[i] \o LineEnd]
KeysOf(t) == FlattenSeq(Ended(t))
Unread == packet \o inbound

NoEnd(c) == \A i \in 1 .. Len(c) : c[i] # EndOfLine

(* The task is between two lines: the rest of a line end, and then the lines *)
(* typed, are still to be read.                                              *)
BetweenLines == \E e \in Seq({EndOfLine}) : e \o KeysOf(typed) = Unread

(* The task is in the middle of a line: it has read a part c of it.          *)
InsideLine ==
  \E c \in Seq(Symbol) \ {<<>>} : NoEnd(c) /\ cmd = Cut(c) /\ KeysOf(typed) = c \o Unread

AsTyped ==
  /\ typed \in Seq(Lines)
  /\ ~link => inbound = <<>> /\ typed = <<>>
  /\ pc \in {"connect", "receive"} => packet = <<>>
  /\ pc = "connect" => KeysOf(typed) = inbound
  /\ pc = "write" /\ ~stale => BetweenLines
  /\ (pc = "parse" \/ (pc = "receive" /\ link)) /\ ~stale =>
       (cmd = <<>> /\ BetweenLines) \/ InsideLine

-------------------------------------------------------------------------------
LEMMA LineType ==
  /\ LineEnd \in Seq(Symbol) /\ LineEnd # <<>> /\ LineEnd[1] = EndOfLine
  /\ Tail(LineEnd) \in Seq({EndOfLine})
  /\ \A line \in Lines : line \in Seq(Symbol) /\ line # <<>> /\ NoEnd(line)
<1>1. /\ LineEnd \in Seq({EndOfLine}) /\ LineEnd # <<>>
      /\ \A line \in Lines : line \in Seq(STRING) /\ line # <<>> /\ NoEnd(line)
  BY CliAssumption DEF NoEnd
<1>2. {EndOfLine} \subseteq Symbol /\ STRING \subseteq Symbol
  BY DEF Symbol
<1>3. LineEnd \in Seq(Symbol) /\ \A line \in Lines : line \in Seq(Symbol)
  BY <1>1, <1>2, SeqMonotonic
<1>4. Tail(LineEnd) \in Seq({EndOfLine})
  BY <1>1, HeadTailProperties
<1>5. LineEnd[1] \in {EndOfLine}
  <2>1. 1 \in 1 .. Len(LineEnd)
    BY <1>1, EmptySeq, LenProperties
  <2> QED
    BY <1>1, <2>1, ElementOfSeq
<1> QED
  BY <1>1, <1>3, <1>4, <1>5

LEMMA EndsAreSymbols == Seq({EndOfLine}) \subseteq Seq(Symbol)
<1>1. {EndOfLine} \subseteq Symbol
  BY DEF Symbol
<1> QED
  BY <1>1, SeqMonotonic

LEMMA SplitJoin ==
  ASSUME NEW q \in Seq(Symbol), NEW n \in 1 .. Len(q)
  PROVE  SubSeq(q, 1, n) \o SubSeq(q, n + 1, Len(q)) = q
<1> DEFINE a == SubSeq(q, 1, n)
           z == SubSeq(q, n + 1, Len(q))
<1>1. Len(q) \in Nat /\ \A i \in 1 .. Len(q) : q[i] \in Symbol
  BY LenProperties, ElementOfSeq
<1>2. a \in Seq(Symbol) /\ Len(a) = n /\ \A i \in 1 .. n : a[i] = q[i]
  <2>1. /\ a \in Seq(Symbol) /\ Len(a) = IF 1 <= n THEN n - 1 + 1 ELSE 0
        /\ \A i \in 1 .. n - 1 + 1 : a[i] = q[1 + i - 1]
    BY <1>1, SubSeqProperties
  <2> HIDE DEF a
  <2> QED
    BY <1>1, <2>1
<1>3. /\ z \in Seq(Symbol) /\ Len(z) = Len(q) - n
      /\ \A i \in 1 .. Len(q) - n : z[i] = q[n + i]
  <2>0. n + 1 \in Int /\ \A i \in n + 1 .. Len(q) : q[i] \in Symbol
    BY <1>1
  <2>1. /\ z \in Seq(Symbol) /\ Len(z) = IF n + 1 <= Len(q) THEN Len(q) - (n + 1) + 1 ELSE 0
        /\ \A i \in 1 .. Len(q) - (n + 1) + 1 : z[i] = q[n + 1 + i - 1]
    BY <1>1, <2>0, SubSeqProperties
  <2> HIDE DEF z
  <2> QED
    BY <1>1, <2>1
<1> HIDE DEF a, z
<1>4. /\ a \o z \in Seq(Symbol) /\ Len(a \o z) = Len(a) + Len(z)
      /\ \A i \in 1 .. Len(a) + Len(z) : (a \o z)[i] = IF i <= Len(a) THEN a[i] ELSE z[i - Len(a)]
  BY <1>2, <1>3, ConcatProperties
<1>5. Len(a \o z) = Len(q)
  BY <1>1, <1>2, <1>3, <1>4
<1>6. \A i \in 1 .. Len(a \o z) : (a \o z)[i] = q[i]
  <2> TAKE i \in 1 .. Len(a \o z)
  <2>1. (a \o z)[i] = IF i <= n THEN a[i] ELSE z[i - n]
    BY <1>1, <1>2, <1>3, <1>4
  <2>2. i \in 1 .. n \/ (~(i <= n) /\ i - n \in 1 .. Len(q) - n /\ n + (i - n) = i)
    BY <1>1, <1>5
  <2> QED
    BY <1>2, <1>3, <2>1, <2>2
<1> QED
  BY <1>4, <1>5, <1>6, SeqEqual DEF a, z

LEMMA Associate ==
  \A a, b, c \in Seq(Symbol) : a \o b \in Seq(Symbol) /\ (a \o b) \o c = a \o (b \o c)
BY ConcatProperties, ConcatAssociative

LEMMA EndedType ==
  ASSUME NEW t \in Seq(Lines)
  PROVE  Ended(t) \in Seq(Seq(Symbol)) /\ Len(Ended(t)) = Len(t)
<1>1. ASSUME NEW i \in 1 .. Len(t)
      PROVE  t[i] \o LineEnd \in Seq(Symbol)
  <2>1. t[i] \in Lines
    BY ElementOfSeq
  <2>2. t[i] \in Seq(Symbol) /\ LineEnd \in Seq(Symbol)
    BY <2>1, LineType
  <2> QED
    BY <2>2, ConcatProperties
<1>2. Ended(t) \in [1 .. Len(t) -> Seq(Symbol)] /\ Len(t) \in Nat
  BY <1>1, LenProperties DEF Ended
<1>3. Ended(t) \in Seq(Seq(Symbol))
  BY <1>2, SeqDef
<1> QED
  BY <1>2, <1>3, LenProperties

LEMMA KeysType ==
  ASSUME NEW t \in Seq(Lines)
  PROVE  KeysOf(t) \in Seq(Symbol)
BY EndedType, FlattenType DEF KeysOf

LEMMA OneSymbol ==
  ASSUME NEW x
  PROVE  <<x>> \in Seq({x})
OBVIOUS

LEMMA KeysEmpty == KeysOf(<<>>) = <<>>
<1>1. <<>> \in Seq(Lines) /\ Len(<<>>) = 0
  BY EmptySeq
<1>2. Ended(<<>>) = <<>>
  BY <1>1, EndedType, EmptySeq
<1> QED
  BY <1>2, FlattenEmpty DEF KeysOf

LEMMA KeysAppend ==
  ASSUME NEW t \in Seq(Lines), NEW line \in Lines
  PROVE  KeysOf(Append(t, line)) = KeysOf(t) \o (line \o LineEnd)
<1> DEFINE u == Append(t, line)
           x == line \o LineEnd
<1>1. /\ u \in Seq(Lines) /\ Len(u) = Len(t) + 1 /\ Len(t) \in Nat /\ u[Len(t) + 1] = line
      /\ \A i \in 1 .. Len(t) : u[i] = t[i]
  BY AppendProperties, LenProperties
<1>2. x \in Seq(Symbol)
  BY LineType, ConcatProperties
<1>3. /\ Ended(t) \in Seq(Seq(Symbol)) /\ Len(Ended(t)) = Len(t)
      /\ Ended(u) \in Seq(Seq(Symbol)) /\ Len(Ended(u)) = Len(u)
  BY <1>1, EndedType
<1>4. /\ \A i \in 1 .. Len(t) : Ended(t)[i] = t[i] \o LineEnd
      /\ \A i \in 1 .. Len(u) : Ended(u)[i] = u[i] \o LineEnd
  BY DEF Ended
<1> HIDE DEF u, x
<1> DEFINE v == Append(Ended(t), x)
<1>5. /\ v \in Seq(Seq(Symbol)) /\ Len(v) = Len(t) + 1 /\ v[Len(t) + 1] = x
      /\ \A i \in 1 .. Len(t) : v[i] = Ended(t)[i]
  BY <1>2, <1>3, AppendProperties
<1>6. \A i \in 1 .. Len(u) : Ended(u)[i] = v[i]
  <2> TAKE i \in 1 .. Len(u)
  <2>1. i \in 1 .. Len(t) \/ i = Len(t) + 1
    BY <1>1
  <2>2. Ended(u)[i] = u[i] \o LineEnd
    BY <1>4
  <2>3. CASE i \in 1 .. Len(t)
    BY <1>1, <1>4, <1>5, <2>2, <2>3
  <2>4. CASE i = Len(t) + 1
    BY <1>1, <1>5, <2>2, <2>4 DEF x
  <2> QED
    BY <2>1, <2>3, <2>4
<1>7. Ended(u) = v
  <2> HIDE DEF v
  <2> QED
    BY <1>1, <1>3, <1>5, <1>6, SeqEqual
<1>8. FlattenSeq(v) = FlattenSeq(Ended(t)) \o x
  BY <1>2, <1>3, FlattenAppend
<1> QED
  BY <1>7, <1>8 DEF KeysOf, u, x

LEMMA KeysFirst ==
  ASSUME NEW t \in Seq(Lines), t # <<>>
  PROVE  /\ Head(t) \in Lines /\ Tail(t) \in Seq(Lines)
         /\ KeysOf(t) = Head(t) \o (LineEnd \o KeysOf(Tail(t)))
<1>1. /\ Head(t) \in Lines /\ Tail(t) \in Seq(Lines) /\ Len(Tail(t)) = Len(t) - 1
      /\ Len(t) \in Nat \ {0} /\ Head(t) = t[1]
      /\ \A i \in 1 .. Len(Tail(t)) : Tail(t)[i] = t[i + 1]
  BY HeadTailProperties, EmptySeq, LenProperties
<1>2. /\ Ended(t) \in Seq(Seq(Symbol)) /\ Len(Ended(t)) = Len(t)
      /\ Ended(Tail(t)) \in Seq(Seq(Symbol)) /\ Len(Ended(Tail(t))) = Len(t) - 1
  BY <1>1, EndedType
<1>3. Ended(t) # <<>>
  BY <1>1, <1>2, EmptySeq
<1>4. /\ Tail(Ended(t)) \in Seq(Seq(Symbol)) /\ Len(Tail(Ended(t))) = Len(t) - 1
      /\ \A i \in 1 .. Len(t) - 1 : Tail(Ended(t))[i] = Ended(t)[i + 1]
      /\ Head(Ended(t)) = Ended(t)[1]
  BY <1>2, <1>3, HeadTailProperties
<1>5. /\ \A i \in 1 .. Len(t) : Ended(t)[i] = t[i] \o LineEnd
      /\ \A i \in 1 .. Len(Tail(t)) : Ended(Tail(t))[i] = Tail(t)[i] \o LineEnd
  BY DEF Ended
<1>6. \A i \in 1 .. Len(t) - 1 : Tail(Ended(t))[i] = Ended(Tail(t))[i]
  <2> TAKE i \in 1 .. Len(t) - 1
  <2>1. i + 1 \in 1 .. Len(t) /\ i \in 1 .. Len(Tail(t))
    BY <1>1
  <2>2. Tail(Ended(t))[i] = t[i + 1] \o LineEnd
    BY <1>4, <1>5, <2>1
  <2>3. Ended(Tail(t))[i] = t[i + 1] \o LineEnd
    BY <1>1, <1>5, <2>1
  <2> QED
    BY <2>2, <2>3
<1>7. Tail(Ended(t)) = Ended(Tail(t))
  BY <1>2, <1>4, <1>6, SeqEqual
<1>8. Head(Ended(t)) = Head(t) \o LineEnd
  BY <1>1, <1>4, <1>5
<1>9. KeysOf(t) = (Head(t) \o LineEnd) \o KeysOf(Tail(t))
  BY <1>2, <1>3, <1>7, <1>8, FlattenFirst DEF KeysOf
<1>10. Head(t) \in Seq(Symbol) /\ LineEnd \in Seq(Symbol) /\ KeysOf(Tail(t)) \in Seq(Symbol)
  BY <1>1, LineType, KeysType
<1>11. (Head(t) \o LineEnd) \o KeysOf(Tail(t)) = Head(t) \o (LineEnd \o KeysOf(Tail(t)))
  <2> QED
    BY <1>10, Associate, Zenon
<1> QED
  BY <1>1, <1>9, <1>11, Zenon

(* The bytes of lines do not start with the end of one.                      *)
LEMMA KeysStart ==
  ASSUME NEW t \in Seq(Lines), KeysOf(t) # <<>>
  PROVE  t # <<>> /\ KeysOf(t)[1] # EndOfLine
<1>1. t # <<>>
  BY KeysEmpty
<1> DEFINE h == Head(t)
           w == LineEnd \o KeysOf(Tail(t))
<1>2. h \in Lines /\ Tail(t) \in Seq(Lines) /\ KeysOf(t) = h \o w
  BY <1>1, KeysFirst
<1>3. h \in Seq(Symbol) /\ h # <<>> /\ NoEnd(h) /\ LineEnd \in Seq(Symbol)
      /\ KeysOf(Tail(t)) \in Seq(Symbol)
  BY <1>2, LineType, KeysType
<1>4. w \in Seq(Symbol)
  BY <1>3, ConcatProperties
<1> HIDE DEF h, w
<1>5. Len(h) \in Nat \ {0} /\ Len(w) \in Nat
  BY <1>3, <1>4, EmptySeq, LenProperties
<1>6. \A i \in 1 .. Len(h) + Len(w) : (h \o w)[i] = IF i <= Len(h) THEN h[i] ELSE w[i - Len(h)]
  BY <1>3, <1>4, ConcatProperties
<1>7. (h \o w)[1] = h[1] /\ h[1] # EndOfLine
  BY <1>3, <1>5, <1>6 DEF NoEnd
<1> QED
  BY <1>1, <1>2, <1>7

(* What two sequences start with up to the first end of a line is the same. *)
LEMMA SameStart ==
  ASSUME NEW a \in Seq(Symbol), NEW b \in Seq(Symbol), NEW u \in Seq(Symbol), NEW v \in Seq(Symbol),
         u # <<>>, v # <<>>, u[1] = EndOfLine, v[1] = EndOfLine, a \o u = b \o v,
         NoEnd(a), NoEnd(b)
  PROVE  a = b /\ u = v
<1> DEFINE e == EndOfLine
<1>0. (\A i \in 1 .. Len(a) : a[i] # e) /\ (\A i \in 1 .. Len(b) : b[i] # e) /\ u[1] = e /\ v[1] = e
  BY DEF NoEnd
<1> HIDE DEF e
<1>1. /\ Len(a) \in Nat /\ Len(b) \in Nat /\ Len(u) \in Nat \ {0} /\ Len(v) \in Nat \ {0}
  BY EmptySeq, LenProperties
<1> DEFINE w == a \o u
<1>2. /\ Len(w) = Len(a) + Len(u)
      /\ \A i \in 1 .. Len(a) + Len(u) : w[i] = IF i <= Len(a) THEN a[i] ELSE u[i - Len(a)]
  BY ConcatProperties
<1>3. /\ Len(w) = Len(b) + Len(v)
      /\ \A i \in 1 .. Len(b) + Len(v) : w[i] = IF i <= Len(b) THEN b[i] ELSE v[i - Len(b)]
  <2>1. w = b \o v
    OBVIOUS
  <2>2. /\ Len(b \o v) = Len(b) + Len(v)
        /\ \A i \in 1 .. Len(b) + Len(v) : (b \o v)[i] = IF i <= Len(b) THEN b[i] ELSE v[i - Len(b)]
    BY ConcatProperties
  <2> QED
    BY <2>1, <2>2, Zenon
<1> HIDE DEF w
<1>4. w[Len(a) + 1] = e /\ w[Len(b) + 1] = e
  <2>1. /\ Len(a) + 1 \in 1 .. Len(a) + Len(u) /\ ~(Len(a) + 1 <= Len(a)) /\ (Len(a) + 1) - Len(a) = 1
        /\ Len(b) + 1 \in 1 .. Len(b) + Len(v) /\ ~(Len(b) + 1 <= Len(b)) /\ (Len(b) + 1) - Len(b) = 1
    BY <1>1
  <2> QED
    BY <1>0, <1>2, <1>3, <2>1
<1>5. Len(a) = Len(b)
  <2>1. CASE Len(a) < Len(b)
    <3>1. Len(a) + 1 \in 1 .. Len(b) + Len(v) /\ Len(a) + 1 <= Len(b) /\ Len(a) + 1 \in 1 .. Len(b)
      BY <1>1, <2>1
    <3>2. w[Len(a) + 1] = b[Len(a) + 1]
      BY <1>3, <3>1
    <3> QED
      BY <1>0, <1>4, <3>1, <3>2
  <2>2. CASE Len(b) < Len(a)
    <3>1. Len(b) + 1 \in 1 .. Len(a) + Len(u) /\ Len(b) + 1 <= Len(a) /\ Len(b) + 1 \in 1 .. Len(a)
      BY <1>1, <2>2
    <3>2. w[Len(b) + 1] = a[Len(b) + 1]
      BY <1>2, <3>1
    <3> QED
      BY <1>0, <1>4, <3>1, <3>2
  <2> QED
    BY <1>1, <2>1, <2>2
<1>6. \A i \in 1 .. Len(a) : a[i] = b[i]
  <2> TAKE i \in 1 .. Len(a)
  <2>1. i \in 1 .. Len(a) + Len(u) /\ i <= Len(a) /\ i \in 1 .. Len(b) + Len(v) /\ i <= Len(b)
    BY <1>1, <1>5
  <2>2. w[i] = a[i] /\ w[i] = b[i]
    BY <1>2, <1>3, <2>1
  <2> QED
    BY <2>2
<1>7. a = b
  BY <1>5, <1>6, SeqEqual
<1>8. a \o u = a \o v
  BY <1>7
<1> QED
  BY <1>7, <1>8, ConcatSimplifications

LEMMA FirstRest ==
  ASSUME NEW B
  PROVE  \A s \in Seq(B) : s # <<>> =>
           /\ s[1] \in B /\ Head(s) = s[1] /\ Tail(s) \in Seq(B)
           /\ <<s[1]>> \in Seq(B) /\ s = <<s[1]>> \o Tail(s)
<1> SUFFICES ASSUME NEW s \in Seq(B), s # <<>>
             PROVE  /\ s[1] \in B /\ Head(s) = s[1] /\ Tail(s) \in Seq(B)
                    /\ <<s[1]>> \in Seq(B) /\ s = <<s[1]>> \o Tail(s)
  OBVIOUS
<1>1. /\ Head(s) \in B /\ Tail(s) \in Seq(B) /\ Len(Tail(s)) = Len(s) - 1
      /\ \A i \in 1 .. Len(Tail(s)) : Tail(s)[i] = s[i + 1]
      /\ Head(s) = s[1] /\ Len(s) \in Nat \ {0}
  BY HeadTailProperties, EmptySeq, LenProperties
<1>2. PICK one \in Seq(B) : one = <<s[1]>> /\ Len(one) = 1 /\ one[1] = s[1]
  <2>1. <<s[1]>> \in Seq(B) /\ Len(<<s[1]>>) = 1 /\ <<s[1]>>[1] = s[1]
    BY <1>1
  <2> QED
    BY <2>1
<1>3. /\ one \o Tail(s) \in Seq(B) /\ Len(one \o Tail(s)) = 1 + Len(Tail(s))
      /\ \A i \in 1 .. 1 + Len(Tail(s)) :
           (one \o Tail(s))[i] = IF i <= 1 THEN one[i] ELSE Tail(s)[i - 1]
  <2>1. Len(one) = 1
    BY <1>2
  <2>2. /\ one \o Tail(s) \in Seq(B) /\ Len(one \o Tail(s)) = Len(one) + Len(Tail(s))
        /\ \A i \in 1 .. Len(one) + Len(Tail(s)) :
             (one \o Tail(s))[i] = IF i <= Len(one) THEN one[i] ELSE Tail(s)[i - Len(one)]
    BY <1>1, ConcatProperties
  <2> QED
    BY <2>1, <2>2
<1>4. \A i \in 1 .. Len(s) : s[i] = (one \o Tail(s))[i]
  <2> TAKE i \in 1 .. Len(s)
  <2>1. i = 1 \/ (i - 1 \in 1 .. Len(Tail(s)) /\ (i - 1) + 1 = i /\ ~(i <= 1))
    BY <1>1
  <2>2. i \in 1 .. 1 + Len(Tail(s))
    BY <1>1
  <2>3. CASE i = 1
    BY <1>2, <1>3, <2>2, <2>3
  <2>4. CASE i - 1 \in 1 .. Len(Tail(s)) /\ (i - 1) + 1 = i /\ ~(i <= 1)
    <3>1. (one \o Tail(s))[i] = Tail(s)[i - 1]
      BY <1>3, <2>2, <2>4
    <3>2. Tail(s)[i - 1] = s[(i - 1) + 1]
      BY <1>1, <2>4
    <3> QED
      BY <2>4, <3>1, <3>2
  <2> QED
    BY <2>1, <2>3, <2>4
<1>5. s = one \o Tail(s)
  BY <1>1, <1>3, <1>4, SeqEqual
<1> QED
  BY <1>1, <1>2, <1>5

(* What the line buffer keeps of a line.                                     *)
LEMMA CutFacts ==
  ASSUME NEW c \in Seq(Symbol)
  PROVE  /\ Cut(c) \in Seq(Symbol)
         /\ Cut(c) = <<>> => c = <<>>
         /\ \A b \in Symbol :
              Cut(Append(c, b)) = IF Len(Cut(c)) < CmdBytes THEN Append(Cut(c), b) ELSE Cut(c)
<1> USE CliAssumption
<1>1. Len(c) \in Nat /\ \A i \in 1 .. Len(c) : c[i] \in Symbol
  BY LenProperties, ElementOfSeq
<1>2. CASE Len(c) < CmdBytes
  <2>1. Cut(c) = c
    BY <1>1, <1>2 DEF Cut
  <2>2. ASSUME NEW b \in Symbol
        PROVE  Cut(Append(c, b)) = Append(c, b)
    <3>1. Len(Append(c, b)) = Len(c) + 1
      BY AppendProperties
    <3> QED
      BY <1>1, <1>2, <3>1 DEF Cut
  <2> QED
    BY <1>2, <2>1, <2>2
<1>3. CASE ~(Len(c) < CmdBytes)
  <2> DEFINE k == SubSeq(c, 1, CmdBytes)
  <2>1. \A i \in 1 .. CmdBytes : i \in 1 .. Len(c) /\ c[i] \in Symbol
    BY <1>1, <1>3
  <2>2. /\ k \in Seq(Symbol)
        /\ Len(k) = IF 1 <= CmdBytes THEN CmdBytes - 1 + 1 ELSE 0
        /\ \A i \in 1 .. CmdBytes - 1 + 1 : k[i] = c[1 + i - 1]
    BY <2>1, SubSeqProperties
  <2> HIDE DEF k
  <2>3. Len(k) = CmdBytes /\ \A i \in 1 .. CmdBytes : k[i] = c[i]
    BY <2>2
  <2>4. Cut(c) = k
    <3>1. CASE Len(c) <= CmdBytes
      <4>1. Len(c) = Len(k) /\ \A i \in 1 .. Len(c) : c[i] = k[i]
        BY <1>1, <1>3, <2>3, <3>1
      <4>2. c = k
        BY <2>2, <4>1, SeqEqual
      <4> QED
        BY <3>1, <4>2 DEF Cut
    <3>2. CASE ~(Len(c) <= CmdBytes)
      BY <3>2 DEF Cut, k
    <3> QED
      BY <3>1, <3>2
  <2>5. ASSUME NEW b \in Symbol
        PROVE  Cut(Append(c, b)) = k
    <3> DEFINE d == Append(c, b)
    <3>1. /\ d \in Seq(Symbol) /\ Len(d) = Len(c) + 1
          /\ \A i \in 1 .. Len(c) : d[i] = c[i]
      BY AppendProperties
    <3> HIDE DEF d
    <3>2. \A i \in 1 .. CmdBytes : d[i] = c[i] /\ d[i] \in Symbol
      BY <2>1, <3>1
    <3> DEFINE j == SubSeq(d, 1, CmdBytes)
    <3>3. /\ j \in Seq(Symbol)
          /\ Len(j) = IF 1 <= CmdBytes THEN CmdBytes - 1 + 1 ELSE 0
          /\ \A i \in 1 .. CmdBytes - 1 + 1 : j[i] = d[1 + i - 1]
      BY <3>2, SubSeqProperties
    <3>4. Cut(d) = j
      BY <1>1, <1>3, <3>1 DEF Cut
    <3> HIDE DEF j
    <3>5. Len(j) = CmdBytes /\ \A i \in 1 .. CmdBytes : j[i] = d[i]
      BY <3>3
    <3>6. \A i \in 1 .. Len(j) : j[i] = k[i]
      BY <2>3, <3>2, <3>5
    <3>7. j = k
      BY <2>2, <2>3, <3>3, <3>5, <3>6, SeqEqual
    <3> QED
      BY <3>4, <3>7 DEF d
  <2>6. k # <<>> /\ ~(Len(k) < CmdBytes)
    BY <2>3, EmptySeq
  <2> QED
    BY <2>2, <2>4, <2>5, <2>6
<1> QED
  BY <1>2, <1>3

-------------------------------------------------------------------------------
(* A line end is read while no line is collected: the rest of the end of the *)
(* line before.                                                              *)
LEMMA EndSkipped ==
  ASSUME TypeOK, SymbolsOK, AsTyped, NEW R \in Seq(Symbol),
         BetweenLines, Unread = <<EndOfLine>> \o R
  PROVE  \E e \in Seq({EndOfLine}) : e \o KeysOf(typed) = R
<1>1. PICK e \in Seq({EndOfLine}) : e \o KeysOf(typed) = Unread
  BY DEF BetweenLines
<1>0. PICK eol \in Seq({EndOfLine}) : eol = <<EndOfLine>>
  BY OneSymbol
<1> DEFINE K == KeysOf(typed)
<1>2. K \in Seq(Symbol) /\ eol \in Seq(Symbol) /\ e \in Seq(Symbol)
  <2>1. K \in Seq(Symbol)
    BY KeysType DEF AsTyped
  <2> QED
    BY <2>1, EndsAreSymbols
<1>3. e # <<>>
  <2> SUFFICES ASSUME e = <<>> PROVE FALSE
    OBVIOUS
  <2>1. K = eol \o R
    BY <1>0, <1>1, <1>2, ConcatEmptySeq
  <2>2. Len(eol) = 1 /\ eol[1] = EndOfLine /\ Len(R) \in Nat
    BY <1>0, LenProperties
  <2>3. /\ Len(eol \o R) = Len(eol) + Len(R)
        /\ \A i \in 1 .. Len(eol) + Len(R) :
             (eol \o R)[i] = IF i <= Len(eol) THEN eol[i] ELSE R[i - Len(eol)]
    BY <1>2, ConcatProperties
  <2>4. Len(eol \o R) # 0 /\ (eol \o R)[1] = EndOfLine
    BY <2>2, <2>3
  <2>5. K # <<>> /\ K[1] = EndOfLine
    BY <2>1, <2>4, EmptySeq
  <2> QED
    BY <2>5, KeysStart DEF AsTyped
<1>4. PICK r \in Seq({EndOfLine}) : e = eol \o r
  <2>1. e[1] = EndOfLine /\ Tail(e) \in Seq({EndOfLine}) /\ e = <<e[1]>> \o Tail(e)
    BY <1>3, FirstRest
  <2> QED
    BY <1>0, <2>1
<1>5. r \in Seq(Symbol)
  BY EndsAreSymbols
<1> HIDE DEF K
<1>6. (eol \o r) \o K = eol \o (r \o K)
  <2>1. eol \in Seq(Symbol)
    BY <1>2
  <2>2. K \in Seq(Symbol)
    BY <1>2
  <2> QED
    BY <1>5, <2>1, <2>2, Associate, ZenonT(60)
<1>7. r \o K \in Seq(Symbol)
  BY <1>2, <1>5, Associate, Zenon
<1>8. e \o K = eol \o R
  BY <1>0, <1>1 DEF K
<1>9. eol \o (r \o K) = eol \o R
  BY <1>4, <1>6, <1>8, Zenon
<1>10. r \o K = R
  BY <1>2, <1>7, <1>9, ConcatSimplifications
<1> QED
  BY <1>10 DEF K

(* A symbol of a line is read.                                               *)
LEMMA SymbolCollected ==
  ASSUME TypeOK, SymbolsOK, AsTyped, NEW R \in Seq(Symbol), NEW b \in Symbol, b # EndOfLine,
         Unread = <<b>> \o R, (cmd = <<>> /\ BetweenLines) \/ InsideLine
  PROVE  \E c \in Seq(Symbol) \ {<<>>} :
           /\ NoEnd(c) /\ KeysOf(typed) = c \o R
           /\ Cut(c) = IF Len(cmd) < CmdBytes THEN Append(cmd, b) ELSE cmd
<1>1. KeysOf(typed) \in Seq(Symbol) /\ <<b>> \in Seq(Symbol)
  BY KeysType DEF AsTyped
<1>2. PICK c \in Seq(Symbol) : NoEnd(c) /\ cmd = Cut(c) /\ KeysOf(typed) = c \o Unread
  <2>1. CASE InsideLine
    BY <2>1 DEF InsideLine
  <2>2. CASE cmd = <<>> /\ BetweenLines
    <3>1. PICK e \in Seq({EndOfLine}) : e \o KeysOf(typed) = Unread
      BY <2>2 DEF BetweenLines
    <3>2. e \in Seq(Symbol)
      BY EndsAreSymbols
    <3>3. e = <<>>
      <4> SUFFICES ASSUME e # <<>> PROVE FALSE
        OBVIOUS
      <4>1. e[1] = EndOfLine
        BY FirstRest
      <4> DEFINE K == KeysOf(typed)
                 one == <<b>>
      <4>2. Len(one) = 1 /\ one[1] = b /\ Len(e) \in Nat \ {0} /\ Len(K) \in Nat /\ Len(R) \in Nat
        BY <1>1, EmptySeq, LenProperties
      <4>3. e \o K = one \o R
        BY <3>1
      <4>4. one \in Seq(Symbol) /\ K \in Seq(Symbol)
        BY <1>1
      <4> HIDE DEF K, one
      <4>5. (e \o K)[1] = e[1]
        <5>1. \A i \in 1 .. Len(e) + Len(K) : (e \o K)[i] = IF i <= Len(e) THEN e[i] ELSE K[i - Len(e)]
          BY <3>2, <4>4, ConcatProperties
        <5> QED
          BY <4>2, <5>1
      <4>6. (one \o R)[1] = b
        <5>1. \A i \in 1 .. Len(one) + Len(R) :
                 (one \o R)[i] = IF i <= Len(one) THEN one[i] ELSE R[i - Len(one)]
          BY <4>4, ConcatProperties
        <5> QED
          BY <4>2, <5>1
      <4> QED
        BY <4>1, <4>3, <4>5, <4>6
    <3>4. KeysOf(typed) = Unread
      BY <1>1, <3>1, <3>3, ConcatEmptySeq
    <3>5. Unread \in Seq(Symbol)
      BY <1>1, <3>4
    <3>6. <<>> \o Unread = Unread
      BY <3>5, ConcatEmptySeq
    <3>7. <<>> \in Seq(Symbol) /\ NoEnd(<<>>) /\ Cut(<<>>) = <<>>
      BY CliAssumption, EmptySeq DEF NoEnd, Cut
    <3> QED
      BY <2>2, <3>4, <3>6, <3>7
  <2> QED
    BY <2>1, <2>2
<1> DEFINE d == Append(c, b)
           one == <<b>>
<1>3. d = c \o one
  BY AppendIsConcat
<1>4. d \in Seq(Symbol) /\ d # <<>> /\ Len(d) = Len(c) + 1 /\ d[Len(c) + 1] = b
      /\ \A i \in 1 .. Len(c) : d[i] = c[i]
  BY AppendProperties
<1>5. Cut(d) = IF Len(cmd) < CmdBytes THEN Append(cmd, b) ELSE cmd
  BY <1>2, CutFacts
<1> HIDE DEF d
<1>6. NoEnd(d)
  <2>1. Len(c) \in Nat
    BY LenProperties
  <2> SUFFICES ASSUME NEW i \in 1 .. Len(d) PROVE d[i] # EndOfLine
    BY DEF NoEnd
  <2>2. i \in 1 .. Len(c) \/ i = Len(c) + 1
    BY <1>4, <2>1
  <2> QED
    BY <1>2, <1>4, <2>2 DEF NoEnd
<1>7. KeysOf(typed) = d \o R
  <2>2. one \in Seq(Symbol) /\ KeysOf(typed) = c \o (one \o R)
    BY <1>1, <1>2
  <2> HIDE DEF one
  <2>3. (c \o one) \o R = c \o (one \o R)
    BY <2>2, Associate, Zenon
  <2> QED
    BY <1>3, <2>2, <2>3, Zenon
<1> QED
  BY <1>4, <1>5, <1>6, <1>7

(* The end of a line is read: what was collected is the line typed first.    *)
LEMMA LineComplete ==
  ASSUME TypeOK, SymbolsOK, AsTyped, InsideLine, NEW R \in Seq(Symbol),
         Unread = <<EndOfLine>> \o R
  PROVE  /\ typed # <<>> /\ cmd = Cut(Head(typed))
         /\ \E e \in Seq({EndOfLine}) : e \o KeysOf(Tail(typed)) = R
<1> DEFINE K == KeysOf(Tail(typed))
           h == Head(typed)
<1>0. PICK eol \in Seq({EndOfLine}) : eol = <<EndOfLine>>
  BY OneSymbol
<1>1. PICK c \in Seq(Symbol) : c # <<>> /\ NoEnd(c) /\ cmd = Cut(c) /\ KeysOf(typed) = c \o (eol \o R)
  BY <1>0 DEF InsideLine
<1>2. eol \in Seq(Symbol) /\ eol # <<>> /\ eol[1] = EndOfLine
  BY <1>0, EndsAreSymbols
<1>3. eol \o R \in Seq(Symbol) /\ eol \o R # <<>>
  BY <1>2, ConcatProperties, ConcatEqualIffEmpty
<1>4. typed # <<>>
  <2>1. c \o (eol \o R) # <<>>
    BY <1>3, ConcatEqualIffEmpty
  <2> QED
    BY <1>1, <2>1, KeysEmpty
<1>5. /\ h \in Lines /\ Tail(typed) \in Seq(Lines) /\ KeysOf(typed) = h \o (LineEnd \o K)
  BY <1>4, KeysFirst DEF AsTyped
<1>6. h \in Seq(Symbol) /\ NoEnd(h) /\ K \in Seq(Symbol)
  BY <1>5, LineType, KeysType
<1> HIDE DEF h, K
<1>7. LineEnd \in Seq(Symbol) /\ LineEnd # <<>> /\ LineEnd[1] = EndOfLine
  BY LineType
<1>8. PICK r \in Seq({EndOfLine}) : LineEnd = eol \o r
  <2>1. Tail(LineEnd) \in Seq({EndOfLine})
    BY LineType
  <2>2. LineEnd = <<LineEnd[1]>> \o Tail(LineEnd)
    BY <1>7, FirstRest
  <2> QED
    BY <1>0, <1>7, <2>1, <2>2
<1>9. r \in Seq(Symbol)
  BY EndsAreSymbols
<1>10. LineEnd \o K = eol \o (r \o K) /\ r \o K \in Seq(Symbol)
  <2>1. (eol \o r) \o K = eol \o (r \o K)
    BY <1>2, <1>6, <1>9, ConcatAssociative
  <2>2. r \o K \in Seq(Symbol)
    BY <1>6, <1>9, Associate, Zenon
  <2> QED
    BY <1>8, <2>1, <2>2, Zenon
<1>11. PICK u \in Seq(Symbol) : u = eol \o R /\ u # <<>> /\ u[1] = EndOfLine
  <2> DEFINE p == eol \o R
  <2>1. Len(eol) \in Nat \ {0} /\ Len(R) \in Nat
    BY <1>2, EmptySeq, LenProperties
  <2>2. \A i \in 1 .. Len(eol) + Len(R) : p[i] = IF i <= Len(eol) THEN eol[i] ELSE R[i - Len(eol)]
    BY <1>2, ConcatProperties
  <2> HIDE DEF p
  <2>3. p[1] = eol[1]
    <3>1. 1 \in 1 .. Len(eol) + Len(R) /\ 1 <= Len(eol)
      BY <2>1
    <3> QED
      BY <2>2, <3>1
  <2>4. p \in Seq(Symbol) /\ p # <<>> /\ p[1] = EndOfLine
    BY <1>2, <1>3, <2>3 DEF p
  <2> QED
    BY <2>4 DEF p
<1>12. PICK v \in Seq(Symbol) : v = LineEnd \o K /\ v # <<>> /\ v[1] = EndOfLine
  <2> DEFINE v == LineEnd \o K
  <2>1. Len(LineEnd) \in Nat \ {0} /\ Len(K) \in Nat
    BY <1>6, <1>7, EmptySeq, LenProperties
  <2>2. /\ v \in Seq(Symbol) /\ Len(v) = Len(LineEnd) + Len(K)
        /\ \A i \in 1 .. Len(LineEnd) + Len(K) :
             v[i] = IF i <= Len(LineEnd) THEN LineEnd[i] ELSE K[i - Len(LineEnd)]
    BY <1>6, <1>7, ConcatProperties
  <2> HIDE DEF v
  <2>3. v[1] = LineEnd[1] /\ Len(v) # 0
    BY <2>1, <2>2
  <2>4. v \in Seq(Symbol) /\ v # <<>> /\ v[1] = EndOfLine
    BY <1>7, <2>2, <2>3, EmptySeq
  <2> QED
    BY <2>4 DEF v
<1>13. PICK w \in Seq(Symbol) : w = h /\ NoEnd(w)
  BY <1>6
<1>14. c \o u = w \o v
  BY <1>1, <1>5, <1>11, <1>12, <1>13
<1>15. NoEnd(c) /\ NoEnd(w)
  BY <1>1, <1>13
<1>16. c = w /\ u = v
  BY <1>11, <1>12, <1>14, <1>15, SameStart, Zenon
<1>17. eol \o R = eol \o (r \o K)
  BY <1>10, <1>11, <1>12, <1>16
<1>18. R = r \o K
  BY <1>2, <1>10, <1>17, ConcatSimplifications
<1> QED
  BY <1>1, <1>4, <1>13, <1>16, <1>18 DEF h, K

(* What was read and what is still to be read make up what is collected.     *)
LEMMA UnreadFirst ==
  ASSUME SymbolsOK, packet # <<>>
  PROVE  /\ Head(packet) \in Symbol /\ Tail(packet) \o inbound \in Seq(Symbol)
         /\ Unread = <<Head(packet)>> \o (Tail(packet) \o inbound)
<1>1. packet \in Seq(Symbol) /\ inbound \in Seq(Symbol)
  BY DEF SymbolsOK
<1> DEFINE b == packet[1]
           rest == Tail(packet)
           one == <<b>>
<1>2. b \in Symbol /\ Head(packet) = b /\ rest \in Seq(Symbol) /\ one \in Seq(Symbol) /\ packet = one \o rest
  BY <1>1, FirstRest
<1>3. (one \o rest) \o inbound = one \o (rest \o inbound)
  <2> HIDE DEF one, rest
  <2> QED
    BY <1>1, <1>2, ConcatAssociative
<1>4. rest \o inbound \in Seq(Symbol)
  BY <1>1, <1>2, ConcatProperties
<1> QED
  BY <1>2, <1>3, <1>4 DEF Unread

LEMMA AsTypedStep ==
  ASSUME TypeOK, SymbolsOK, SymbolsOK', AsTyped, [Next]_vars
  PROVE  AsTyped'
<1>1. /\ cmd \in Seq(Symbol) /\ packet \in Seq(Symbol) /\ inbound \in Seq(Symbol)
      /\ typed \in Seq(Lines)
      /\ ~link => inbound = <<>> /\ typed = <<>>
      /\ pc \in {"connect", "receive"} => packet = <<>>
      /\ pc = "connect" => KeysOf(typed) = inbound
  BY DEF SymbolsOK, AsTyped
<1>2. /\ <<>> \in Seq(Lines) /\ <<>> \in Seq({EndOfLine}) /\ <<>> \o <<>> = <<>>
      /\ <<>> \o inbound = inbound /\ <<>> \o inbound' = inbound'
      /\ KeysOf(<<>>) = <<>>
  <2>1. inbound \in Seq(Symbol) /\ inbound' \in Seq(Symbol) /\ <<>> \in Seq(Symbol)
    BY EmptySeq DEF SymbolsOK
  <2> QED
    BY <2>1, EmptySeq, ConcatEmptySeq, KeysEmpty
(* What is typed and to be read stays: so does where the task is in it.      *)
<1>3. ASSUME typed' = typed, Unread' = Unread
      PROVE  /\ BetweenLines' <=> BetweenLines
             /\ cmd' = cmd => (InsideLine' <=> InsideLine)
  BY <1>3 DEF BetweenLines, InsideLine
<1>4. ASSUME KeysOf(typed') = Unread'
      PROVE  BetweenLines'
  <2>1. typed' \in Seq(Lines) => Unread' \in Seq(Symbol)
    BY <1>4, KeysType
  <2>2. Unread' \in Seq(Symbol)
    BY ConcatProperties DEF SymbolsOK, Unread
  <2>3. <<>> \o KeysOf(typed') = Unread'
    BY <1>4, <2>2, ConcatEmptySeq
  <2> QED
    BY <1>2, <2>3 DEF BetweenLines
<1>5. CASE Connect
  <2>1. /\ pc = "connect" /\ pc' = "write" /\ link /\ link' = link /\ typed' = typed
        /\ inbound' = inbound /\ packet' = <<>>
    BY <1>5 DEF Connect, hostVars, WriteText, Write
  <2>2. Unread' = inbound'
    BY <1>2, <2>1 DEF Unread
  <2>3. BetweenLines'
    BY <1>1, <1>4, <2>1, <2>2
  <2> QED
    BY <1>1, <2>1, <2>3 DEF AsTyped
<1>6. CASE ConnectionLost
  <2>1. /\ pc = "receive" /\ pc' = "connect" /\ ~link /\ link' = link /\ typed' = typed
        /\ inbound' = inbound /\ packet' = packet
    BY <1>6 DEF ConnectionLost, hostVars
  <2> QED
    BY <1>1, <1>2, <2>1 DEF AsTyped
<1>7. ASSUME NEW n \in 1 .. MaxPacket, ReadPacket(n)
      PROVE  AsTyped'
  <2>1. /\ pc = "receive" /\ pc' = "parse" /\ link /\ link' = link /\ typed' = typed
        /\ cmd' = cmd /\ stale' = stale /\ n <= Len(inbound)
        /\ packet' = SubSeq(inbound, 1, n) /\ inbound' = SubSeq(inbound, n + 1, Len(inbound))
    BY <1>7 DEF ReadPacket
  <2>2. Len(inbound) \in Nat /\ n \in 1 .. Len(inbound)
    BY <1>1, <2>1, LenProperties
  <2>3. packet' \o inbound' = inbound
    BY <1>1, <2>1, <2>2, SplitJoin
  <2>4. Unread' = Unread
    BY <1>1, <1>2, <2>1, <2>3 DEF Unread
  <2>5. (cmd' = <<>> /\ BetweenLines') \/ InsideLine' \/ stale'
    BY <1>3, <2>1, <2>4 DEF AsTyped
  <2> QED
    BY <1>1, <2>1, <2>5 DEF AsTyped
<1>8. CASE PacketDone
  <2>1. /\ pc = "parse" /\ pc' = "receive" /\ link' = link /\ typed' = typed /\ inbound' = inbound
        /\ packet = <<>> /\ packet' = packet /\ cmd' = cmd /\ stale' = stale
    BY <1>8 DEF PacketDone, hostVars
  <2>2. Unread' = Unread
    BY <2>1 DEF Unread
  <2>3. (cmd' = <<>> /\ BetweenLines') \/ InsideLine' \/ stale'
    BY <1>3, <2>1, <2>2 DEF AsTyped
  <2> QED
    BY <1>1, <2>1, <2>3 DEF AsTyped
<1>9. CASE ParseByte
  <2> DEFINE R == Tail(packet) \o inbound
             b == Head(packet)
  <2>1. /\ pc = "parse" /\ pc' = "parse" /\ link' = link /\ typed' = typed /\ inbound' = inbound
        /\ packet # <<>> /\ packet' = Tail(packet) /\ stale' = stale
        /\ \/ b # EndOfLine /\ cmd' = IF Len(cmd) < CmdBytes THEN Append(cmd, b) ELSE cmd
           \/ b = EndOfLine /\ cmd = <<>> /\ cmd' = cmd
    BY <1>9 DEF ParseByte, CollectByte, hostVars
  <2>2. b \in Symbol /\ R \in Seq(Symbol) /\ Unread = <<b>> \o R /\ Unread' = R
    BY <2>1, UnreadFirst DEF Unread
  <2> HIDE DEF R, b
  <2>3. ASSUME ~stale
        PROVE  (cmd' = <<>> /\ BetweenLines') \/ InsideLine'
    <3>1. (cmd = <<>> /\ BetweenLines) \/ InsideLine
      BY <2>1, <2>3 DEF AsTyped
    <3>2. CASE b # EndOfLine
      <4>1. PICK c \in Seq(Symbol) \ {<<>>} :
               /\ NoEnd(c) /\ KeysOf(typed) = c \o R
               /\ Cut(c) = IF Len(cmd) < CmdBytes THEN Append(cmd, b) ELSE cmd
        BY <2>2, <3>1, <3>2, SymbolCollected
      <4>2. cmd' = Cut(c)
        BY <2>1, <3>2, <4>1
      <4> QED
        BY <2>1, <2>2, <4>1, <4>2 DEF InsideLine
    <3>3. CASE b = EndOfLine
      <4>1. cmd = <<>> /\ cmd' = <<>>
        BY <2>1, <3>3
      <4>2. BetweenLines
        <5> SUFFICES ASSUME InsideLine PROVE FALSE
          BY <3>1
        <5> QED
          BY <4>1, CutFacts DEF InsideLine
      <4>3. Unread = <<EndOfLine>> \o R
        BY <2>2, <3>3
      <4>4. PICK e \in Seq({EndOfLine}) : e \o KeysOf(typed) = R
        BY <2>2, <4>2, <4>3, EndSkipped
      <4> QED
        BY <2>1, <2>2, <4>1, <4>4 DEF BetweenLines
    <3> QED
      BY <3>2, <3>3
  <2> QED
    BY <1>1, <2>1, <2>3 DEF AsTyped
<1>10. CASE HandleLine
  <2> DEFINE R == Tail(packet) \o inbound
  <2>1. /\ pc = "parse" /\ pc' = "write" /\ link' = link /\ inbound' = inbound /\ stale' = stale
        /\ packet # <<>> /\ Head(packet) = EndOfLine /\ packet' = Tail(packet) /\ cmd # <<>>
        /\ typed' = IF typed = <<>> THEN typed ELSE Tail(typed)
    <3>1. pc' = "write"
      BY <1>10, CommandWrites DEF HandleLine, TypeOK
    <3> QED
      BY <1>10, <3>1 DEF HandleLine
  <2>2. R \in Seq(Symbol) /\ Unread = <<EndOfLine>> \o R /\ Unread' = R
    BY <2>1, UnreadFirst DEF Unread
  <2> HIDE DEF R
  <2>3. ASSUME ~stale
        PROVE  BetweenLines'
    <3>1. InsideLine
      BY <2>1, <2>3 DEF AsTyped
    <3>2. typed # <<>> /\ \E e \in Seq({EndOfLine}) : e \o KeysOf(Tail(typed)) = R
      BY <2>2, <3>1, LineComplete
    <3> QED
      BY <2>1, <2>2, <3>2 DEF BetweenLines
  <2>4. typed' \in Seq(Lines) /\ (~link' => typed' = <<>>)
    BY <1>1, <2>1, HeadTailProperties
  <2> QED
    BY <1>1, <2>1, <2>3, <2>4 DEF AsTyped
<1>11. CASE WriteLine
  <2>1. /\ pc = "write" /\ pc' = pc /\ link' = link /\ typed' = typed /\ inbound' = inbound
        /\ packet' = packet /\ stale' = stale
    BY <1>11 DEF WriteLine, hostVars
  <2>2. Unread' = Unread
    BY <2>1 DEF Unread
  <2>3. BetweenLines' \/ stale'
    BY <1>3, <2>1, <2>2 DEF AsTyped
  <2> QED
    BY <1>1, <2>1, <2>3 DEF AsTyped
<1>12. CASE Written
  <2>1. /\ pc = "write" /\ pc' = "parse" /\ link' = link /\ typed' = typed /\ inbound' = inbound
        /\ packet' = packet /\ stale' = stale /\ cmd' = <<>>
    BY <1>12 DEF Written, hostVars
  <2>2. Unread' = Unread
    BY <2>1 DEF Unread
  <2>3. BetweenLines' \/ stale'
    BY <1>3, <2>1, <2>2 DEF AsTyped
  <2> QED
    BY <1>1, <2>1, <2>3 DEF AsTyped
<1>13. CASE LinkUp
  <2>1. /\ pc # "receive" /\ pc' = pc /\ typed' = typed /\ inbound' = inbound
        /\ packet' = packet /\ stale' = stale /\ cmd' = cmd /\ link'
    BY <1>13 DEF LinkUp, taskVars
  <2>2. Unread' = Unread
    BY <2>1 DEF Unread
  <2>3. /\ pc = "write" => BetweenLines' \/ stale'
        /\ pc = "parse" => (cmd' = <<>> /\ BetweenLines') \/ InsideLine' \/ stale'
    BY <1>3, <2>1, <2>2 DEF AsTyped
  <2> QED
    BY <1>1, <2>1, <2>3 DEF AsTyped
<1>14. CASE LinkDown
  <2>1. /\ pc # "parse" /\ pc' = pc /\ typed' = <<>> /\ inbound' = <<>> /\ packet' = packet
        /\ stale' = (stale \/ (pc = "write" /\ packet # <<>>)) /\ ~link'
    BY <1>14 DEF LinkDown, taskVars
  <2>2. ASSUME pc' = "write", ~stale'
        PROVE  BetweenLines'
    <3>1. packet' = <<>>
      BY <2>1, <2>2
    <3>2. Unread' = <<>>
      BY <1>2, <2>1, <3>1 DEF Unread
    <3>3. KeysOf(typed') = Unread'
      BY <1>2, <2>1, <3>2
    <3> QED
      BY <1>4, <3>3
  <2>3. KeysOf(typed') = inbound'
    BY <1>2, <2>1
  <2> QED
    BY <1>1, <1>2, <2>1, <2>2, <2>3 DEF AsTyped
<1>15. ASSUME NEW line \in Lines, Type(line)
       PROVE  AsTyped'
  <2> DEFINE x == line \o LineEnd
  <2>1. /\ pc' = pc /\ typed' = Append(typed, line) /\ inbound' = (inbound \o line) \o LineEnd
        /\ packet' = packet /\ stale' = stale /\ cmd' = cmd /\ link /\ link' = link
    BY <1>15 DEF Type, taskVars
  <2>2. x \in Seq(Symbol) /\ line \in Seq(Symbol) /\ LineEnd \in Seq(Symbol)
    BY LineType, ConcatProperties
  <2>3. inbound' = inbound \o x
    <3>1. (inbound \o line) \o LineEnd = inbound \o (line \o LineEnd)
      BY <1>1, <2>2, ConcatAssociative
    <3> QED
      BY <2>1, <3>1
  <2>4. KeysOf(typed') = KeysOf(typed) \o x /\ KeysOf(typed) \in Seq(Symbol)
    BY <1>1, <2>1, KeysAppend, KeysType
  <2> HIDE DEF x
  <2>5. Unread \in Seq(Symbol) /\ Unread' = Unread \o x
    <3>1. (packet \o inbound) \o x = packet \o (inbound \o x)
      <4>1. packet \in Seq(Symbol) /\ inbound \in Seq(Symbol)
        BY <1>1
      <4>2. x \in Seq(Symbol)
        BY <2>2
      <4> QED
        BY <4>1, <4>2, Associate, ZenonT(60)
    <3>2. packet \o inbound \in Seq(Symbol)
      BY <1>1, ConcatProperties
    <3> QED
      BY <2>1, <2>3, <3>1, <3>2 DEF Unread
  <2>6. ASSUME BetweenLines
        PROVE  BetweenLines'
    <3>1. PICK e \in Seq({EndOfLine}) : e \o KeysOf(typed) = Unread
      BY <2>6 DEF BetweenLines
    <3>2. e \in Seq(Symbol)
      BY EndsAreSymbols
    <3>3. (e \o KeysOf(typed)) \o x = e \o (KeysOf(typed) \o x)
      BY <2>2, <2>4, <3>2, ConcatAssociative
    <3>4. e \o KeysOf(typed') = Unread'
      BY <2>4, <2>5, <3>1, <3>3
    <3> QED
      BY <3>4 DEF BetweenLines
  <2>7. ASSUME InsideLine
        PROVE  InsideLine'
    <3>1. PICK c \in Seq(Symbol) \ {<<>>} :
             NoEnd(c) /\ cmd = Cut(c) /\ KeysOf(typed) = c \o Unread
      BY <2>7 DEF InsideLine
    <3>2. (c \o Unread) \o x = c \o (Unread \o x)
      BY <2>2, <2>5, ConcatAssociative
    <3>3. KeysOf(typed') = c \o Unread'
      BY <2>4, <2>5, <3>1, <3>2
    <3> QED
      BY <2>1, <3>1, <3>3 DEF InsideLine
  <2>8. typed' \in Seq(Lines)
    BY <1>1, <2>1, AppendProperties
  <2>9. pc' = "connect" => KeysOf(typed') = inbound'
    BY <1>1, <2>1, <2>3, <2>4
  <2> QED
    BY <1>1, <2>1, <2>6, <2>7, <2>8, <2>9 DEF AsTyped
<1>16. ASSUME UNCHANGED <<taskVars, hostVars, stale>>
       PROVE  AsTyped'
  <2>1. /\ pc' = pc /\ typed' = typed /\ inbound' = inbound /\ packet' = packet
        /\ stale' = stale /\ cmd' = cmd /\ link' = link
    BY <1>16 DEF taskVars, hostVars
  <2> QED
    BY <2>1 DEF AsTyped, BetweenLines, InsideLine, Unread
<1>17. CASE \E e \in Event : LogEvent(e) \/ TakeReset(e)
  BY <1>16, <1>17 DEF LogEvent, TakeReset
<1>18. CASE UNCHANGED vars
  BY <1>16, <1>18 DEF vars
<1> QED
  BY <1>5, <1>6, <1>7, <1>8, <1>9, <1>10, <1>11, <1>12, <1>13, <1>14, <1>15, <1>17, <1>18 DEF Next, Task

LEMMA AsTypedHolds == Spec => []AsTyped
<1>1. Init => AsTyped
  <2> SUFFICES ASSUME Init PROVE AsTyped
    OBVIOUS
  <2>1. typed = <<>> /\ inbound = <<>> /\ packet = <<>> /\ pc = "connect"
    BY DEF Init
  <2>2. <<>> \in Seq(Lines)
    BY EmptySeq
  <2> QED
    BY <2>1, <2>2, KeysEmpty DEF AsTyped
<1>2. CliInv /\ CliInv' /\ AsTyped /\ [Next]_vars => AsTyped'
  BY AsTypedStep DEF CliInv
<1> QED
  BY <1>1, <1>2, CliInvariant, PTL DEF Spec

(* Every line is carried out as it was typed, in the order of typing, up to  *)
(* the length of the buffer, whatever packets it came in and however many    *)
(* lines were typed ahead.                                                   *)
THEOREM LinesHandledAsTyped == Spec => HandledAsTyped
<1>1. CliInv /\ AsTyped /\ [Next]_vars
        => [(HandleLine /\ ~stale) => (typed # <<>> /\ cmd = Cut(Head(typed)))]_vars
  <2> SUFFICES ASSUME CliInv, AsTyped, HandleLine, ~stale
               PROVE  typed # <<>> /\ cmd = Cut(Head(typed))
    OBVIOUS
  <2>1. pc = "parse" /\ packet # <<>> /\ Head(packet) = EndOfLine /\ cmd # <<>>
    BY DEF HandleLine
  <2>2. InsideLine
    BY <2>1 DEF AsTyped
  <2> DEFINE R == Tail(packet) \o inbound
  <2>3. R \in Seq(Symbol) /\ Unread = <<EndOfLine>> \o R
    BY <2>1, UnreadFirst DEF CliInv
  <2> HIDE DEF R
  <2> QED
    BY <2>2, <2>3, LineComplete DEF CliInv
<1> QED
  BY <1>1, CliInvariant, AsTypedHolds, PTL DEF Spec, HandledAsTyped

===============================================================================
