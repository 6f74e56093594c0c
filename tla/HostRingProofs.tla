---------------------------- MODULE HostRingProofs ----------------------------
(***************************************************************************)
(* HostRing implements ByteQueue, for every capacity and every byte set:   *)
(* what the program does to head, len and the array, wrapping included, is *)
(* what a queue does to the bytes it holds.                                *)
(***************************************************************************)
EXTENDS HostRing, DataLemmas, SequenceTheorems

(* The slot of the byte k places behind the oldest one. *)
At(h, k) == (h + k) % Capacity

(* Slots stay inside the array. *)
LEMMA AtInSlot ==
  ASSUME NEW h \in Slot, NEW k \in Int
  PROVE  At(h, k) \in Slot
BY RingAssumption, DivMod DEF Slot, At

LEMMA AtZero ==
  ASSUME NEW h \in Slot
  PROVE  At(h, 0) = h
<1>1. Capacity \in Nat \ {0} /\ h \in Int /\ h \in 0 .. Capacity - 1 /\ h + 0 = h
  BY RingAssumption DEF Slot
<1> QED
  BY <1>1, Wrap DEF At

(* The bytes a ring holds are a sequence of bytes as long as len says. *)
LEMMA Window ==
  ASSUME NEW b \in [Slot -> Byte], NEW h \in Slot, NEW n \in 0 .. Capacity,
         NEW w, w = [i \in 1 .. n |-> b[(h + i - 1) % Capacity]]
  PROVE  /\ w \in Seq(Byte)
         /\ Len(w) = n
         /\ \A i \in 1 .. n : w[i] = b[At(h, i - 1)]
<1> USE RingAssumption
<1>1. \A i \in 1 .. n : At(h, i - 1) = (h + i - 1) % Capacity
  BY DEF At, Slot
<1>2. \A i \in 1 .. n : b[At(h, i - 1)] \in Byte
  BY AtInSlot
<1>3. w \in [1 .. n -> Byte]
  BY <1>1, <1>2
<1>4. w \in Seq(Byte)
  BY <1>3, SeqDef
<1>5. Len(w) = n
  BY <1>3, <1>4, LenProperties
<1> QED
  BY <1>1, <1>4, <1>5

(* The indices stay inside the array whatever calls streams.rs makes.      *)
THEOREM RingTypeOK == Spec => []TypeOK
<1> USE RingAssumption DEF Slot, TypeOK
<1>1. Init => TypeOK
  BY DEF Init
<1>2. TypeOK /\ [Next]_vars => TypeOK'
  <2> SUFFICES ASSUME TypeOK, [Next]_vars
               PROVE  TypeOK'
    OBVIOUS
  <2>1. CASE PopFront
    <3>1. head' \in Slot
      BY <2>1, AtInSlot DEF PopFront, At
    <3> QED
      BY <2>1, <3>1 DEF PopFront
  <2>2. CASE PopFrontEmpty
    BY <2>2 DEF PopFrontEmpty
  <2>3. ASSUME NEW data \in FeedData, PushBack(data)
        PROVE  TypeOK'
    <3> DEFINE accepted == IF Len(data) <= Capacity - len THEN Len(data) ELSE Capacity - len
               offset(i) == (i - ((head + len) % Capacity)) % Capacity
    <3>1. data \in Seq(Byte) /\ Len(data) \in Nat
      BY LenProperties
    <3>2. accepted \in 0 .. Capacity - len /\ accepted <= Len(data)
      BY <3>1
    <3>3. buf' = [i \in Slot |-> IF offset(i) < accepted THEN data[offset(i) + 1] ELSE buf[i]]
      BY <2>3 DEF PushBack
    <3>4. \A i \in Slot : offset(i) \in 0 .. Capacity - 1
      <4>1. (head + len) % Capacity \in Int
        BY AtInSlot DEF At
      <4> SUFFICES ASSUME NEW i \in Slot
                   PROVE  offset(i) \in 0 .. Capacity - 1
        OBVIOUS
      <4>2. i - ((head + len) % Capacity) \in Int
        BY <4>1
      <4> QED
        BY <4>2, DivMod
    <3>5. buf' \in [Slot -> Byte]
      <4> HIDE DEF accepted, offset
      <4>1. \A i \in Slot : offset(i) < accepted => data[offset(i) + 1] \in Byte
        BY <3>1, <3>2, <3>4, ElementOfSeq
      <4> QED
        BY <3>3, <4>1
    <3>6. len' = len + accepted /\ ret' = accepted /\ head' = head
      BY <2>3 DEF PushBack
    <3> HIDE DEF accepted
    <3> QED
      BY <3>2, <3>5, <3>6
  <2>4. ASSUME NEW v \in Byte, PushFrontOne(v)
        PROVE  TypeOK'
    BY <2>4 DEF PushFrontOne
  <2>5. ASSUME NEW v \in Byte, PushFrontOneFull(v)
        PROVE  TypeOK'
    BY <2>5 DEF PushFrontOneFull
  <2>6. CASE ResetWithAddr
    BY <2>6 DEF ResetWithAddr
  <2>7. CASE UNCHANGED vars
    BY <2>7 DEF vars
  <2> QED
    BY <2>1, <2>2, <2>3, <2>4, <2>5, <2>6, <2>7 DEF Next
<1> QED
  BY <1>1, <1>2, PTL DEF Spec

(* What the current and the next contents are. *)
LEMMA ContentsWindow ==
  ASSUME TypeOK
  PROVE  /\ Contents \in Seq(Byte)
         /\ Len(Contents) = len
         /\ \A i \in 1 .. len : Contents[i] = buf[At(head, i - 1)]
BY Window DEF TypeOK, Contents

LEMMA ContentsWindowNext ==
  ASSUME TypeOK'
  PROVE  /\ Contents' \in Seq(Byte)
         /\ Len(Contents') = len'
         /\ \A i \in 1 .. len' : Contents'[i] = buf'[At(head', i - 1)]
BY Window DEF TypeOK, Contents

(* A pop takes the oldest byte and keeps the others in order.              *)
LEMMA PopRefines ==
  ASSUME TypeOK, TypeOK', PopFront
  PROVE  Queue!Pop
<1> USE RingAssumption DEF Slot
<1>1. /\ len # 0 /\ len' = len - 1 /\ ret' = buf[head]
      /\ buf' = buf /\ head' = (head + 1) % Capacity
  BY DEF PopFront
<1>2. head \in Slot /\ len \in 1 .. Capacity
  BY <1>1 DEF TypeOK
<1>3. Contents # <<>>
  BY <1>1, ContentsWindow, EmptySeq
<1>4. At(head, 0) = head
  BY <1>2, AtZero
<1>5. Head(Contents) = buf[head]
  BY <1>2, <1>3, <1>4, ContentsWindow
<1>6. \A i \in 1 .. len' : At(head', i - 1) = At(head, i)
  <2> SUFFICES ASSUME NEW i \in 1 .. len'
               PROVE  At(head', i - 1) = At(head, i)
    OBVIOUS
  <2>1. head + 1 \in Int /\ i - 1 \in Int /\ (head + 1) + (i - 1) = head + i
    BY <1>2
  <2>2. (((head + 1) % Capacity) + (i - 1)) % Capacity = ((head + 1) + (i - 1)) % Capacity
    BY <2>1, ModPlus
  <2> QED
    BY <1>1, <2>1, <2>2 DEF At
<1>7. \A i \in 1 .. len' : Contents'[i] = Contents[i + 1]
  <2> SUFFICES ASSUME NEW i \in 1 .. len'
               PROVE  Contents'[i] = Contents[i + 1]
    OBVIOUS
  <2>1. Contents'[i] = buf'[At(head', i - 1)]
    BY ContentsWindowNext
  <2>2. i + 1 \in 1 .. len /\ (i + 1) - 1 = i
    BY <1>1, <1>2
  <2>3. Contents[i + 1] = buf[At(head, (i + 1) - 1)]
    BY <2>2, ContentsWindow
  <2> QED
    BY <1>1, <1>6, <2>1, <2>2, <2>3
<1>8. Contents' = Tail(Contents)
  <2>1. /\ Tail(Contents) \in Seq(Byte)
        /\ Len(Tail(Contents)) = len'
        /\ \A i \in 1 .. len' : Tail(Contents)[i] = Contents[i + 1]
    BY <1>1, <1>3, ContentsWindow, HeadTailProperties
  <2> QED
    BY <1>7, <2>1, ContentsWindowNext, SeqEqual
<1> QED
  BY <1>1, <1>3, <1>5, <1>8 DEF Queue!Pop

(* A push writes behind the newest byte: no slot it writes holds a byte of *)
(* the queue, and the bytes it accepts follow in order.                    *)
LEMMA PushRefines ==
  ASSUME TypeOK, TypeOK', NEW data \in FeedData, PushBack(data)
  PROVE  Queue!Push(data)
<1> USE RingAssumption DEF Slot
<1> DEFINE accepted == IF Len(data) <= Capacity - len THEN Len(data) ELSE Capacity - len
           offset(i) == (i - ((head + len) % Capacity)) % Capacity
           taken == SubSeq(data, 1, accepted)
<1>1. /\ buf' = [i \in Slot |-> IF offset(i) < accepted THEN data[offset(i) + 1] ELSE buf[i]]
      /\ len' = len + accepted /\ ret' = accepted /\ head' = head
  BY DEF PushBack
<1>2. data \in Seq(Byte) /\ Len(data) \in Nat
  BY LenProperties
<1>3. head \in Slot /\ len \in 0 .. Capacity
  BY DEF TypeOK
<1>4. accepted \in 0 .. Capacity - len /\ accepted <= Len(data)
  BY <1>2, <1>3
<1>5. accepted = Queue!Accepted(Contents, data)
  BY ContentsWindow DEF Queue!Accepted, Queue!Free
<1>6. /\ taken \in Seq(Byte)
      /\ Len(taken) = accepted
      /\ \A i \in 1 .. accepted : taken[i] = data[i]
  <2> HIDE DEF accepted
  <2>1. \A i \in 1 .. accepted : data[i] \in Byte
    BY <1>2, <1>4, ElementOfSeq
  <2>2. /\ taken \in Seq(Byte)
        /\ Len(taken) = IF 1 <= accepted THEN accepted - 1 + 1 ELSE 0
        /\ \A i \in 1 .. accepted - 1 + 1 : taken[i] = data[1 + i - 1]
    BY <1>4, <2>1, SubSeqProperties
  <2> QED
    BY <1>4, <2>2
<1> HIDE DEF accepted
<1>7. \A i \in 1 .. len' : offset(At(head, i - 1)) =
                           IF i - 1 >= len THEN (i - 1) - len ELSE ((i - 1) - len) + Capacity
  <2> SUFFICES ASSUME NEW i \in 1 .. len'
               PROVE  offset(At(head, i - 1)) =
                        IF i - 1 >= len THEN (i - 1) - len ELSE ((i - 1) - len) + Capacity
    OBVIOUS
  <2>1. i - 1 \in 0 .. Capacity - 1
    BY <1>1, <1>3, <1>4
  <2> QED
    BY <1>3, <2>1, Distance DEF At
<1> HIDE DEF offset, taken
<1>8. \A i \in 1 .. len' : Contents'[i] = IF i <= len THEN Contents[i] ELSE taken[i - len]
  <2> SUFFICES ASSUME NEW i \in 1 .. len'
               PROVE  Contents'[i] = IF i <= len THEN Contents[i] ELSE taken[i - len]
    OBVIOUS
  <2>1. At(head, i - 1) \in Slot
    <3>1. i - 1 \in Int
      OBVIOUS
    <3> QED
      BY <1>3, <3>1, AtInSlot
  <2>2. Contents'[i] = IF offset(At(head, i - 1)) < accepted
                       THEN data[offset(At(head, i - 1)) + 1] ELSE buf[At(head, i - 1)]
    BY <1>1, <2>1, ContentsWindowNext
  <2>3. CASE i <= len
    <3>1. ~ (offset(At(head, i - 1)) < accepted)
      BY <1>1, <1>3, <1>4, <1>7, <2>3
    <3> QED
      BY <1>3, <2>2, <2>3, <3>1, ContentsWindow
  <2>4. CASE i > len
    <3>1. offset(At(head, i - 1)) = (i - 1) - len
      BY <1>1, <1>3, <1>4, <1>7, <2>4
    <3>2. i - len \in 1 .. accepted
      BY <1>1, <1>3, <1>4, <2>4
    <3> QED
      BY <1>3, <1>6, <2>2, <2>4, <3>1, <3>2
  <2> QED
    BY <1>1, <1>3, <1>4, <2>3, <2>4
<1>9. Contents' = Contents \o taken
  <2>1. /\ Contents \o taken \in Seq(Byte)
        /\ Len(Contents \o taken) = len'
        /\ \A i \in 1 .. len' : (Contents \o taken)[i] =
                                 IF i <= len THEN Contents[i] ELSE taken[i - len]
    <3> HIDE DEF Contents
    <3>1. /\ Contents \o taken \in Seq(Byte)
          /\ Len(Contents \o taken) = Len(Contents) + Len(taken)
          /\ \A i \in 1 .. Len(Contents) + Len(taken) :
               (Contents \o taken)[i] =
                 IF i <= Len(Contents) THEN Contents[i] ELSE taken[i - Len(Contents)]
      BY <1>6, ContentsWindow, ConcatProperties
    <3>2. Len(Contents) = len /\ Len(taken) = accepted
      BY <1>6, ContentsWindow
    <3> QED
      BY <1>1, <3>1, <3>2
  <2> QED
    BY <1>8, <2>1, ContentsWindowNext, SeqEqual
<1> QED
  BY <1>1, <1>5, <1>9 DEF Queue!Push, Queue!PushBack, taken

(* A byte put back becomes the oldest one, in a slot no byte occupies.     *)
LEMMA PushFrontRefines ==
  ASSUME TypeOK, TypeOK', NEW v \in Byte, PushFrontOne(v)
  PROVE  Queue!PushFront(v)
<1> USE RingAssumption DEF Slot
<1>1. /\ len < Capacity /\ len' = len + 1 /\ ret' = NoByte
      /\ head' = (IF head = 0 THEN Capacity - 1 ELSE head - 1)
      /\ buf' = [buf EXCEPT ![head'] = v]
  BY DEF PushFrontOne
<1>2. /\ buf \in [Slot -> Byte] /\ head \in Slot /\ len \in 0 .. Capacity - 1
      /\ head' \in Slot
  BY <1>1 DEF TypeOK
<1>3. At(head', 0) = head'
  BY <1>2, AtZero
<1>4. \A i \in 2 .. len' : At(head', i - 1) = At(head, i - 2) /\ At(head', i - 1) # head'
  <2> SUFFICES ASSUME NEW i \in 2 .. len'
               PROVE  At(head', i - 1) = At(head, i - 2) /\ At(head', i - 1) # head'
    OBVIOUS
  <2>1. i - 1 \in 1 .. Capacity - 1
    BY <1>1, <1>2
  <2> DEFINE a == head' + (i - 1)
  <2>2. a \in Int /\ (a \in 0 .. Capacity - 1 \/ a \in Capacity .. Capacity + Capacity - 1)
    BY <1>2, <2>1
  <2>3. \/ a \in 0 .. Capacity - 1 /\ a % Capacity = a
        \/ a \in Capacity .. Capacity + Capacity - 1 /\ a % Capacity = a - Capacity
    <3> HIDE DEF a
    <3> QED
      BY <2>2, Wrap
  <2>4. At(head', i - 1) # head'
    BY <1>2, <2>1, <2>3 DEF At
  <2> DEFINE c == head + (i - 2)
  <2>5. c \in Int /\ (c \in 0 .. Capacity - 1 \/ c \in Capacity .. Capacity + Capacity - 1)
    BY <1>2, <2>1
  <2>6. \/ c \in 0 .. Capacity - 1 /\ c % Capacity = c
        \/ c \in Capacity .. Capacity + Capacity - 1 /\ c % Capacity = c - Capacity
    <3> HIDE DEF c
    <3> QED
      BY <2>5, Wrap
  <2>7. a = c \/ a = c + Capacity
    BY <1>1, <1>2, <2>1
  <2>8. a % Capacity = c % Capacity
    <3> HIDE DEF a, c
    <3> QED
      BY <2>2, <2>3, <2>5, <2>6, <2>7
  <2> QED
    BY <2>4, <2>8 DEF At
<1>5. <<v>> \in Seq(Byte) /\ Len(<<v>>) = 1 /\ <<v>>[1] = v
  OBVIOUS
<1>6. \A i \in 1 .. len' : Contents'[i] = IF i <= 1 THEN v ELSE Contents[i - 1]
  <2> SUFFICES ASSUME NEW i \in 1 .. len'
               PROVE  Contents'[i] = IF i <= 1 THEN v ELSE Contents[i - 1]
    OBVIOUS
  <2>1. Contents'[i] = buf'[At(head', i - 1)]
    BY ContentsWindowNext
  <2>2. CASE i = 1
    BY <1>1, <1>2, <1>3, <2>1, <2>2
  <2>3. CASE i > 1
    <3>1. i \in 2 .. len' /\ i - 1 \in 1 .. len
      BY <1>1, <1>2, <2>3
    <3>2. At(head, i - 2) \in Slot
      <4>1. i - 2 \in Int
        BY <3>1
      <4> QED
        BY <1>2, <4>1, AtInSlot
    <3>3. Contents'[i] = buf[At(head, i - 2)]
      BY <1>1, <1>2, <1>4, <2>1, <3>1, <3>2
    <3>4. Contents[i - 1] = buf[At(head, (i - 1) - 1)] /\ (i - 1) - 1 = i - 2
      BY <3>1, ContentsWindow
    <3> QED
      BY <2>3, <3>3, <3>4
  <2> QED
    BY <1>1, <1>2, <2>2, <2>3
<1>7. Contents' = <<v>> \o Contents
  <2>1. /\ <<v>> \o Contents \in Seq(Byte)
        /\ Len(<<v>> \o Contents) = len'
        /\ \A i \in 1 .. len' : (<<v>> \o Contents)[i] =
                                 IF i <= 1 THEN v ELSE Contents[i - 1]
    <3> HIDE DEF Contents
    <3>1. /\ <<v>> \o Contents \in Seq(Byte)
          /\ Len(<<v>> \o Contents) = Len(<<v>>) + Len(Contents)
          /\ \A i \in 1 .. Len(<<v>>) + Len(Contents) :
               (<<v>> \o Contents)[i] =
                 IF i <= Len(<<v>>) THEN <<v>>[i] ELSE Contents[i - Len(<<v>>)]
      BY <1>5, ContentsWindow, ConcatProperties
    <3>2. Len(<<v>>) + Len(Contents) = len'
      BY <1>1, <1>2, <1>5, ContentsWindow
    <3> QED
      BY <1>5, <3>1, <3>2
  <2> QED
    BY <1>6, <2>1, ContentsWindowNext, SeqEqual
<1>8. Queue!PushFrontOne(Contents, v) = <<v>> \o Contents
  BY <1>1, <1>2, ContentsWindow DEF Queue!PushFrontOne
<1> QED
  BY <1>1, <1>7, <1>8 DEF Queue!PushFront

(* The ring buffer of HostStreamState implements the bounded queue.        *)
THEOREM RingRefinesQueue == Spec => QueueSpec
<1>1. Init => Queue!Init
  <2> SUFFICES ASSUME Init PROVE Contents = <<>> /\ ret = NoByte
    BY DEF Queue!Init
  <2>1. TypeOK
    BY RingAssumption DEF Init, TypeOK, Slot
  <2> QED
    BY <2>1, ContentsWindow, EmptySeq DEF Init
<1>2. TypeOK /\ TypeOK' /\ [Next]_vars => [Queue!Next]_(Queue!vars)
  <2> SUFFICES ASSUME TypeOK, TypeOK', [Next]_vars
               PROVE  [Queue!Next]_(Queue!vars)
    OBVIOUS
  <2>1. CASE PopFront
    BY <2>1, PopRefines DEF Queue!Next
  <2>2. CASE PopFrontEmpty
    <3>1. Contents = <<>>
      BY <2>2, ContentsWindow, EmptySeq DEF PopFrontEmpty
    <3>2. Contents' = Contents
      BY <2>2 DEF PopFrontEmpty, Contents
    <3> QED
      BY <2>2, <3>1, <3>2 DEF PopFrontEmpty, Queue!PopEmpty, Queue!Next
  <2>3. ASSUME NEW data \in FeedData, PushBack(data)
        PROVE  Queue!Next
    BY <2>3, PushRefines DEF Queue!Next
  <2>4. ASSUME NEW v \in Byte, PushFrontOne(v)
        PROVE  Queue!Next
    BY <2>4, PushFrontRefines DEF Queue!Next
  <2>5. ASSUME NEW v \in Byte, PushFrontOneFull(v)
        PROVE  Queue!Next
    <3>1. Contents' = Contents
      BY <2>5 DEF PushFrontOneFull, Contents
    <3>2. Queue!PushFrontOne(Contents, v) = Contents
      BY <2>5, ContentsWindow DEF PushFrontOneFull, Queue!PushFrontOne
    <3>3. Queue!PushFront(v)
      BY <2>5, <3>1, <3>2 DEF PushFrontOneFull, Queue!PushFront
    <3> QED
      BY <3>3 DEF Queue!Next
  <2>6. CASE ResetWithAddr
    <3>1. Contents' = <<>>
      BY <2>6, ContentsWindowNext, EmptySeq DEF ResetWithAddr
    <3> QED
      BY <2>6, <3>1 DEF ResetWithAddr, Queue!Clear, Queue!Next
  <2>7. CASE UNCHANGED vars
    <3>1. Contents' = Contents /\ ret' = ret
      BY <2>7 DEF vars, Contents
    <3> QED
      BY <3>1 DEF Queue!vars
  <2> QED
    BY <2>1, <2>2, <2>3, <2>4, <2>5, <2>6, <2>7 DEF Next
<1> QED
  BY <1>1, <1>2, RingTypeOK, PTL DEF Spec, QueueSpec, Queue!Spec

===============================================================================
