--------------------------- MODULE RxQueueProofs ---------------------------
(***************************************************************************)
(* Proofs about RxQueue: what mt7697q_read() returns, that the ring is     *)
(* sound, and that messages reach rx_fcn whole, once and in order          *)
(* (RxQueue refines Channel), for every size of the ring, all lengths of   *)
(* messages and any number of failures.                                    *)
(***************************************************************************)
EXTENDS RxQueue, SequenceTheorems, TLAPS

(***************************************************************************)
(* Arithmetic of the ring.                                                 *)
(***************************************************************************)
LEMMA DiffType ==
    ASSUME NEW a \in Offsets, NEW b \in Offsets
    PROVE  Diff(a, b) \in 0 .. Words - 1
BY RxAssumption DEF Diff, Offsets

LEMMA SlotType ==
    ASSUME NEW a \in Offsets, NEW i \in 0 .. Words - 1
    PROVE  Slot(a, i) \in Offsets
BY RxAssumption DEF Slot, Offsets

LEMMA SlotSlot ==
    ASSUME NEW a \in Offsets, NEW i \in 0 .. Words - 1, NEW j \in 0 .. Words - 1,
           i + j \in 0 .. Words - 1
    PROVE  Slot(Slot(a, i), j) = Slot(a, i + j)
BY RxAssumption DEF Slot, Offsets

(* Moving the end of a stretch on, or its beginning.                       *)
LEMMA DiffEnd ==
    ASSUME NEW a \in Offsets, NEW b \in Offsets, NEW n \in Nat,
           Diff(a, b) + n <= Words - 1
    PROVE  Diff(a, Slot(b, n)) = Diff(a, b) + n
BY RxAssumption DEF Diff, Slot, Offsets

LEMMA DiffBegin ==
    ASSUME NEW a \in Offsets, NEW b \in Offsets, NEW n \in Nat, n <= Diff(a, b)
    PROVE  Diff(Slot(a, n), b) = Diff(a, b) - n
BY RxAssumption DEF Diff, Slot, Offsets

LEMMA DiffSelf ==
    ASSUME NEW a \in Offsets
    PROVE  Diff(a, a) = 0
BY RxAssumption DEF Diff, Offsets

(***************************************************************************)
(* mt7697q_read() of words that are there: in ring order, wrapping.        *)
(***************************************************************************)
LEMMA ReadIsExact ==
    ASSUME rd \in Offsets, wr \in Offsets, NEW n \in Nat, n <= NumWords
    PROVE  /\ FirstPart(n) + SecondPart(n) = n
           /\ ReadOffset(n) = Slot(rd, n)
           /\ ReadWords(n) = [i \in 1 .. n |-> mem[Slot(rd, i - 1)]]
<1>1. FirstPart(n) \in 0 .. n /\ SecondFrom(n) \in Int
      /\ FirstPart(n) + SecondPart(n) = n /\ ReadOffset(n) = Slot(rd, n)
  BY RxAssumption
  DEF FirstPart, SecondFrom, SecondPart, ReadOffset, Slot, Least, NumWords, Diff, Offsets
<1>2. ASSUME NEW i \in 1 .. n
      PROVE  (IF i <= FirstPart(n) THEN mem[rd + i - 1]
                                   ELSE mem[SecondFrom(n) + i - FirstPart(n) - 1])
               = mem[Slot(rd, i - 1)]
  <2>1. CASE i <= FirstPart(n)
    <3>1. rd + i - 1 = Slot(rd, i - 1)
      BY <2>1, RxAssumption DEF FirstPart, Slot, Least, Offsets
    <3>2. QED BY <3>1, <2>1
  <2>2. CASE i > FirstPart(n)
    <3>1. SecondFrom(n) + i - FirstPart(n) - 1 = Slot(rd, i - 1)
      BY <2>2, RxAssumption
      DEF FirstPart, SecondFrom, Slot, Least, NumWords, Diff, Offsets
    <3>2. ~(i <= FirstPart(n))  BY <2>2, <1>1
    <3>3. QED BY <3>1, <3>2
  <2>3. QED BY <2>1, <2>2, <1>1
<1>3. ReadWords(n) = [i \in 1 .. n |-> mem[Slot(rd, i - 1)]]
  BY <1>1, <1>2 DEF ReadWords
<1>4. QED BY <1>1, <1>3

(* Going the distance between two offsets leads from one to the other.     *)
LEMMA SlotDiff ==
    ASSUME NEW a \in Offsets, NEW b \in Offsets
    PROVE  Slot(a, Diff(a, b)) = b
BY RxAssumption DEF Diff, Slot, Offsets

LEMMA DiffSlot ==
    ASSUME NEW a \in Offsets, NEW i \in 0 .. Words - 1
    PROVE  Diff(a, Slot(a, i)) = i
BY RxAssumption DEF Diff, Slot, Offsets

(***************************************************************************)
(* The inductive invariant of the ring: types, order of the offsets, and   *)
(* the words between them.                                                 *)
(***************************************************************************)
RingTypes ==
    /\ mem \in [Offsets -> Word \cup {<<>>}]
    /\ wrOffset \in Offsets /\ rdOffset \in Offsets
    /\ wr \in Offsets /\ rd \in Offsets
    /\ stream \in Seq(Word) /\ written \in 0 .. Len(stream)
    /\ taken \in 0 .. written

(* The headers at hand: of what ReadHeader has read.                       *)
HdrType == hdr \in Seq(Word)

Ring == RingTypes /\ HdrType /\ RingSound

(* A message is a sequence of words.                                       *)
LEMMA MessageType ==
    ASSUME NEW k \in 1 .. MaxMessages, NEW n \in Lens
    PROVE  /\ MessageOf(k, n) \in Seq(Word)
           /\ Len(MessageOf(k, n)) = HDR + n
           /\ \A i \in 1 .. HDR + n :
                 MessageOf(k, n)[i] = [msg |-> k, at |-> i, len |-> n]
<1>1. n \in Nat /\ HDR + n \in Nat  BY RxAssumption DEF HDR
<1>2. \A i \in 1 .. HDR + n : [msg |-> k, at |-> i, len |-> n] \in Word
  BY <1>1 DEF Word
<1>3. QED BY <1>1, <1>2 DEF MessageOf

(* What is read of the words that are there is what comes next in the      *)
(* stream.                                                                 *)
LEMMA ReadIsNext ==
    ASSUME Ring, NEW n \in Nat, n <= NumWords
    PROVE  /\ n <= written - taken
           /\ ReadWords(n) = [i \in 1 .. n |-> stream[taken + i]]
           /\ FirstPart(n) + SecondPart(n) = n
           /\ ReadOffset(n) = Slot(rd, n)
<1>1. NumWords \in 0 .. Words - 1 /\ Diff(wr, wrOffset) \in 0 .. Words - 1
  BY DiffType DEF Ring, RingTypes, NumWords
<1>d. Diff(rd, wrOffset) \in Nat
  <2>1. Diff(rd, wrOffset) \in 0 .. Words - 1
    BY DiffType DEF Ring, RingTypes
  <2> QED BY <2>1
<1>2. n <= Diff(rd, wrOffset)
  BY <1>1, DiffType DEF Ring, RingTypes, RingSound, OffsetsOrdered, NumWords
<1>3. \A i \in 1 .. n : mem[Slot(rd, i - 1)] = stream[taken + i]
  <2> TAKE i \in 1 .. n
  <2>1. i - 1 \in 0 .. Diff(rd, wrOffset) - 1
    BY <1>2, <1>d
  <2>2. mem[Slot(rd, i - 1)] = stream[taken + (i - 1) + 1]
    BY <2>1 DEF Ring, RingSound, NothingOverwritten
  <2>3. taken + (i - 1) + 1 = taken + i  BY DEF Ring, RingTypes
  <2>4. QED BY <2>2, <2>3
<1>4. QED BY <1>2, <1>3, ReadIsExact DEF Ring, RingTypes, RingSound, OffsetsOrdered

(* Reading n words that are there keeps the ring sound.                    *)
LEMMA ReadKeepsRing ==
    ASSUME Ring, NEW n \in Nat, n <= NumWords,
           rd' = Slot(rd, n), taken' = taken + n, HdrType',
           UNCHANGED <<slaveVars, rdOffset, wr>>
    PROVE  Ring'
<1>1. /\ NumWords \in 0 .. Words - 1 /\ Diff(wr, wrOffset) \in 0 .. Words - 1
      /\ Diff(rdOffset, rd) \in 0 .. Words - 1 /\ Diff(rd, wrOffset) \in 0 .. Words - 1
      /\ Diff(rdOffset, wrOffset) \in 0 .. Words - 1
  BY DiffType DEF Ring, RingTypes, NumWords
<1>2. n <= Diff(rd, wrOffset) /\ n <= Diff(rd, wr) /\ n \in 0 .. Words - 1
  BY <1>1, RxAssumption DEF Ring, RingSound, OffsetsOrdered, NumWords
<1>3. rd' \in Offsets
  BY <1>2, SlotType DEF Ring, RingTypes
<1>4. /\ Diff(rd', wrOffset) = Diff(rd, wrOffset) - n
      /\ Diff(rd', wr) = Diff(rd, wr) - n
  BY <1>2, DiffBegin DEF Ring, RingTypes
<1>5. Diff(rdOffset, rd') = Diff(rdOffset, rd) + n
  BY <1>1, <1>2, DiffEnd, RxAssumption DEF Ring, RingTypes, RingSound, OffsetsOrdered
<1>6. taken' \in 0 .. written
  BY <1>1, <1>2 DEF Ring, RingTypes, RingSound, OffsetsOrdered
<1>7. RingTypes'
  BY <1>3, <1>6 DEF Ring, RingTypes, slaveVars
<1>8. OffsetsOrdered'
  <2> DEFINE a == Diff(rdOffset, rd)   b == Diff(rd, wrOffset)
             c == Diff(rdOffset, wrOffset)   d == Diff(rd, wr)
             e == Diff(wr, wrOffset)
  <2>0. /\ a \in Int /\ b \in Int /\ c \in Int /\ d \in Int /\ e \in Int
        /\ a + b = c /\ d + e = b /\ b = written - taken
        /\ written \in Int /\ taken \in Int
    BY <1>1 DEF Ring, RingTypes, RingSound, OffsetsOrdered, NumWords
  <2> HIDE DEF a, b, c, d, e
  <2>a. /\ (a + n) + (b - n) = c
        /\ (d - n) + e = b - n
        /\ b - n = written - (taken + n)
    BY <2>0
  <2>1. /\ Diff(rdOffset, rd') + Diff(rd', wrOffset) = Diff(rdOffset, wrOffset)
        /\ Diff(rd', wr) + Diff(wr, wrOffset) = Diff(rd', wrOffset)
        /\ Diff(rd', wrOffset) = written - taken'
    BY <2>a, <1>4, <1>5 DEF a, b, c, d, e
  <2>2. QED BY <2>1 DEF OffsetsOrdered, slaveVars, Diff
<1>9. NothingOverwritten'
  <2>0. UNCHANGED <<mem, wrOffset, stream>>  BY DEF slaveVars
  <2>1. ASSUME NEW i \in 0 .. Diff(rd', wrOffset) - 1
        PROVE  mem[Slot(rd', i)] = stream[taken' + i + 1]
    <3>1. n + i \in 0 .. Diff(rd, wrOffset) - 1 /\ n + i \in 0 .. Words - 1
          /\ i \in 0 .. Words - 1
      BY <1>1, <1>2, <1>4, RxAssumption
    <3>2. Slot(rd', i) = Slot(rd, n + i)
      BY <3>1, <1>2, SlotSlot DEF Ring, RingTypes
    <3>3. mem[Slot(rd, n + i)] = stream[taken + (n + i) + 1]
      BY <3>1 DEF Ring, RingSound, NothingOverwritten
    <3>4. taken + (n + i) + 1 = taken' + i + 1
      BY <3>1 DEF Ring, RingTypes
    <3>5. QED BY <3>2, <3>3, <3>4
  <2>2. QED BY <2>0, <2>1 DEF NothingOverwritten, Diff, Slot
<1>10. QED BY <1>7, <1>8, <1>9 DEF Ring, RingSound

(* What the slave writes comes behind what is there, and over nothing that *)
(* has not been read.                                                      *)
LEMMA WriteKeepsRing ==
    ASSUME Ring, NEW n \in 1 .. Capacity, SlaveWrites(n)
    PROVE  Ring'
<1>0. UNCHANGED <<rdOffset, wr, rd, stream, taken, hdr>>
  BY DEF SlaveWrites, ringVars
<1>1. /\ Diff(rdOffset, rd) \in 0 .. Words - 1
      /\ Diff(rd, wrOffset) \in 0 .. Words - 1
      /\ Diff(rdOffset, wrOffset) \in 0 .. Words - 1
      /\ Diff(wr, wrOffset) \in 0 .. Words - 1
      /\ Diff(rd, wr) \in 0 .. Words - 1
  BY DiffType DEF Ring, RingTypes
<1>2. /\ Diff(rdOffset, rd) + Diff(rd, wrOffset) = Diff(rdOffset, wrOffset)
      /\ Diff(rd, wr) + Diff(wr, wrOffset) = Diff(rd, wrOffset)
      /\ Diff(rd, wrOffset) = written - taken
  BY DEF Ring, RingSound, OffsetsOrdered
<1>3. /\ n \in Nat /\ n >= 1 /\ n \in 0 .. Words - 1
      /\ Diff(rdOffset, wrOffset) + n <= Words - 1
      /\ Diff(rd, wrOffset) + n <= Words - 1
      /\ Diff(wr, wrOffset) + n <= Words - 1
  BY <1>1, <1>2, RxAssumption DEF SlaveWrites, Capacity
<1>4. /\ Diff(rdOffset, wrOffset') = Diff(rdOffset, wrOffset) + n
      /\ Diff(rd, wrOffset') = Diff(rd, wrOffset) + n
      /\ Diff(wr, wrOffset') = Diff(wr, wrOffset) + n
  BY <1>3, DiffEnd DEF SlaveWrites, Ring, RingTypes
<1>5. ASSUME NEW i \in 0 .. n - 1
      PROVE  written + i + 1 \in 1 .. Len(stream)
  BY <1>3 DEF SlaveWrites, Ring, RingTypes
<1>6. RingTypes'
  <2>1. wrOffset' \in Offsets  BY <1>3, SlotType DEF SlaveWrites, Ring, RingTypes
  <2>2. written' \in 0 .. Len(stream) /\ taken \in 0 .. written'
    BY <1>3 DEF SlaveWrites, Ring, RingTypes
  <2>3. mem' \in [Offsets -> Word \cup {<<>>}]
    <3>1. ASSUME NEW s \in Offsets
          PROVE  (IF Diff(wrOffset, s) < n THEN stream[written + Diff(wrOffset, s) + 1]
                                           ELSE mem[s]) \in Word \cup {<<>>}
      <4>1. CASE Diff(wrOffset, s) < n
        <5>1. Diff(wrOffset, s) \in 0 .. n - 1
          <6>1. Diff(wrOffset, s) \in 0 .. Words - 1  BY DiffType DEF Ring, RingTypes
          <6>2. QED BY <6>1, <4>1, <1>3, RxAssumption
        <5>2. written + Diff(wrOffset, s) + 1 \in 1 .. Len(stream)  BY <5>1, <1>5
        <5>3. stream[written + Diff(wrOffset, s) + 1] \in Word
          BY <5>2 DEF Ring, RingTypes
        <5>4. QED BY <5>3, <4>1
      <4>2. CASE ~(Diff(wrOffset, s) < n)
        BY <4>2 DEF Ring, RingTypes
      <4>3. QED BY <4>1, <4>2
    <3>2. QED BY <3>1 DEF SlaveWrites, Offsets
  <2>4. QED BY <1>0, <2>1, <2>2, <2>3 DEF Ring, RingTypes
<1>7. OffsetsOrdered'
  <2>1. written' = written + n  BY DEF SlaveWrites
  <2> DEFINE a == Diff(rdOffset, rd)   b == Diff(rd, wrOffset)
             c == Diff(rdOffset, wrOffset)   d == Diff(rd, wr)
             e == Diff(wr, wrOffset)
  <2>2. /\ a \in Int /\ b \in Int /\ c \in Int /\ d \in Int /\ e \in Int
        /\ a + b = c /\ d + e = b /\ b = written - taken
        /\ written \in Int /\ taken \in Int
    BY <1>1, <1>2 DEF Ring, RingTypes
  <2> HIDE DEF a, b, c, d, e
  <2>3. /\ a + (b + n) = c + n
        /\ d + (e + n) = b + n
        /\ b + n = (written + n) - taken
    BY <2>2, <1>3
  <2>4. /\ Diff(rdOffset, rd) + Diff(rd, wrOffset') = Diff(rdOffset, wrOffset')
        /\ Diff(rd, wr) + Diff(wr, wrOffset') = Diff(rd, wrOffset')
        /\ Diff(rd, wrOffset') = written' - taken
    BY <2>1, <2>3, <1>4 DEF a, b, c, d, e
  <2>5. QED BY <1>0, <2>4 DEF OffsetsOrdered, Diff
<1>8. NothingOverwritten'
  <2>1. ASSUME NEW i \in 0 .. Diff(rd, wrOffset') - 1
        PROVE  mem'[Slot(rd, i)] = stream[taken + i + 1]
    <3>i. i \in 0 .. Words - 1
      BY <1>1, <1>3, <1>4, RxAssumption
    <3>0. i \in 0 .. Words - 1 /\ Slot(rd, i) \in Offsets
      BY <3>i, SlotType DEF Ring, RingTypes
    <3>1. CASE i < Diff(rd, wrOffset)
      <4>1. Diff(wrOffset, Slot(rd, i)) >= n
        BY <3>0, <3>1, <1>3, RxAssumption DEF Ring, RingTypes, Diff, Slot, Offsets
      <4>2. mem'[Slot(rd, i)] = mem[Slot(rd, i)]
        <5>1. Diff(wrOffset, Slot(rd, i)) \in 0 .. Words - 1
          BY <3>0, DiffType DEF Ring, RingTypes
        <5>2. ~(Diff(wrOffset, Slot(rd, i)) < n)
          BY <5>1, <4>1, <1>3, RxAssumption
        <5>3. QED BY <3>0, <5>2 DEF SlaveWrites, Offsets
      <4>3. i \in 0 .. Diff(rd, wrOffset) - 1
        BY <3>0, <3>1, <1>1, RxAssumption
      <4>4. QED BY <4>2, <4>3 DEF Ring, RingSound, NothingOverwritten
    <3>2. CASE i >= Diff(rd, wrOffset)
      <4> DEFINE j == i - Diff(rd, wrOffset)
      <4>1. j \in 0 .. n - 1 /\ j \in 0 .. Words - 1
            /\ Diff(rd, wrOffset) + j = i
        BY <3>0, <3>2, <1>1, <1>3, <1>4, RxAssumption
      <4>2. Slot(rd, i) = Slot(wrOffset, j)
        BY <4>1, <3>0, <1>1, SlotSlot, SlotDiff DEF Ring, RingTypes
      <4>3. Diff(wrOffset, Slot(rd, i)) = j
        BY <4>1, <4>2, DiffSlot DEF Ring, RingTypes
      <4>4. mem'[Slot(rd, i)] = stream[written + j + 1]
        BY <3>0, <4>1, <4>3, <1>3 DEF SlaveWrites, Offsets
      <4>5. written + j + 1 = taken + i + 1
        BY <3>0, <1>1, <1>2 DEF Ring, RingTypes
      <4>6. QED BY <4>4, <4>5
    <3>3. QED BY <3>0, <3>1, <3>2, <1>1
  <2>2. QED BY <1>0, <2>1 DEF NothingOverwritten, Diff, Slot
<1>9. HdrType'  BY <1>0 DEF Ring, HdrType
<1>10. QED BY <1>6, <1>7, <1>8, <1>9 DEF Ring, RingSound

-----------------------------------------------------------------------------
(***************************************************************************)
(* Where the messages lie in the stream, and where in it the driver is:    *)
(* between two messages, or behind the header it keeps, which is that of   *)
(* the next message.                                                       *)
(***************************************************************************)
Begin(k) == IF k <= Len(sent) THEN starts[k] ELSE Len(stream)

Layout ==
    /\ sent \in Seq(Message) /\ Len(sent) <= MaxMessages
    /\ starts \in Seq(Nat) /\ Len(starts) = Len(sent)
    /\ Begin(1) = 0
    /\ \A k \in 1 .. Len(sent) : \E n \in Lens :
          /\ sent[k] = MessageOf(k, n)
          /\ Begin(k + 1) = starts[k] + HDR + n
          /\ Begin(k + 1) <= Len(stream)
          /\ \A i \in 1 .. HDR + n : stream[starts[k] + i] = sent[k][i]

Position ==
    /\ got \in Seq(Seq(Word)) /\ Len(got) <= Len(sent)
    /\ \A k \in 1 .. Len(got) : got[k] = sent[k]
    /\ hdr = <<>> => taken = Begin(Len(got) + 1)
    /\ hdr # <<>> =>
          /\ Len(got) < Len(sent)
          /\ taken = starts[Len(got) + 1] + HDR
          /\ Len(hdr) = HDR
          /\ \A i \in 1 .. HDR : hdr[i] = sent[Len(got) + 1][i]
    /\ pc = "body" => hdr # <<>>
    /\ pc # "stray"

(* Once it has lost its place the driver takes other steps with the ring.  *)
Adrift ==
    /\ got \in Seq(Seq(Word)) /\ hdr = <<>>
    /\ pc \in {"idle", "clear", "pull", "stray"}

InPlace == Ring /\ Layout /\ Position

IInv == Ring /\ Layout /\ (IF astray THEN Adrift ELSE Position)

LEMMA InitInv == ASSUME Init PROVE IInv
<1>0. 0 \in Offsets /\ Diff(0, 0) = 0
  BY RxAssumption, DiffSelf DEF Offsets, HDR
<1>1. Ring
  <2>1. mem \in [Offsets -> Word \cup {<<>>}]  BY DEF Init, Offsets
  <2>2. RingTypes /\ HdrType
    BY <1>0, <2>1 DEF Init, RingTypes, HdrType
  <2>3. RingSound
    BY <1>0 DEF Init, RingSound, OffsetsOrdered, NothingOverwritten
  <2>4. QED BY <2>2, <2>3 DEF Ring
<1>2. Layout
  <2>1. MaxMessages \in Nat  BY RxAssumption
  <2>2. QED BY <2>1 DEF Init, Layout, Begin
<1>4. Position
  BY DEF Init, Position, Begin
<1>3. QED BY <1>1, <1>2, <1>4 DEF IInv, Init

(* A message is sent: it is laid down behind the others.                   *)
LEMMA SendsKeeps ==
    ASSUME IInv, NEW n \in Lens, SlaveSends(n)
    PROVE  IInv'
<1> DEFINE m == MessageOf(Len(sent) + 1, n)
<1>0. /\ UNCHANGED <<mem, wrOffset, rdOffset, wr, rd, written, taken, hdr, astray, got, pc>>
      /\ sent' = Append(sent, m) /\ stream' = stream \o m
      /\ starts' = Append(starts, Len(stream))
      /\ Len(sent) + 1 \in 1 .. MaxMessages
  BY RxAssumption DEF SlaveSends, ringVars, IInv, Layout
<1>1. /\ m \in Seq(Word) /\ Len(m) = HDR + n /\ n \in Nat
      /\ m \in Message
  BY <1>0, MessageType, RxAssumption DEF Message
<1> HIDE DEF m
<1>2. /\ sent \in Seq(Message) /\ starts \in Seq(Nat) /\ Len(starts) = Len(sent)
      /\ stream \in Seq(Word) /\ Len(sent) \in Nat /\ Len(stream) \in Nat
      /\ written \in 0 .. Len(stream) /\ taken \in 0 .. written
  BY DEF IInv, Layout, Ring, RingTypes
<1>3. /\ stream' \in Seq(Word) /\ Len(stream') = Len(stream) + HDR + n
      /\ \A i \in 1 .. Len(stream) : stream'[i] = stream[i]
      /\ \A i \in 1 .. HDR + n : stream'[Len(stream) + i] = m[i]
  <2>1. HDR + n \in Nat  BY <1>1 DEF HDR
  <2>2. stream' \in Seq(Word) /\ Len(stream') = Len(stream) + Len(m)
    BY <1>0, <1>1, <1>2, ConcatProperties
  <2>3. \A i \in 1 .. Len(stream) : stream'[i] = stream[i]
    BY <1>0, <1>1, <1>2
  <2>4. \A i \in 1 .. Len(m) : stream'[Len(stream) + i] = m[i]
    BY <1>0, <1>1, <1>2
  <2>5. QED BY <2>1, <2>2, <2>3, <2>4, <1>1, <1>2 DEF HDR
<1>4. /\ Len(sent') = Len(sent) + 1 /\ Len(starts') = Len(sent) + 1
      /\ \A k \in 1 .. Len(sent) : sent'[k] = sent[k] /\ starts'[k] = starts[k]
      /\ sent'[Len(sent) + 1] = m /\ starts'[Len(sent) + 1] = Len(stream)
      /\ sent' \in Seq(Message) /\ starts' \in Seq(Nat)
  BY <1>0, <1>1, <1>2
<1>5. \A k \in 1 .. Len(sent) + 1 : Begin(k)' = Begin(k)
  BY <1>2, <1>4 DEF Begin
<1>6. Ring'
  <2>1. RingTypes'
    BY <1>0, <1>2, <1>3 DEF IInv, Ring, RingTypes, HDR
  <2>2. OffsetsOrdered'
    BY <1>0 DEF IInv, Ring, RingSound, OffsetsOrdered, Diff
  <2>3. NothingOverwritten'
    <3>1. ASSUME NEW i \in 0 .. Diff(rd, wrOffset) - 1
          PROVE  mem[Slot(rd, i)] = stream'[taken + i + 1]
      <4>1. mem[Slot(rd, i)] = stream[taken + i + 1]
        BY DEF IInv, Ring, RingSound, NothingOverwritten
      <4>2. taken + i + 1 \in 1 .. Len(stream)
        BY <1>2 DEF IInv, Ring, RingSound, OffsetsOrdered
      <4>3. QED BY <4>1, <4>2, <1>3
    <3>2. QED BY <3>1, <1>0 DEF NothingOverwritten, Diff, Slot
  <2>4. HdrType'  BY <1>0 DEF IInv, Ring, HdrType
  <2>5. QED BY <2>1, <2>2, <2>3, <2>4 DEF Ring, RingSound
<1>7. Layout'
  <2>1. Begin(1)' = 0
    BY <1>2, <1>5 DEF IInv, Layout
  <2>2. ASSUME NEW k \in 1 .. Len(sent')
        PROVE  \E p \in Lens :
                  /\ sent'[k] = MessageOf(k, p)
                  /\ Begin(k + 1)' = starts'[k] + HDR + p
                  /\ Begin(k + 1)' <= Len(stream')
                  /\ \A i \in 1 .. HDR + p : stream'[starts'[k] + i] = sent'[k][i]
    <3>1. CASE k \in 1 .. Len(sent)
      <4>1. PICK p \in Lens :
                  /\ sent[k] = MessageOf(k, p)
                  /\ Begin(k + 1) = starts[k] + HDR + p
                  /\ Begin(k + 1) <= Len(stream)
                  /\ \A i \in 1 .. HDR + p : stream[starts[k] + i] = sent[k][i]
        BY <3>1 DEF IInv, Layout
      <4>2. p \in Nat /\ starts[k] \in Nat /\ sent'[k] = sent[k] /\ starts'[k] = starts[k]
        <5>1. p \in Nat  BY RxAssumption
        <5>2. starts[k] \in Nat  BY <3>1, <1>2
        <5>3. QED BY <5>1, <5>2, <3>1, <1>4
      <4>3. Begin(k + 1)' = Begin(k + 1)  BY <3>1, <1>2, <1>5
      <4>4. starts[k] + HDR + p <= Len(stream)
        BY <4>1
      <4>5. Begin(k + 1)' <= Len(stream')
        <5>1. Begin(k + 1)' = starts[k] + HDR + p  BY <4>1, <4>3
        <5>2. Len(stream') = Len(stream) + HDR + n /\ Len(stream) \in Nat /\ n \in Nat
          BY <1>1, <1>2, <1>3
        <5>3. p \in Nat /\ starts[k] \in Nat  BY <4>2
        <5>4. QED BY <5>1, <5>2, <5>3, <4>4 DEF HDR
      <4>6. \A i \in 1 .. HDR + p : stream'[starts'[k] + i] = sent'[k][i]
        <5> TAKE i \in 1 .. HDR + p
        <5>1. starts[k] + i \in 1 .. Len(stream)
          <6>1. Len(stream) \in Nat /\ p \in Nat /\ starts[k] \in Nat  BY <4>2, <1>2
          <6>2. QED BY <6>1, <4>4 DEF HDR
        <5>2. QED BY <5>1, <4>1, <4>2, <1>3
      <4>7. QED BY <4>1, <4>2, <4>3, <4>5, <4>6
    <3>2. CASE k = Len(sent) + 1
      <4>1. Begin(k + 1)' = Len(stream')
        BY <3>2, <1>2, <1>4 DEF Begin
      <4>2. sent'[k] = MessageOf(k, n)  BY <3>2, <1>4 DEF m
      <4>3. Begin(k + 1)' = starts'[k] + HDR + n
        BY <3>2, <4>1, <1>3, <1>4
      <4>4. \A i \in 1 .. HDR + n : stream'[starts'[k] + i] = sent'[k][i]
        BY <3>2, <1>3, <1>4
      <4>5. Begin(k + 1)' <= Len(stream')
        BY <4>1, <1>1, <1>2, <1>3 DEF HDR
      <4>6. QED BY <4>2, <4>3, <4>4, <4>5
    <3>3. k \in 1 .. Len(sent) \/ k = Len(sent) + 1  BY <1>2, <1>4
    <3>4. QED BY <3>1, <3>2, <3>3
  <2>3. Len(sent') <= MaxMessages  BY <1>0, <1>4
  <2>4. QED BY <2>1, <2>2, <2>3, <1>4 DEF Layout
<1>8. ASSUME ~astray PROVE Position'
  <2>1. Len(got) \in 0 .. Len(sent)
    BY <1>2, <1>8 DEF IInv, Position
  <2>2. Begin(Len(got) + 1)' = Begin(Len(got) + 1)
    BY <2>1, <1>2, <1>5, <1>0 DEF Begin
  <2>3. /\ got' \in Seq(Seq(Word)) /\ Len(got') <= Len(sent')
        /\ \A k \in 1 .. Len(got') : got'[k] = sent'[k]
    BY <1>8, <2>1, <1>0, <1>2, <1>4 DEF IInv, Position
  <2>4. hdr' = <<>> => taken' = Begin(Len(got) + 1)'
    BY <1>8, <2>2, <1>0 DEF IInv, Position
  <2>5. hdr' # <<>> =>
          /\ Len(got') < Len(sent')
          /\ taken' = starts'[Len(got') + 1] + HDR
          /\ Len(hdr') = HDR
          /\ \A i \in 1 .. HDR : hdr'[i] = sent'[Len(got') + 1][i]
    <3>1. SUFFICES ASSUME hdr # <<>> PROVE Len(got) + 1 \in 1 .. Len(sent)
      BY <1>8, <1>0, <1>2, <1>4, <2>1 DEF IInv, Position
    <3>2. QED BY <1>8, <3>1, <2>1, <1>2 DEF IInv, Position
  <2>6. QED BY <1>8, <2>3, <2>4, <2>5, <1>0 DEF IInv, Position
<1>9. QED BY <1>0, <1>6, <1>7, <1>8 DEF IInv, Adrift

(* A function on the first n numbers is a sequence.                        *)
LEMMA FunctionIsSeq ==
    ASSUME NEW S, NEW n \in Nat, NEW f \in [1 .. n -> S]
    PROVE  f \in Seq(S) /\ Len(f) = n
<1>1. f \in Seq(S)  BY SeqDef
<1>2. DOMAIN f = 1 .. n  OBVIOUS
<1>3. QED BY <1>1, <1>2, LenProperties

(* The header that is read is that of the next message.                    *)
LEMMA HeaderKeeps ==
    ASSUME InPlace, ReadHeader
    PROVE  InPlace'
<1> DEFINE k == Len(got) + 1
<1>0. /\ hdr = <<>> /\ pc = "while" /\ pc' = "body" /\ HDR \in Nat /\ HDR <= NumWords
      /\ hdr' = ReadWords(HDR) /\ taken' = taken + Len(hdr') /\ rd' = ReadOffset(HDR)
      /\ UNCHANGED <<slaveVars, rdOffset, wr, got>>
      /\ UNCHANGED <<stream, written, sent, starts>>
  <2>1. NumWords \in 0 .. Words - 1
    BY DiffType DEF InPlace, Ring, RingTypes, NumWords
  <2>2. QED BY <2>1, RxAssumption DEF ReadHeader, HDR, slaveVars
<1>1. /\ HDR <= written - taken
      /\ ReadWords(HDR) = [i \in 1 .. HDR |-> stream[taken + i]]
      /\ ReadOffset(HDR) = Slot(rd, HDR)
  BY <1>0, ReadIsNext DEF InPlace
<1>2. /\ taken \in Nat /\ written \in Nat /\ Len(stream) \in Nat
      /\ taken + HDR <= Len(stream) /\ stream \in Seq(Word)
      /\ Len(got) \in Nat /\ Len(sent) \in Nat /\ Len(got) <= Len(sent)
  BY <1>0, <1>1 DEF InPlace, Ring, RingTypes, Position, Layout
<1>3. \A i \in 1 .. HDR : stream[taken + i] \in Word
  BY <1>2 DEF HDR
<1>4. /\ hdr' \in Seq(Word) /\ Len(hdr') = HDR
      /\ \A i \in 1 .. HDR : hdr'[i] = stream[taken + i]
  <2>1. hdr' = [i \in 1 .. HDR |-> stream[taken + i]]  BY <1>0, <1>1
  <2>2. hdr' \in [1 .. HDR -> Word]  BY <2>1, <1>3
  <2>3. QED BY <2>1, <2>2, <1>0, FunctionIsSeq
<1>5. Ring'
  BY <1>0, <1>1, <1>4, ReadKeepsRing DEF InPlace, HdrType
<1>6. k \in 1 .. Len(sent) /\ taken = starts[k]
  <2>1. taken = Begin(k)  BY <1>0 DEF InPlace, Position
  <2>2. taken < Len(stream)  BY <1>2 DEF HDR
  <2>3. k <= Len(sent)  BY <2>1, <2>2, <1>2 DEF Begin
  <2>4. QED BY <2>1, <2>3, <1>2 DEF Begin
<1>7. PICK n \in Lens : \A i \in 1 .. HDR + n : stream[starts[k] + i] = sent[k][i]
  BY <1>6 DEF InPlace, Layout
<1>8. \A i \in 1 .. HDR : hdr'[i] = sent[k][i]
  <2>1. n \in Nat  BY RxAssumption
  <2>2. QED BY <2>1, <1>4, <1>6, <1>7 DEF HDR
<1>9. Layout'  BY <1>0 DEF InPlace, Layout, Begin
<1>10. hdr' # <<>>
  <2>1. Len(hdr') # 0  BY <1>4 DEF HDR
  <2>2. QED BY <2>1
<1>11. Position'
  <2>1. /\ got' \in Seq(Seq(Word)) /\ Len(got') <= Len(sent')
        /\ \A j \in 1 .. Len(got') : got'[j] = sent'[j]
    BY <1>0 DEF InPlace, Position
  <2>2. /\ Len(got') < Len(sent')
        /\ taken' = starts'[Len(got') + 1] + HDR
        /\ Len(hdr') = HDR
        /\ \A i \in 1 .. HDR : hdr'[i] = sent'[Len(got') + 1][i]
    BY <1>0, <1>2, <1>4, <1>6, <1>8
  <2>3. pc' = "body"  BY <1>0
  <2>4. QED BY <2>1, <2>2, <2>3, <1>10 DEF Position
<1>12. QED BY <1>5, <1>9, <1>11 DEF InPlace

(* What rx_fcn is given is the next message.                               *)
LEMMA RxFcnIsNext ==
    ASSUME InPlace, RxFcn
    PROVE  /\ InPlace'
           /\ Len(got) < Len(sent)
           /\ got' = Append(got, sent[Len(got) + 1])
           /\ UNCHANGED sent
<1>k. PICK k \in Nat : k = Len(got) + 1  BY DEF InPlace, Position
<1>0. /\ hdr # <<>> /\ pc = "body" /\ pc' = "next" /\ hdr' = <<>>
      /\ got' = Append(got, hdr \o ReadWords(Req))
      /\ rd' = ReadOffset(Req) /\ taken' = taken + FirstPart(Req) + SecondPart(Req)
      /\ UNCHANGED <<slaveVars, rdOffset, wr>>
      /\ UNCHANGED <<stream, written, sent, starts>>
  BY DEF RxFcn, InPlace, Position, slaveVars
<1>1. /\ got \in Seq(Seq(Word)) /\ Len(got) \in Nat /\ Len(sent) \in Nat
      /\ Len(got) < Len(sent) /\ k \in 1 .. Len(sent)
      /\ taken = starts[k] + HDR /\ starts[k] \in Nat
      /\ hdr \in Seq(Word) /\ Len(hdr) = HDR
      /\ \A i \in 1 .. HDR : hdr[i] = sent[k][i]
      /\ k \in 1 .. MaxMessages
  <2>1. /\ got \in Seq(Seq(Word)) /\ Len(got) \in Nat /\ Len(sent) \in Nat
        /\ Len(got) < Len(sent) /\ k \in 1 .. Len(sent)
        /\ taken = starts[k] + HDR
        /\ hdr \in Seq(Word) /\ Len(hdr) = HDR
        /\ \A i \in 1 .. HDR : hdr[i] = sent[k][i]
    BY <1>0, <1>k DEF InPlace, Position, Layout, Ring, HdrType
  <2>2. starts[k] \in Nat  BY <2>1 DEF InPlace, Layout
  <2>3. k \in 1 .. MaxMessages  BY <2>1, RxAssumption DEF InPlace, Layout
  <2>4. QED BY <2>1, <2>2, <2>3
<1>2. PICK n \in Lens :
          /\ sent[k] = MessageOf(k, n)
          /\ Begin(k + 1) = starts[k] + HDR + n
          /\ Begin(k + 1) <= Len(stream)
          /\ \A i \in 1 .. HDR + n : stream[starts[k] + i] = sent[k][i]
  BY <1>1 DEF InPlace, Layout
<1>3. n \in Nat  BY RxAssumption
<1>4. /\ sent[k] \in Seq(Word) /\ Len(sent[k]) = HDR + n
      /\ sent[k][1].len = n
  <2>1. 1 \in 1 .. HDR + n  BY <1>3 DEF HDR
  <2>2. /\ MessageOf(k, n) \in Seq(Word) /\ Len(MessageOf(k, n)) = HDR + n
        /\ MessageOf(k, n)[1] = [msg |-> k, at |-> 1, len |-> n]
    BY <2>1, <1>1, MessageType
  <2>3. QED BY <2>2, <1>2
<1>5. Req = n
  BY <1>0, <1>1, <1>4 DEF Req, HDR
<1>6. n <= NumWords
  <2>1. NumWords \in 0 .. Words - 1
    BY DiffType DEF InPlace, Ring, RingTypes, NumWords
  <2>2. QED BY <2>1, <1>3, <1>5, RxAssumption DEF RxFcn
<1>7. /\ ReadWords(n) = [i \in 1 .. n |-> stream[taken + i]]
      /\ FirstPart(n) + SecondPart(n) = n
      /\ ReadOffset(n) = Slot(rd, n)
      /\ FirstPart(n) \in Int /\ SecondPart(n) \in Int
  <2>1. FirstPart(n) \in Int /\ SecondPart(n) \in Int
    BY <1>3, RxAssumption
    DEF FirstPart, SecondPart, SecondFrom, Least, InPlace, Ring, RingTypes, Offsets
  <2>2. QED BY <2>1, <1>3, <1>6, ReadIsNext DEF InPlace
<1>8. /\ taken \in Nat
      /\ \A i \in 1 .. n : stream[taken + i] = sent[k][HDR + i]
  <2>1. taken \in Nat  BY <1>1 DEF HDR
  <2>2. ASSUME NEW i \in 1 .. n PROVE stream[taken + i] = sent[k][HDR + i]
    <3>1. HDR + i \in 1 .. HDR + n /\ taken + i = starts[k] + (HDR + i)
      
      <4>1. /\ i \in Int /\ n \in Nat /\ i >= 1 /\ i <= n  BY <1>3
      <4>2. taken = starts[k] + HDR /\ starts[k] \in Nat  BY <1>1
      <4>3. QED BY <4>1, <4>2 DEF HDR
    <3>2. QED BY <3>1, <1>2
  <2>3. QED BY <2>1, <2>2
<1>9. /\ ReadWords(n) \in Seq(Word) /\ Len(ReadWords(n)) = n
      /\ \A i \in 1 .. n : ReadWords(n)[i] = sent[k][HDR + i]
  <2>1. \A i \in 1 .. n : sent[k][HDR + i] \in Word
    <3> TAKE i \in 1 .. n
    <3>1. HDR + i \in 1 .. HDR + n  BY <1>3 DEF HDR
    <3>2. QED BY <3>1, <1>4
  <2>2. ReadWords(n) \in [1 .. n -> Word]
    BY <2>1, <1>7, <1>8
  <2>3. \A i \in 1 .. n : ReadWords(n)[i] = sent[k][HDR + i]
    BY <1>7, <1>8
  <2>4. QED BY <2>2, <2>3, <1>3, FunctionIsSeq
<1>10. hdr \o ReadWords(n) = sent[k]
  <2>1. /\ hdr \o ReadWords(n) \in Seq(Word)
        /\ Len(hdr \o ReadWords(n)) = HDR + n
        /\ \A i \in 1 .. HDR + n : (hdr \o ReadWords(n))[i] =
              IF i <= HDR THEN hdr[i] ELSE ReadWords(n)[i - HDR]
    <3>1. hdr \in Seq(Word) /\ Len(hdr) = HDR  BY <1>1
    <3>2. ReadWords(n) \in Seq(Word) /\ Len(ReadWords(n)) = n  BY <1>9
    <3> DEFINE r == ReadWords(n)
    <3> HIDE DEF r
    <3>3. r \in Seq(Word) /\ Len(r) = n  BY <3>2 DEF r
    <3>4. /\ hdr \o r \in Seq(Word)
          /\ Len(hdr \o r) = Len(hdr) + Len(r)
          /\ \A i \in 1 .. Len(hdr) + Len(r) : (hdr \o r)[i] =
                IF i <= Len(hdr) THEN hdr[i] ELSE r[i - Len(hdr)]
      BY <3>1, <3>3, ConcatProperties
    <3>5. QED BY <3>1, <3>3, <3>4 DEF r
  <2>2. ASSUME NEW i \in 1 .. HDR + n
        PROVE  (hdr \o ReadWords(n))[i] = sent[k][i]
    <3>1. CASE i <= HDR  BY <3>1, <2>1, <1>1 DEF HDR
    <3>2. CASE ~(i <= HDR)
      <4>1. i - HDR \in 1 .. n /\ HDR + (i - HDR) = i  BY <3>2, <1>3 DEF HDR
      <4>2. QED BY <4>1, <3>2, <2>1, <1>9
    <3>3. QED BY <3>1, <3>2
  <2>3. QED BY <2>1, <2>2, <1>4, SeqEqual
<1>11. taken' = taken + n /\ taken' = Begin(k + 1)
  <2>1. taken' = taken + n
    <3>1. taken' = taken + FirstPart(n) + SecondPart(n)  BY <1>0, <1>5
    <3>2. QED BY <3>1, <1>3, <1>7, <1>8
  <2>2. taken = starts[k] + HDR  BY <1>1
  <2>3. Begin(k + 1) = starts[k] + HDR + n  BY <1>2
  <2>4. QED BY <2>1, <2>2, <2>3
<1>12. Ring'
  <2>1. HdrType'  BY <1>0 DEF HdrType
  <2>2. rd' = Slot(rd, n)  BY <1>0, <1>5, <1>7
  <2>3. QED BY <2>1, <2>2, <1>0, <1>3, <1>6, <1>11, ReadKeepsRing DEF InPlace
<1>13. Layout'  BY <1>0 DEF InPlace, Layout, Begin
<1>14. got' = Append(got, sent[k])  BY <1>0, <1>5, <1>10
<1>15. Position'
  <2>1. /\ got' \in Seq(Seq(Word)) /\ Len(got') = k
        /\ \A j \in 1 .. Len(got) : got'[j] = got[j]
        /\ got'[k] = sent[k]
    BY <1>1, <1>4, <1>14, <1>k
  <2>2. \A j \in 1 .. Len(got') : got'[j] = sent'[j]
    BY <2>1, <1>0, <1>1, <1>k DEF InPlace, Position
  <2>3. Len(got') <= Len(sent')  BY <2>1, <1>0, <1>1
  <2>4. taken' = Begin(Len(got) + 1)'
    <3>1. Begin(k + 1)' = Begin(k + 1)  BY <1>0, <1>k DEF Begin
    <3>2. Begin(Len(got) + 1)' = Begin(k + 1)'
      BY <2>1 DEF Begin
    <3>3. QED BY <3>1, <3>2, <1>11
  <2>5. got' \in Seq(Seq(Word))  BY <2>1
  <2>6. hdr' = <<>> /\ pc' = "next"  BY <1>0
  <2>7. QED BY <2>2, <2>3, <2>4, <2>5, <2>6 DEF Position
<1>16. QED BY <1>0, <1>1, <1>k, <1>12, <1>13, <1>14, <1>15 DEF InPlace

(* A step that touches neither the ring nor the driver's reading.          *)
LEMMA SameKeeps ==
    ASSUME IInv,
           UNCHANGED <<mem, wrOffset, stream, written, sent, starts, rdOffset, pc>>,
           UNCHANGED <<wr, rd, taken, hdr, astray, got>>
    PROVE  IInv'
<1>1. Ring'
  BY DEF IInv, Ring, RingTypes, HdrType, RingSound, OffsetsOrdered,
         NothingOverwritten, Diff, Slot
<1>2. Layout' /\ (IF astray' THEN Adrift' ELSE Position')
  BY DEF IInv, Layout, Position, Adrift, Begin
<1>3. QED BY <1>1, <1>2 DEF IInv

(* Either offset may catch up with the one it is a copy of.                *)
LEMMA OffsetsMove ==
    ASSUME IInv, NEW w \in {wr, wrOffset}, NEW r \in {rdOffset, rd}
    PROVE  /\ Diff(r, rd) + Diff(rd, wrOffset) = Diff(r, wrOffset)
           /\ Diff(rd, w) + Diff(w, wrOffset) = Diff(rd, wrOffset)
<1>1. Diff(rd, rd) = 0 /\ Diff(wrOffset, wrOffset) = 0
  BY DiffSelf DEF IInv, Ring, RingTypes
<1>2. Diff(rd, wrOffset) \in Int
  BY DiffType DEF IInv, Ring, RingTypes
<1>3. QED BY <1>1, <1>2 DEF IInv, Ring, RingSound, OffsetsOrdered

(* What every other step leaves alone, or moves without a word being read. *)
LEMMA QuietKeeps ==
    ASSUME IInv, UNCHANGED <<slaveVars, rd, taken, got, hdr, astray>>,
           wr' \in {wr, wrOffset}, rdOffset' \in {rdOffset, rd},
           pc' = "body" => hdr # <<>>,
           IF astray THEN pc' \in {"idle", "clear", "pull", "stray"} ELSE pc' # "stray"
    PROVE  IInv'
<1>0. UNCHANGED <<mem, wrOffset, stream, written, sent, starts>>
  BY DEF slaveVars
<1>1. RingTypes' /\ HdrType'
  BY <1>0 DEF IInv, Ring, RingTypes, HdrType
<1>2. OffsetsOrdered'
  BY <1>0, OffsetsMove DEF IInv, Ring, RingSound, OffsetsOrdered, Diff
<1>4. NothingOverwritten'
  BY <1>0 DEF IInv, Ring, RingSound, NothingOverwritten, Diff, Slot
<1>5. Layout'  BY <1>0 DEF IInv, Layout, Begin
<1>6. IF astray' THEN Adrift' ELSE Position'
  BY <1>0 DEF IInv, Position, Adrift, Begin
<1>7. QED BY <1>1, <1>2, <1>4, <1>5, <1>6 DEF IInv, Ring, RingSound

(* The driver loses its place.                                             *)
LEMMA LosesKeeps ==
    ASSUME IInv, LosesPlace
    PROVE  IInv' /\ astray' = TRUE /\ UNCHANGED <<sent, got>>
<1>0. /\ UNCHANGED <<mem, wrOffset, stream, written, sent, starts, rdOffset, wr, rd>>
      /\ UNCHANGED <<taken, got>>
      /\ hdr' = <<>> /\ astray' = TRUE /\ pc' = "stray"
  BY DEF LosesPlace, slaveVars
<1>1. Ring'
  BY <1>0, EmptySeq DEF IInv, Ring, RingTypes, HdrType, RingSound, OffsetsOrdered,
                NothingOverwritten, Diff, Slot
<1>2. Layout'  BY <1>0 DEF IInv, Layout, Begin
<1>3. Adrift'  BY <1>0 DEF IInv, Adrift, Position
<1>4. QED BY <1>0, <1>1, <1>2, <1>3 DEF IInv

(* What it then reads are words that are there, in ring order.             *)
LEMMA StrayKeeps ==
    ASSUME IInv, StrayData
    PROVE  /\ IInv' /\ astray /\ astray' = astray
           /\ [Ch!Garble]_<<sent, got, astray>>
<1>0. /\ pc = "stray" /\ astray /\ Adrift
      /\ pc' \in {"stray", "idle"}
      /\ UNCHANGED <<slaveVars, astray, hdr>> /\ UNCHANGED <<stream, sent, starts>>
  BY DEF StrayData, StrayReads, StrayRxFcn, StrayPull, StrayPush, StrayEnds,
         slaveVars, ringVars, IInv, Position, Adrift
<1>1. ASSUME NEW n \in 1 .. Capacity, StrayReads(n)
      PROVE  Ring' /\ UNCHANGED got
  <2>1. /\ n \in Nat /\ n <= NumWords /\ rd' = ReadOffset(n) /\ taken \in Int
        /\ taken' = taken + FirstPart(n) + SecondPart(n)
        /\ UNCHANGED <<rdOffset, wr, got>>
    BY <1>1 DEF StrayReads, IInv, Ring, RingTypes
  <2>2. FirstPart(n) \in Int /\ SecondPart(n) \in Int
    BY <2>1, RxAssumption
    DEF FirstPart, SecondPart, SecondFrom, Least, IInv, Ring, RingTypes, Offsets
  <2>3. FirstPart(n) + SecondPart(n) = n /\ ReadOffset(n) = Slot(rd, n)
    BY <2>1, ReadIsNext DEF IInv
  <2>4. rd' = Slot(rd, n) /\ taken' = taken + n  BY <2>1, <2>2, <2>3
  <2>5. HdrType'  BY <1>0 DEF IInv, Ring, HdrType
  <2>6. QED BY <1>0, <2>1, <2>4, <2>5, ReadKeepsRing DEF IInv
<1>2. CASE StrayRxFcn
  <2>1. /\ got' = Append(got, <<>>) /\ got \in Seq(Seq(Word)) /\ <<>> \in Seq(Word)
        /\ UNCHANGED <<rdOffset, wr, rd, taken>>
    BY <1>0, <1>2, EmptySeq DEF StrayRxFcn, Adrift
  <2>2. got' \in Seq(Seq(Word)) /\ Ch!Garble
    BY <1>0, <2>1 DEF Ch!Garble
  <2>3. Ring'
    BY <1>0, <2>1 DEF IInv, Ring, RingTypes, HdrType, RingSound, OffsetsOrdered,
                NothingOverwritten, Diff, Slot, slaveVars
  <2>4. Layout'  BY <1>0 DEF IInv, Layout, Begin
  <2>5. Adrift'  BY <1>0, <2>2 DEF Adrift
  <2>6. QED BY <1>0, <2>2, <2>3, <2>4, <2>5 DEF IInv
<1>3. CASE StrayPull \/ StrayPush \/ StrayEnds
  <2>1. /\ UNCHANGED <<slaveVars, rd, taken, got, hdr, astray>>
        /\ wr' \in {wr, wrOffset} /\ rdOffset' \in {rdOffset, rd}
    BY <1>3 DEF StrayPull, StrayPush, StrayEnds, slaveVars, ringVars
  <2>2. IInv'  BY <1>0, <2>1, QuietKeeps
  <2>3. QED BY <1>0, <2>1, <2>2
<1>4. ASSUME NEW n \in 1 .. Capacity, StrayReads(n)
      PROVE  IInv' /\ UNCHANGED got
  <2>1. Ring' /\ UNCHANGED got  BY <1>1, <1>4
  <2>2. Layout'  BY <1>0 DEF IInv, Layout, Begin
  <2>3. Adrift'  BY <1>0, <2>1 DEF Adrift
  <2>4. QED BY <1>0, <2>1, <2>2, <2>3 DEF IInv
<1>5. QED BY <1>0, <1>2, <1>3, <1>4 DEF StrayData

(* The steps that are neither the slave's nor read a word.                 *)
Quiet ==
    \/ SlaveSignals \/ Isr \/ ReadMailbox \/ ClearMailbox
    \/ MailboxFails \/ TransferFails \/ PullWrPtr \/ Resume \/ EndOfData
    \/ PullBeforeBody \/ PullBeforeNext \/ PushRdPtr

LEMMA QuietSteps ==
    ASSUME IInv, Quiet
    PROVE  IInv' /\ UNCHANGED <<sent, got, astray>>
<1>1. CASE SlaveSignals
  <2>1. /\ UNCHANGED <<mem, wrOffset, stream, written, sent, starts, rdOffset, pc>>
        /\ UNCHANGED <<wr, rd, taken, hdr, astray, got>>
    BY <1>1 DEF SlaveSignals, ringVars
  <2>2. QED BY <2>1, SameKeeps
<1>2. CASE Isr
  <2>1. /\ UNCHANGED <<mem, wrOffset, stream, written, sent, starts, rdOffset, pc>>
        /\ UNCHANGED <<wr, rd, taken, hdr, astray, got>>
    BY <1>2 DEF Isr, ringVars, slaveVars
  <2>2. QED BY <2>1, SameKeeps
<1>3. CASE ReadMailbox
  BY <1>3, QuietKeeps DEF ReadMailbox, Dequeued, ringVars, slaveVars
<1>4. CASE ClearMailbox
  <2>1. /\ UNCHANGED <<mem, wrOffset, stream, written, sent, starts, rdOffset>>
        /\ UNCHANGED <<wr, rd, taken, hdr, astray, got>>
        /\ pc = "clear" /\ pc' \in {"pull", "idle"}
    BY <1>4 DEF ClearMailbox, ringVars
  <2>2. Ring'
    BY <2>1 DEF IInv, Ring, RingTypes, HdrType, RingSound, OffsetsOrdered,
                NothingOverwritten, Diff, Slot
  <2>3. Layout' /\ (IF astray' THEN Adrift' ELSE Position')
    BY <2>1 DEF IInv, Layout, Position, Adrift, Begin
  <2>4. QED BY <2>1, <2>2, <2>3 DEF IInv
<1>5. CASE MailboxFails
  BY <1>5, QuietKeeps DEF MailboxFails, Dequeued, ringVars, slaveVars
<1>6. CASE TransferFails
  BY <1>6, QuietKeeps DEF TransferFails, ringVars, slaveVars
<1>8. CASE PullWrPtr
  BY <1>8, QuietKeeps DEF PullWrPtr, slaveVars
<1>9. CASE Resume
  BY <1>9, QuietKeeps DEF Resume, ringVars, slaveVars, IInv, Adrift
<1>10. CASE EndOfData
  BY <1>10, QuietKeeps DEF EndOfData, ringVars, slaveVars
<1>11. CASE PullBeforeBody
  BY <1>11, QuietKeeps DEF PullBeforeBody, slaveVars, IInv, Position, Adrift
<1>12. CASE PullBeforeNext
  BY <1>12, QuietKeeps DEF PullBeforeNext, slaveVars, IInv, Adrift
<1>13. CASE PushRdPtr
  BY <1>13, QuietKeeps DEF PushRdPtr, ringVars, slaveVars, IInv, Adrift
<1>14. QED
  BY <1>1, <1>2, <1>3, <1>4, <1>5, <1>6, <1>8, <1>9, <1>10, <1>11, <1>12, <1>13
  DEF Quiet

(* Every step keeps the invariant, and is one of Channel or a stutter.     *)
LEMMA StepRefines ==
    ASSUME IInv, [Next]_vars
    PROVE  IInv' /\ [Ch!Next]_<<sent, got, astray>>
<1>1. ASSUME NEW n \in Lens, SlaveSends(n)
      PROVE  IInv' /\ Ch!Send
  <2>1. IInv'  BY <1>1, SendsKeeps
  <2>2. Len(sent) + 1 \in 1 .. MaxMessages
    BY <1>1, RxAssumption DEF SlaveSends, IInv, Layout
  <2>3. MessageOf(Len(sent) + 1, n) \in Message  BY <2>2 DEF Message
  <2>4. /\ sent' = Append(sent, MessageOf(Len(sent) + 1, n))
        /\ UNCHANGED <<got, astray>>
    BY <1>1 DEF SlaveSends, ringVars
  <2>5. QED BY <2>1, <2>3, <2>4 DEF Ch!Send
<1>2. ASSUME NEW n \in 1 .. Capacity, SlaveWrites(n)
      PROVE  IInv' /\ UNCHANGED <<sent, got, astray>>
  <2>1. Ring'  BY <1>2, WriteKeepsRing DEF IInv
  <2>2. UNCHANGED <<stream, sent, starts, got, hdr, astray, taken, pc>>
    BY <1>2 DEF SlaveWrites, ringVars
  <2>3. Layout' /\ (IF astray' THEN Adrift' ELSE Position')
    BY <2>2 DEF IInv, Layout, Position, Adrift, Begin
  <2>4. QED BY <2>1, <2>2, <2>3 DEF IInv
<1>3. CASE ReadHeader
  <2>1. UNCHANGED <<sent, got, astray>>  BY <1>3 DEF ReadHeader, slaveVars
  <2>2. InPlace /\ ~astray  BY <1>3 DEF ReadHeader, IInv, InPlace, Adrift
  <2>3. InPlace'  BY <1>3, <2>2, HeaderKeeps
  <2>4. QED BY <2>1, <2>2, <2>3 DEF IInv, InPlace
<1>4. CASE RxFcn
  <2>1. InPlace /\ ~astray /\ UNCHANGED astray
    BY <1>4 DEF RxFcn, IInv, InPlace, Adrift
  <2>2. /\ InPlace' /\ Len(got) < Len(sent)
        /\ got' = Append(got, sent[Len(got) + 1]) /\ UNCHANGED sent
    BY <1>4, <2>1, RxFcnIsNext
  <2>3. IInv'  BY <2>1, <2>2 DEF IInv, InPlace
  <2>4. QED BY <2>1, <2>2, <2>3 DEF Ch!Receive, Ch!Next
<1>5. CASE Quiet
  BY <1>5, QuietSteps
<1>6. CASE LosesPlace
  BY <1>6, LosesKeeps DEF Ch!Break, Ch!Next
<1>7. CASE StrayData
  BY <1>7, StrayKeeps DEF Ch!Next
<1>8. CASE UNCHANGED vars
  <2>1. /\ UNCHANGED <<mem, wrOffset, stream, written, sent, starts, rdOffset, pc>>
        /\ UNCHANGED <<wr, rd, taken, hdr, astray, got>>
    BY <1>8 DEF vars, slaveVars, ringVars
  <2>2. QED BY <2>1, SameKeeps
<1>9. QED
  BY <1>1, <1>2, <1>3, <1>4, <1>5, <1>6, <1>7, <1>8
  DEF Next, Slave, Driver, ProcData, Failure, Quiet, Ch!Next

(***************************************************************************)
(* The copies of the offsets the driver works on stay between those of the *)
(* ring, and no word is overwritten before it is read: the slave, the      *)
(* driver and failing transfers may interleave as they like.               *)
(***************************************************************************)
THEOREM RingStaysSound == Spec => []RingSound
<1>1. Init => IInv  BY InitInv
<1>2. IInv /\ [Next]_vars => IInv'  BY StepRefines
<1>3. IInv => RingSound  BY DEF IInv, Ring
<1>4. QED BY <1>1, <1>2, <1>3, PTL DEF Spec

(***************************************************************************)
(* The queue implements Channel: rx_fcn gets the messages whole, once and  *)
(* in the order the slave sent them, for every size of the ring, however   *)
(* the words come in and whichever transfers between messages fail, until  *)
(* the driver loses its place (rx_fcn fails, or a header is read in part). *)
(* From then on the channel is broken, and what rx_fcn gets is anything.   *)
(***************************************************************************)
THEOREM DeliversInOrder == Spec => InOrder
<1>1. Init => IInv /\ Ch!Init  BY InitInv DEF Init, Ch!Init
<1>2. IInv /\ [Next]_vars => IInv' /\ [Ch!Next]_<<sent, got, astray>>
  BY StepRefines
<1>3. QED BY <1>1, <1>2, PTL DEF Spec, InOrder, Ch!Spec

-----------------------------------------------------------------------------
(***************************************************************************)
(* At most one hand has the interrupt.                                     *)
(***************************************************************************)
OneHand ==
    /\ InterruptInHand
    /\ ~(work /\ delayed)
    /\ (pc = "clear") \/ stuck => ~(work \/ delayed)
    /\ ~(pc = "clear" /\ stuck)

HandsTyped ==
    /\ work \in BOOLEAN /\ delayed \in BOOLEAN /\ enabled \in BOOLEAN
    /\ seen \in BOOLEAN /\ stuck \in BOOLEAN /\ mailbox \in BOOLEAN

(***************************************************************************)
(* The interrupt is disabled exactly while a work has it in hand, or for   *)
(* good when the mailbox could not be accessed; so interrupts cannot queue *)
(* work over work.                                                         *)
(***************************************************************************)
THEOREM InterruptStaysInHand == Spec => []InterruptInHand
<1>1. Init => OneHand /\ HandsTyped
  BY DEF Init, OneHand, InterruptInHand, HandsTyped
<1>2. ASSUME OneHand, HandsTyped, [Next]_vars
      PROVE  OneHand' /\ HandsTyped'
  <2>1. CASE Isr
    BY <1>2, <2>1 DEF Isr, slaveVars, OneHand, InterruptInHand, HandsTyped
  <2>2. CASE ReadMailbox
    <3>1. /\ work \/ delayed
          /\ ~(work' \/ delayed')
          /\ UNCHANGED <<enabled, stuck, mailbox>> /\ seen' = mailbox /\ pc' = "clear"
          /\ work' \in BOOLEAN /\ delayed' \in BOOLEAN
      <4>1. CASE work /\ work' = FALSE /\ UNCHANGED delayed
        BY <1>2, <2>2, <4>1, Zenon DEF ReadMailbox, slaveVars, OneHand, HandsTyped
      <4>2. CASE delayed /\ delayed' = FALSE /\ UNCHANGED work
        BY <1>2, <2>2, <4>2, Zenon DEF ReadMailbox, slaveVars, OneHand, HandsTyped
      <4>3. QED BY <2>2, <4>1, <4>2, Zenon DEF ReadMailbox, Dequeued
    <3>2. QED BY <1>2, <3>1 DEF OneHand, InterruptInHand, HandsTyped
  <2>3. CASE ClearMailbox
    BY <1>2, <2>3 DEF ClearMailbox, OneHand, InterruptInHand, HandsTyped
  <2>4. CASE MailboxFails
    <3>1. /\ work \/ delayed \/ pc = "clear"
          /\ ~(work' \/ delayed')
          /\ UNCHANGED <<enabled, seen, mailbox>> /\ stuck' = TRUE /\ pc' = "idle"
          /\ work' \in BOOLEAN /\ delayed' \in BOOLEAN
      <4>1. CASE work /\ work' = FALSE /\ UNCHANGED delayed
        BY <1>2, <2>4, <4>1, Zenon DEF MailboxFails, slaveVars, OneHand, HandsTyped
      <4>2. CASE delayed /\ delayed' = FALSE /\ UNCHANGED work
        BY <1>2, <2>4, <4>2, Zenon DEF MailboxFails, slaveVars, OneHand, HandsTyped
      <4>3. CASE pc = "clear" /\ UNCHANGED <<work, delayed>>
        BY <1>2, <2>4, <4>3, Zenon DEF MailboxFails, slaveVars, OneHand, HandsTyped
      <4>4. QED BY <2>4, <4>1, <4>2, <4>3, Zenon DEF MailboxFails, Dequeued
    <3>2. QED BY <1>2, <3>1 DEF OneHand, InterruptInHand, HandsTyped
  <2>5. CASE SlaveSignals
    BY <1>2, <2>5 DEF SlaveSignals, OneHand, InterruptInHand, HandsTyped
  <2>6. ASSUME UNCHANGED <<irqVars, mailbox>>, pc # "clear", pc' # "clear"
        PROVE  OneHand' /\ HandsTyped'
    BY <1>2, <2>6 DEF irqVars, OneHand, InterruptInHand, HandsTyped
  <2>7. CASE ProcData \/ StrayData \/ TransferFails \/ LosesPlace
    <3>1. UNCHANGED <<irqVars, mailbox>> /\ pc # "clear" /\ pc' # "clear"
      BY <2>7 DEF ProcData, PullWrPtr, ReadHeader, Resume, EndOfData, PullBeforeBody,
                  RxFcn, PullBeforeNext, PushRdPtr, TransferFails, LosesPlace, slaveVars,
                  StrayData, StrayReads, StrayRxFcn, StrayPull, StrayPush, StrayEnds
    <3>2. QED BY <3>1, <2>6
  <2>8. CASE \/ \E n \in Lens : SlaveSends(n)
             \/ \E n \in 1 .. Capacity : SlaveWrites(n)
             \/ UNCHANGED vars
    <3>1. UNCHANGED <<irqVars, mailbox, pc>>
      BY <2>8 DEF SlaveSends, SlaveWrites, vars, slaveVars
    <3>2. QED BY <1>2, <3>1 DEF irqVars, OneHand, InterruptInHand, HandsTyped
  <2>9. QED
    BY <1>2, <2>1, <2>2, <2>3, <2>4, <2>5, <2>7, <2>8 DEF Next, Slave, Driver, Failure
<1>3. OneHand => InterruptInHand  BY DEF OneHand
<1>4. QED BY <1>1, <1>2, <1>3, PTL DEF Spec

(* The variables the ring's invariant does not speak of.                   *)
ControlTyped ==
    /\ pc \in {"idle", "clear", "pull", "while", "body", "next", "push", "stray"}
    /\ astray \in BOOLEAN
    /\ HandsTyped /\ signal \in BOOLEAN /\ pending \in BOOLEAN
    /\ faults \in 0 .. MaxFaults

LEMMA ControlTypes ==
    ASSUME ControlTyped, [Next]_vars
    PROVE  ControlTyped'
<1> USE DEF ControlTyped, HandsTyped, slaveVars, irqVars, ringVars
<1>0. MaxFaults \in Nat  BY RxAssumption
<1>1. CASE \E n \in Lens : SlaveSends(n)  BY <1>1 DEF SlaveSends
<1>2. CASE \E n \in 1 .. Capacity : SlaveWrites(n)  BY <1>2 DEF SlaveWrites
<1>3. CASE SlaveSignals  BY <1>3 DEF SlaveSignals
<1>4. CASE Isr  BY <1>4 DEF Isr
<1>5. CASE ReadMailbox
  <2>1. work' \in BOOLEAN /\ delayed' \in BOOLEAN
    BY <1>5, Zenon DEF ReadMailbox, Dequeued
  <2>2. QED BY <1>5, <2>1 DEF ReadMailbox
<1>6. CASE ClearMailbox  BY <1>6 DEF ClearMailbox
<1>7. CASE ProcData
  BY <1>7 DEF ProcData, PullWrPtr, ReadHeader, Resume, EndOfData, PullBeforeBody,
              RxFcn, PullBeforeNext, PushRdPtr
<1>s. CASE StrayData
  BY <1>s DEF StrayData, StrayReads, StrayRxFcn, StrayPull, StrayPush, StrayEnds
<1>8. CASE MailboxFails
  <2>1. faults' \in 0 .. MaxFaults  BY <1>0, <1>8 DEF MailboxFails
  <2>2. work' \in BOOLEAN /\ delayed' \in BOOLEAN
    BY <1>8, Zenon DEF MailboxFails, Dequeued
  <2>3. QED BY <1>8, <2>1, <2>2 DEF MailboxFails
<1>9. CASE TransferFails  BY <1>0, <1>9 DEF TransferFails
<1>10. CASE LosesPlace  BY <1>0, <1>10 DEF LosesPlace
<1>11. CASE UNCHANGED vars  BY <1>11 DEF vars
<1>12. QED
  BY <1>1, <1>2, <1>3, <1>4, <1>5, <1>6, <1>7, <1>8, <1>9, <1>10, <1>11, <1>s
  DEF Next, Slave, Driver, Failure

(***************************************************************************)
(* Every variable keeps its type; in particular the driver never reads     *)
(* beyond what was written (taken), and keeps a whole header or none.      *)
(***************************************************************************)
THEOREM TypesStay == Spec => []TypeOK
<1>1. Init => IInv /\ ControlTyped
  <2>1. MaxFaults \in Nat  BY RxAssumption
  <2>2. Init => faults \in 0 .. MaxFaults  BY <2>1 DEF Init
  <2>3. Init => /\ HandsTyped /\ signal \in BOOLEAN /\ pending \in BOOLEAN
                /\ pc = "idle" /\ astray \in BOOLEAN
    BY Zenon DEF Init, HandsTyped
  <2>4. QED BY <2>2, <2>3, InitInv DEF ControlTyped
<1>2. IInv /\ ControlTyped /\ [Next]_vars => IInv' /\ ControlTyped'
  BY StepRefines, ControlTypes
<1>3. IInv /\ ControlTyped => TypeOK
  <2> SUFFICES ASSUME IInv, ControlTyped PROVE TypeOK
    OBVIOUS
  <2>1. Len(hdr) \in {0, HDR}
    BY EmptySeq DEF IInv, Position, Adrift
  <2>2. QED
    BY <2>1 DEF TypeOK, Adrift, IInv, ControlTyped, HandsTyped, Ring, RingTypes, HdrType,
                Layout, Position
<1>4. QED BY <1>1, <1>2, <1>3, PTL DEF Spec

=============================================================================
