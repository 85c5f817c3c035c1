----------------------------- MODULE WalkProofs -----------------------------
(***************************************************************************)
(* Proofs about the two walks along lists that others change meanwhile.    *)
(*                                                                         *)
(* TxPath, for every size of the pool and of the ring and any number of    *)
(* packets, failures and stops: what the slave reads is whole packets in   *)
(* order, and until a stop the walk of tx_skb_list, to which packets are   *)
(* added meanwhile, follows no stale pointer and no slot is lost.          *)
(*                                                                         *)
(* BufferRead, for any read operations, samples and sizes of the buffer: a *)
(* read of an Observation's buffer goes forward and leaves nothing out.    *)
(* The two components share nothing.                                       *)
(***************************************************************************)
EXTENDS TxPath, BufferRead, FiniteSetTheorems, SequenceTheorems, WellFoundedInduction, TLAPS

-----------------------------------------------------------------------------
(* The arithmetic of the ring *)

Offsets == 0 .. Words - 1
Slot(a, n) == (a + n) % Words

LEMMA RemainderSmall ==
    ASSUME NEW w \in Nat \ {0}, NEW x \in 0 .. w - 1
    PROVE  x % w = x /\ (x + w) % w = x
<1>1. x % w = x
    OBVIOUS
<1>2. (x + w) % w = x % w
    OBVIOUS
<1> QED
    BY <1>1, <1>2

\* Going on from an offset, at most once around.
LEMMA SlotIs ==
    ASSUME NEW a \in Offsets, NEW n \in 0 .. Words
    PROVE  Slot(a, n) = IF a + n < Words THEN a + n ELSE a + n - Words
<1>1. Words \in Nat \ {0} /\ a \in 0 .. Words - 1
    BY TxAssumption DEF Offsets
<1>2. CASE a + n < Words
  <2>1. a + n \in 0 .. Words - 1
      BY <1>1, <1>2
  <2> QED
      BY <1>1, <1>2, <2>1, RemainderSmall DEF Slot
<1>3. CASE ~(a + n < Words)
  <2>1. a + n - Words \in 0 .. Words - 1 /\ (a + n - Words) + Words = a + n
      BY <1>1, <1>3
  <2>2. ((a + n - Words) + Words) % Words = a + n - Words
      BY <1>1, <2>1, RemainderSmall
  <2> QED
      BY <1>3, <2>1, <2>2 DEF Slot
<1> QED
    BY <1>2, <1>3

LEMMA RingArithmetic ==
    ASSUME NEW a \in Offsets, NEW b \in Offsets
    PROVE  /\ Diff(a, b) \in 0 .. Words - 1
           /\ Slot(a, Diff(a, b)) = b
           /\ \A n \in 0 .. Words - 1 : Slot(a, n) \in Offsets /\ Diff(a, Slot(a, n)) = n
           /\ \A n \in Nat : Diff(a, b) + n <= Words - 1 => Diff(a, Slot(b, n)) = Diff(a, b) + n
           /\ \A n \in 0 .. Diff(a, b) : Diff(Slot(a, n), b) = Diff(a, b) - n
           /\ Diff(a, a) = 0
<1>1. Words \in Nat \ {0} /\ Diff(a, b) \in 0 .. Words - 1
    BY TxAssumption DEF Offsets, Diff
<1>2. \A n \in 0 .. Words - 1 : /\ n \in 0 .. Words
                                /\ Slot(a, n) = IF a + n < Words THEN a + n ELSE a + n - Words
                                /\ Slot(b, n) = IF b + n < Words THEN b + n ELSE b + n - Words
    BY <1>1, SlotIs
<1> HIDE DEF Slot
<1>3. Slot(a, Diff(a, b)) = b
    BY <1>1, <1>2 DEF Diff, Offsets
<1>4. \A n \in 0 .. Words - 1 : Slot(a, n) \in Offsets /\ Diff(a, Slot(a, n)) = n
    BY <1>1, <1>2 DEF Diff, Offsets
<1>5. \A n \in Nat : Diff(a, b) + n <= Words - 1 => Diff(a, Slot(b, n)) = Diff(a, b) + n
    BY <1>1, <1>2 DEF Diff, Offsets
<1>6. \A n \in 0 .. Diff(a, b) : Diff(Slot(a, n), b) = Diff(a, b) - n
    BY <1>1, <1>2 DEF Diff, Offsets
<1>7. Diff(a, a) = 0
    BY <1>1 DEF Diff, Offsets
<1> QED
    BY <1>1, <1>3, <1>4, <1>5, <1>6, <1>7

LEMMA DiffEnd ==
    ASSUME NEW a \in Offsets, NEW b \in Offsets, NEW n \in Nat, Diff(a, b) + n <= Words - 1
    PROVE  Diff(a, Slot(b, n)) = Diff(a, b) + n
BY RingArithmetic

-----------------------------------------------------------------------------
(* The words of the ring *)

Word == [id : Nat, at : Nat]

RingTypes ==
    /\ mem \in [Offsets -> Word \cup {<<>>}]
    /\ wrOffset \in Offsets /\ rdOffset \in Offsets /\ wr \in Offsets /\ rd \in Offsets
    /\ stream \in Seq(Word) /\ received \in Seq(Word)

\* The driver's copy of the read offset is behind the slave's, and the write offset of
\* the slave behind the driver's.
OffsetsOrdered ==
    /\ Diff(rd, rdOffset) + Diff(rdOffset, wr) = Diff(rd, wr)
    /\ Diff(rdOffset, wrOffset) + Diff(wrOffset, wr) = Diff(rdOffset, wr)

\* What was read begins the stream, and the words between the offsets are the rest.
WordsInPlace ==
    /\ Len(received) + Diff(rdOffset, wr) = Len(stream)
    /\ \A i \in 1 .. Len(received) : received[i] = stream[i]
    /\ \A k \in 0 .. Diff(rdOffset, wr) - 1 :
          mem[Slot(rdOffset, k)] = stream[Len(received) + k + 1]

Ring == RingTypes /\ OffsetsOrdered /\ WordsInPlace

\* Then the slave has read, and will read, what was put into the ring (mt7697q_write).
LEMMA RingIsStream ==
    ASSUME Ring
    PROVE  received \o InRing = stream
<1> DEFINE n == Diff(rdOffset, wr)
<1>1. n \in Nat /\ Len(received) \in Nat /\ Len(stream) = Len(received) + n
    BY RingArithmetic, LenProperties DEF Ring, RingTypes, WordsInPlace
<1>2. \A i \in 1 .. n : InRing[i] = stream[Len(received) + i]
  <2> SUFFICES ASSUME NEW i \in 1 .. n
               PROVE  InRing[i] = stream[Len(received) + i]
      OBVIOUS
  <2>1. InRing[i] = mem[(rdOffset + i - 1) % Words]
      BY DEF InRing
  <2>2. i - 1 \in 0 .. n - 1 /\ rdOffset + i - 1 = rdOffset + (i - 1)
      BY <1>1 DEF Ring, RingTypes, Offsets
  <2>3. mem[Slot(rdOffset, i - 1)] = stream[Len(received) + (i - 1) + 1]
      BY <2>2 DEF Ring, WordsInPlace
  <2>4. Len(received) + (i - 1) + 1 = Len(received) + i
      BY <1>1
  <2> QED
      BY <2>1, <2>2, <2>3, <2>4 DEF Slot
<1>3. InRing \in Seq(Word) /\ Len(InRing) = n
  <2>1. \A i \in 1 .. n : Len(received) + i \in 1 .. Len(stream)
      BY <1>1
  <2>2. \A i \in 1 .. n : InRing[i] \in Word
      BY <1>2, <2>1, ElementOfSeq DEF Ring, RingTypes
  <2>3. InRing = [i \in 1 .. n |-> InRing[i]]
      BY DEF InRing
  <2> HIDE DEF n
  <2>4. InRing \in [1 .. n -> Word]
      BY <2>2, <2>3
  <2> QED
      BY <1>1, <2>4, LenProperties, IsASeq
<1> HIDE DEF n
<1>4. received \in Seq(Word) /\ stream \in Seq(Word)
    BY DEF Ring, RingTypes
<1> DEFINE both == received \o InRing
<1>5. /\ both \in Seq(Word) /\ Len(both) = Len(stream)
      /\ \A i \in 1 .. Len(stream) :
            both[i] = IF i <= Len(received) THEN received[i] ELSE InRing[i - Len(received)]
    BY <1>1, <1>3, <1>4, ConcatProperties
<1> HIDE DEF both
<1>6. \A i \in 1 .. Len(stream) : both[i] = stream[i]
  <2> SUFFICES ASSUME NEW i \in 1 .. Len(stream)
               PROVE  both[i] = stream[i]
      OBVIOUS
  <2>1. CASE i <= Len(received)
    <3>1. i \in 1 .. Len(received)
        BY <2>1
    <3> QED
        BY <1>5, <2>1, <3>1 DEF Ring, WordsInPlace
  <2>2. CASE ~(i <= Len(received))
    <3>1. i - Len(received) \in 1 .. n /\ Len(received) + (i - Len(received)) = i
        BY <1>1, <2>2
    <3> QED
        BY <1>2, <1>5, <2>2, <3>1
  <2> QED
      BY <2>1, <2>2
<1>7. both = stream
    BY <1>4, <1>5, <1>6, SeqEqual
<1> QED
    BY <1>7 DEF both

LEMMA PacketType ==
    ASSUME NEW p \in Packet \cup {Free}
    PROVE  /\ p.len \in Nat /\ p.id \in 0 .. MaxPackets
           /\ p # Free => p.id >= 1
<1>1. MaxPackets \in Nat /\ Lens \subseteq Nat
    BY TxAssumption
<1>2. CASE p = Free
    BY <1>1, <1>2 DEF Free
<1>3. CASE p \in Packet
  <2>1. p.id \in 1 .. MaxPackets /\ p.len \in Lens
      BY <1>3 DEF Packet
  <2>2. p.len \in Nat
      BY <1>1, <2>1
  <2>3. p.id \in 0 .. MaxPackets /\ p.id >= 1
      BY <1>1, <2>1
  <2> QED
      BY <2>2, <2>3
<1> QED
    BY <1>2, <1>3

\* Words that are put where there is room disturb none that is to be read.
LEMMA PutKeeps ==
    ASSUME Ring, NEW p \in Packet \cup {Free}, NEW n \in 0 .. p.len, n <= FreeWords
    PROVE  /\ Put(p, n) \in [Offsets -> Word \cup {<<>>}]
           /\ \A k \in 0 .. Diff(rdOffset, wr) - 1 :
                 Put(p, n)[Slot(rdOffset, k)] = mem[Slot(rdOffset, k)]
           /\ \A k \in 0 .. n - 1 : Put(p, n)[Slot(wr, k)] = WordsOf(p)[k + 1]
<1>1. /\ p.len \in Nat /\ p.id \in Nat /\ Words \in Nat \ {0} /\ n \in Nat
      /\ \A i \in 1 .. p.len : WordsOf(p)[i] \in Word
  <2>1. p.len \in Nat /\ p.id \in Nat /\ Words \in Nat \ {0}
      BY TxAssumption, PacketType
  <2>2. \A i \in 1 .. p.len : WordsOf(p)[i] = [id |-> p.id, at |-> i]
      BY DEF WordsOf
  <2>3. \A i \in 1 .. p.len : [id |-> p.id, at |-> i] \in Word
      BY <2>1 DEF Word
  <2>4. \A i \in 1 .. p.len : WordsOf(p)[i] \in Word
      BY <2>2, <2>3
  <2> QED
      BY <2>1, <2>4
<1>2. /\ wr \in Offsets /\ rdOffset \in Offsets /\ rd \in Offsets
      /\ Diff(rd, wr) \in 0 .. Words - 1 /\ Diff(rdOffset, wr) \in 0 .. Words - 1
      /\ Diff(rd, rdOffset) \in 0 .. Words - 1
      /\ Diff(rd, rdOffset) + Diff(rdOffset, wr) = Diff(rd, wr)
    BY RingArithmetic DEF Ring, RingTypes, OffsetsOrdered
<1>3. n <= Words - 1 - Diff(rd, wr)
    BY DEF FreeWords, Capacity
<1>4. \A s \in Offsets : /\ Diff(wr, s) \in Nat
                         /\ Put(p, n)[s] = IF Diff(wr, s) < n THEN WordsOf(p)[Diff(wr, s) + 1]
                                                              ELSE mem[s]
    BY <1>2, RingArithmetic DEF Put, Offsets
<1>5. Put(p, n) \in [Offsets -> Word \cup {<<>>}]
  <2>1. \A s \in Offsets : Put(p, n)[s] \in Word \cup {<<>>}
    <3> SUFFICES ASSUME NEW s \in Offsets
                 PROVE  Put(p, n)[s] \in Word \cup {<<>>}
        OBVIOUS
    <3>1. CASE Diff(wr, s) < n
      <4>1. Diff(wr, s) + 1 \in 1 .. p.len
          BY <1>1, <1>4, <3>1
      <4> QED
          BY <1>1, <1>4, <3>1, <4>1
    <3>2. CASE ~(Diff(wr, s) < n)
        BY <1>4, <3>2 DEF Ring, RingTypes
    <3> QED
        BY <3>1, <3>2
  <2> QED
      BY <2>1 DEF Put, Offsets
<1>6. ASSUME NEW k \in 0 .. Diff(rdOffset, wr) - 1
      PROVE  Put(p, n)[Slot(rdOffset, k)] = mem[Slot(rdOffset, k)]
  <2> DEFINE s == Slot(rdOffset, k)
  <2>1. k \in 0 .. Words - 1 /\ s \in Offsets
      BY <1>1, <1>2, RingArithmetic
  <2>2. Diff(s, wr) = Diff(rdOffset, wr) - k /\ Diff(s, wr) > 0
    <3>1. k \in 0 .. Diff(rdOffset, wr)
        BY <1>2
    <3> QED
        BY <1>2, <3>1, RingArithmetic
  <2> HIDE DEF s
  <2>3. Diff(s, wr) > 0 => Diff(wr, s) = Words - Diff(s, wr)
      BY <1>1, <1>2, <2>1 DEF Diff, Offsets
  <2>4. ~(Diff(wr, s) < n)
      BY <1>1, <1>2, <1>3, <2>2, <2>3
  <2> QED
      BY <1>4, <2>1, <2>4 DEF s
<1>7. ASSUME NEW k \in 0 .. n - 1
      PROVE  Put(p, n)[Slot(wr, k)] = WordsOf(p)[k + 1]
  <2>1. k \in 0 .. Words - 1
      BY <1>1, <1>2, <1>3
  <2>2. Slot(wr, k) \in Offsets /\ Diff(wr, Slot(wr, k)) = k
      BY <1>2, <2>1, RingArithmetic
  <2> QED
      BY <1>1, <1>4, <2>2
<1> QED
    BY <1>5, <1>6, <1>7

\* A packet that is written is the next stretch of the stream, announced or not.
LEMMA WrittenKeeps ==
    ASSUME Ring, NEW p \in Packet \cup {Free}, Written(p), wrOffset' \in {wrOffset, wr'},
           UNCHANGED <<rd, rdOffset, received>>
    PROVE  Ring'
<1> DEFINE n == p.len
           d == Diff(rdOffset, wr)
           c == Len(received)
<1>1. n \in Nat /\ n \in 0 .. p.len /\ p.id \in Nat /\ Words \in Nat \ {0}
    BY TxAssumption, PacketType
<1>2. /\ mem' = Put(p, n) /\ wr' = Slot(wr, n) /\ stream' = stream \o WordsOf(p)
      /\ n <= Words - 1 - Diff(rd, wr)
    BY DEF Written, FreeWords, Capacity, Slot
<1>3. /\ wr \in Offsets /\ rdOffset \in Offsets /\ rd \in Offsets /\ wrOffset \in Offsets
      /\ Diff(rd, wr) \in 0 .. Words - 1 /\ d \in 0 .. Words - 1
      /\ Diff(rd, rdOffset) \in 0 .. Words - 1 /\ Diff(wrOffset, wr) \in 0 .. Words - 1
      /\ Diff(rdOffset, wrOffset) \in 0 .. Words - 1
      /\ Diff(rd, rdOffset) + d = Diff(rd, wr)
      /\ Diff(rdOffset, wrOffset) + Diff(wrOffset, wr) = d
      /\ stream \in Seq(Word) /\ received \in Seq(Word) /\ c \in Nat /\ Len(stream) = c + d
    BY RingArithmetic, LenProperties DEF Ring, RingTypes, OffsetsOrdered, WordsInPlace
<1> HIDE DEF n, d, c
<1>4. wr' \in Offsets
  <2>1. n \in 0 .. Words - 1
      BY <1>1, <1>2, <1>3
  <2> QED
      BY <1>2, <1>3, <2>1, RingArithmetic
<1>5. /\ Diff(rd, wr') = Diff(rd, wr) + n /\ Diff(rdOffset, wr') = d + n
      /\ Diff(wrOffset, wr') = Diff(wrOffset, wr) + n
  <2>1. Diff(rd, wr) + n <= Words - 1 /\ d + n <= Words - 1 /\ Diff(wrOffset, wr) + n <= Words - 1
      BY <1>1, <1>2, <1>3
  <2>2. /\ Diff(rd, Slot(wr, n)) = Diff(rd, wr) + n
        /\ Diff(rdOffset, Slot(wr, n)) = Diff(rdOffset, wr) + n
        /\ Diff(wrOffset, Slot(wr, n)) = Diff(wrOffset, wr) + n
      BY <1>1, <1>3, <2>1, DiffEnd DEF d
  <2> QED
      BY <1>2, <2>2 DEF d
<1>6. Diff(wr', wr') = 0
    BY <1>4, RingArithmetic
<1>7. OffsetsOrdered'
  <2>1. Diff(rd', rdOffset') + Diff(rdOffset', wr') = Diff(rd', wr')
      BY <1>1, <1>3, <1>5 DEF d
  <2>2. CASE wrOffset' = wrOffset
      BY <1>1, <1>3, <1>5, <2>1, <2>2 DEF OffsetsOrdered, d
  <2>3. CASE wrOffset' = wr'
    <3>1. Diff(rdOffset', wr') \in 0 .. Words - 1
        BY <1>3, <1>4, RingArithmetic
    <3> QED
        BY <1>6, <2>1, <2>3, <3>1 DEF OffsetsOrdered
  <2> QED
      BY <2>2, <2>3
<1>8. /\ WordsOf(p) \in Seq(Word) /\ Len(WordsOf(p)) = n
      /\ \A i \in 1 .. n : WordsOf(p)[i] = [id |-> p.id, at |-> i]
  <2>1. \A i \in 1 .. n : [id |-> p.id, at |-> i] \in Word
      BY <1>1 DEF Word
  <2>2. WordsOf(p) = [i \in 1 .. n |-> [id |-> p.id, at |-> i]]
      BY DEF WordsOf, n
  <2> QED
      BY <1>1, <2>1, <2>2, LenProperties, IsASeq
<1>9. /\ stream' \in Seq(Word) /\ Len(stream') = c + d + n
      /\ \A i \in 1 .. c + d : stream'[i] = stream[i]
      /\ \A i \in 1 .. n : stream'[c + d + i] = WordsOf(p)[i]
  <2>1. /\ stream' \in Seq(Word) /\ Len(stream') = c + d + n
        /\ \A i \in 1 .. c + d + n :
              stream'[i] = IF i <= c + d THEN stream[i] ELSE WordsOf(p)[i - (c + d)]
    <3>1. c = Len(received) /\ Len(stream) + Len(WordsOf(p)) = c + d + n /\ Len(stream) = c + d
        BY <1>1, <1>3, <1>8 DEF c
    <3>2. /\ stream \o WordsOf(p) \in Seq(Word)
          /\ Len(stream \o WordsOf(p)) = c + d + n
          /\ \A i \in 1 .. c + d + n :
                (stream \o WordsOf(p))[i] = IF i <= c + d THEN stream[i]
                                                          ELSE WordsOf(p)[i - (c + d)]
      <4> DEFINE both == stream \o WordsOf(p)
      <4>1. /\ both \in Seq(Word) /\ Len(both) = Len(stream) + Len(WordsOf(p))
            /\ \A i \in 1 .. Len(stream) + Len(WordsOf(p)) :
                  both[i] = IF i <= Len(stream) THEN stream[i]
                                                ELSE WordsOf(p)[i - Len(stream)]
          BY <1>3, <1>8, ConcatProperties
      <4> HIDE DEF both
      <4>2. /\ both \in Seq(Word) /\ Len(both) = c + d + n
            /\ \A i \in 1 .. c + d + n :
                  both[i] = IF i <= c + d THEN stream[i] ELSE WordsOf(p)[i - (c + d)]
          BY <3>1, <4>1
      <4> QED
          BY <4>2 DEF both
    <3> QED
        BY <1>2, <3>2
  <2>2. \A i \in 1 .. n : (c + d) + i \in 1 .. c + d + n /\ ((c + d) + i) - (c + d) = i
                          /\ ~((c + d) + i <= c + d)
      BY <1>1, <1>3
  <2>3. \A i \in 1 .. c + d : i \in 1 .. c + d + n /\ i <= c + d
      BY <1>1, <1>3
  <2> QED
      BY <2>1, <2>2, <2>3
<1>10. RingTypes'
  <2>1. mem' \in [Offsets -> Word \cup {<<>>}]
      BY <1>1, <1>2, PutKeeps DEF FreeWords, Capacity, n
  <2> QED
      BY <1>3, <1>4, <1>9, <2>1 DEF RingTypes
<1>11. WordsInPlace'
  <2>1. Len(received') + Diff(rdOffset', wr') = Len(stream')
      BY <1>1, <1>3, <1>5, <1>9 DEF c
  <2>2. \A i \in 1 .. Len(received') : received'[i] = stream'[i]
    <3>1. \A i \in 1 .. c : i \in 1 .. c + d /\ received[i] = stream[i]
        BY <1>3 DEF Ring, WordsInPlace, c
    <3> QED
        BY <1>9, <3>1 DEF c
  <2>3. ASSUME NEW k \in 0 .. Diff(rdOffset', wr') - 1
        PROVE  mem'[Slot(rdOffset', k)] = stream'[Len(received') + k + 1]
    <3>1. CASE k < d
      <4>1. k \in 0 .. d - 1 /\ c + k + 1 \in 1 .. c + d
          BY <1>3, <3>1
      <4>2. mem'[Slot(rdOffset, k)] = mem[Slot(rdOffset, k)]
          BY <1>1, <1>2, <4>1, PutKeeps DEF FreeWords, Capacity, n, d
      <4> QED
          BY <1>9, <4>1, <4>2 DEF Ring, WordsInPlace, c, d
    <3>2. CASE ~(k < d)
      <4>1. k - d \in 0 .. n - 1 /\ c + d + ((k - d) + 1) = c + k + 1 /\ (k - d) + 1 \in 1 .. n
          BY <1>1, <1>3, <1>5, <3>2
      <4>2. Slot(wr, k - d) = Slot(rdOffset, k)
        <5>1. /\ d + (k - d) <= Words - 1 /\ d + (k - d) = k
              /\ k - d \in Nat /\ k - d \in 0 .. Words - 1 /\ k \in 0 .. Words - 1
            BY <1>1, <1>2, <1>3, <4>1
        <5>2. Diff(rdOffset, Slot(wr, k - d)) = k
          <6>1. Diff(rdOffset, Slot(wr, k - d)) = Diff(rdOffset, wr) + (k - d)
              BY <1>3, <5>1, RingArithmetic DEF d
          <6> QED
              BY <5>1, <6>1 DEF d
        <5>3. Slot(wr, k - d) \in Offsets
            BY <1>3, <5>1, RingArithmetic
        <5> QED
            BY <1>3, <5>2, <5>3, RingArithmetic
      <4>3. mem'[Slot(wr, k - d)] = WordsOf(p)[(k - d) + 1]
          BY <1>1, <1>2, <4>1, PutKeeps DEF FreeWords, Capacity, n, d
      <4> QED
          BY <1>9, <4>1, <4>2, <4>3 DEF c
    <3> QED
        BY <3>1, <3>2
  <2> QED
      BY <2>1, <2>2, <2>3 DEF WordsInPlace
<1> QED
    BY <1>7, <1>10, <1>11 DEF Ring

\* Neither a write that is refused or fails half way nor the slave disturbs the ring.
LEMMA OthersKeepRing ==
    ASSUME Ring, UNCHANGED <<wrOffset, wr, rdOffset, stream, received>>,
           \/ rd' = rd /\ mem' = mem
           \/ rd' = rdOffset /\ mem' = mem
           \/ /\ rd' = rd
              /\ \E p \in Packet \cup {Free} : \E n \in 0 .. p.len : n <= FreeWords /\ mem' = Put(p, n)
    PROVE  Ring'
<1>1. /\ rd' \in Offsets /\ rdOffset \in Offsets /\ wr \in Offsets
      /\ Diff(rdOffset, rdOffset) = 0 /\ Diff(rdOffset, wr) \in 0 .. Words - 1
    BY RingArithmetic DEF Ring, RingTypes
<1>2. OffsetsOrdered'
    BY <1>1 DEF Ring, OffsetsOrdered
<1>3. /\ mem' \in [Offsets -> Word \cup {<<>>}]
      /\ \A k \in 0 .. Diff(rdOffset, wr) - 1 : mem'[Slot(rdOffset, k)] = mem[Slot(rdOffset, k)]
  <2>1. CASE mem' = mem
      BY <2>1 DEF Ring, RingTypes
  <2>2. CASE \E p \in Packet \cup {Free} : \E n \in 0 .. p.len : n <= FreeWords /\ mem' = Put(p, n)
      BY <2>2, PutKeeps
  <2> QED
      BY <2>1, <2>2
<1>4. RingTypes'
    BY <1>1, <1>3 DEF Ring, RingTypes
<1>5. WordsInPlace'
    BY <1>3 DEF Ring, WordsInPlace
<1> QED
    BY <1>2, <1>4, <1>5 DEF Ring

LEMMA SlaveReadsKeepsRing ==
    ASSUME Ring, SlaveReads
    PROVE  Ring'
<1> DEFINE d == Diff(rdOffset, wr)
           c == Len(received)
<1>1. /\ rdOffset # wrOffset /\ received' = Append(received, mem[rdOffset])
      /\ rdOffset' = Slot(rdOffset, 1) /\ UNCHANGED <<mem, wrOffset, wr, rd, stream>>
    BY DEF SlaveReads, ringVars, Slot
<1>2. /\ wr \in Offsets /\ rdOffset \in Offsets /\ rd \in Offsets /\ wrOffset \in Offsets
      /\ Diff(rd, wr) \in 0 .. Words - 1 /\ d \in 0 .. Words - 1
      /\ Diff(rd, rdOffset) \in 0 .. Words - 1 /\ Diff(wrOffset, wr) \in 0 .. Words - 1
      /\ Diff(rdOffset, wrOffset) \in 0 .. Words - 1
      /\ Diff(rd, rdOffset) + d = Diff(rd, wr)
      /\ Diff(rdOffset, wrOffset) + Diff(wrOffset, wr) = d
      /\ stream \in Seq(Word) /\ received \in Seq(Word) /\ c \in Nat /\ Len(stream) = c + d
      /\ Words \in Nat
    BY TxAssumption, RingArithmetic, LenProperties DEF Ring, RingTypes, OffsetsOrdered, WordsInPlace
<1>3. Diff(rdOffset, wrOffset) >= 1
    BY <1>1, <1>2 DEF Diff, Offsets
<1>4. 1 \in 0 .. Words - 1 /\ 1 \in 0 .. d /\ 1 \in 0 .. Diff(rdOffset, wrOffset)
    BY <1>2, <1>3
<1>5. /\ rdOffset' \in Offsets
      /\ Diff(rdOffset', wr) = d - 1
      /\ Diff(rdOffset', wrOffset) = Diff(rdOffset, wrOffset) - 1
      /\ Diff(rd, rdOffset') = Diff(rd, rdOffset) + 1
  <2>1. Diff(rd, rdOffset) + 1 <= Words - 1
      BY <1>2, <1>3
  <2>2. Diff(rd, Slot(rdOffset, 1)) = Diff(rd, rdOffset) + 1
      BY <1>2, <2>1, DiffEnd
  <2> QED
      BY <1>1, <1>2, <1>4, <2>2, RingArithmetic
<1>6. OffsetsOrdered'
  <2>1. Diff(rd, rdOffset') + Diff(rdOffset', wr) = Diff(rd, wr)
      BY <1>2, <1>5
  <2>2. Diff(rdOffset', wrOffset) + Diff(wrOffset, wr) = Diff(rdOffset', wr)
      BY <1>2, <1>5
  <2> QED
      BY <1>1, <2>1, <2>2 DEF OffsetsOrdered
<1>7. \A k \in 0 .. d - 2 : Slot(rdOffset', k) = Slot(rdOffset, k + 1)
  <2> SUFFICES ASSUME NEW k \in 0 .. d - 2
               PROVE  Slot(rdOffset', k) = Slot(rdOffset, k + 1)
      OBVIOUS
  <2>1. k \in 0 .. Words /\ 1 \in 0 .. Words /\ k + 1 \in 0 .. Words /\ k + 1 < Words
      BY <1>2, <1>4
  <2>2. /\ Slot(rdOffset', k) = IF rdOffset' + k < Words THEN rdOffset' + k ELSE rdOffset' + k - Words
        /\ rdOffset' = IF rdOffset + 1 < Words THEN rdOffset + 1 ELSE rdOffset + 1 - Words
        /\ Slot(rdOffset, k + 1) = IF rdOffset + (k + 1) < Words THEN rdOffset + (k + 1)
                                                        ELSE rdOffset + (k + 1) - Words
      BY <1>1, <1>2, <1>5, <2>1, SlotIs
  <2>3. rdOffset \in 0 .. Words - 1 /\ Words \in Nat /\ k \in Nat
      BY <1>2, <2>1 DEF Offsets
  <2>4. CASE rdOffset + 1 < Words
      BY <2>2, <2>3, <2>4
  <2>5. CASE ~(rdOffset + 1 < Words)
    <3>1. rdOffset = Words - 1 /\ rdOffset' = 0
        BY <2>2, <2>3, <2>5
    <3> HIDE DEF d
    <3> QED
        BY <2>1, <2>2, <2>3, <3>1
  <2> QED
      BY <2>4, <2>5
<1>8. mem[rdOffset] = stream[c + 1] /\ stream[c + 1] \in Word /\ c + 1 \in 1 .. Len(stream)
  <2>1. 0 \in 0 .. d - 1 /\ c + 1 \in 1 .. Len(stream) /\ c + 0 + 1 = c + 1
      BY <1>2, <1>4
  <2>2. mem[Slot(rdOffset, 0)] = stream[c + 0 + 1]
      BY <2>1 DEF Ring, WordsInPlace
  <2>3. Slot(rdOffset, 0) = rdOffset
    <3>1. 0 \in 0 .. Words
        BY <1>2
    <3> QED
        BY <1>2, <3>1, SlotIs DEF Offsets
  <2> QED
      BY <1>2, <2>1, <2>2, <2>3, ElementOfSeq
<1>9. /\ received' \in Seq(Word) /\ Len(received') = c + 1
      /\ \A i \in 1 .. c + 1 : received'[i] = stream[i]
  <2>1. /\ received' \in Seq(Word) /\ Len(received') = c + 1 /\ received'[c + 1] = mem[rdOffset]
        /\ \A i \in 1 .. c : received'[i] = received[i]
      BY <1>1, <1>2, <1>8, AppendProperties
  <2>2. \A i \in 1 .. c : received[i] = stream[i]
      BY DEF Ring, WordsInPlace
  <2>3. \A i \in 1 .. c + 1 : i \in 1 .. c \/ i = c + 1
      BY <1>2
  <2> HIDE DEF c
  <2> QED
      BY <1>2, <1>8, <2>1, <2>2, <2>3
<1>10. RingTypes'
    BY <1>1, <1>5, <1>9 DEF Ring, RingTypes
<1>11. WordsInPlace'
  <2>1. Len(received') + Diff(rdOffset', wr') = Len(stream')
      BY <1>1, <1>2, <1>5, <1>9
  <2>2. \A i \in 1 .. Len(received') : received'[i] = stream'[i]
      BY <1>1, <1>9
  <2>3. ASSUME NEW k \in 0 .. Diff(rdOffset', wr') - 1
        PROVE  mem'[Slot(rdOffset', k)] = stream'[Len(received') + k + 1]
    <3>0. d - 1 = Diff(rdOffset', wr')
        BY <1>1, <1>5
    <3>1. k \in 0 .. d - 2 /\ k + 1 \in 0 .. d - 1 /\ c + (k + 1) + 1 = (c + 1) + k + 1
      <4>1. d \in Int /\ c \in Int /\ k \in 0 .. (d - 1) - 1
          BY <1>2, <3>0
      <4> HIDE DEF d, c
      <4> QED
          BY <4>1
    <3>2. mem[Slot(rdOffset, k + 1)] = stream[c + (k + 1) + 1]
        BY <3>1 DEF Ring, WordsInPlace
    <3> QED
        BY <1>1, <1>7, <1>9, <3>1, <3>2
  <2> QED
      BY <2>1, <2>2, <2>3 DEF WordsInPlace
<1> QED
    BY <1>6, <1>10, <1>11 DEF Ring

-----------------------------------------------------------------------------
(* The list *)

Places == 1 .. Len(list)

LEMMA OnListHasPosition ==
    ASSUME NEW s, OnList(s)
    PROVE  Position(s) \in Places /\ list[Position(s)] = s
BY DEF OnList, Position, Places

\* list_del() closes the gap.
LEMMA DeletedIs ==
    ASSUME list \in Seq(Slots), NEW s, OnList(s)
    PROVE  /\ Deleted(s) \in Seq(Slots) /\ Len(Deleted(s)) = Len(list) - 1
           /\ \A i \in 1 .. Len(list) - 1 :
                 Deleted(s)[i] = IF i < Position(s) THEN list[i] ELSE list[i + 1]
<1> DEFINE n == Len(list)
           p == Position(s)
           front == SubSeq(list, 1, p - 1)
           back == SubSeq(list, p + 1, n)
<1>1. n \in Nat /\ p \in 1 .. n /\ \A i \in 1 .. n : list[i] \in Slots
    BY OnListHasPosition, LenProperties, ElementOfSeq DEF Places
<1>2. Deleted(s) = front \o back
    BY DEF Deleted, RemoveAt
<1> HIDE DEF n, p
<1>3. /\ front \in Seq(Slots) /\ Len(front) = p - 1
      /\ \A i \in 1 .. p - 1 : front[i] = list[i]
  <2>1. 1 \in Int /\ p - 1 \in Int /\ \A i \in 1 .. p - 1 : list[i] \in Slots
      BY <1>1
  <2>2. /\ front \in Seq(Slots)
        /\ Len(front) = IF 1 <= p - 1 THEN (p - 1) - 1 + 1 ELSE 0
        /\ \A i \in 1 .. (p - 1) - 1 + 1 : front[i] = list[1 + i - 1]
      BY <2>1, SubSeqProperties
  <2> HIDE DEF front
  <2>3. (p - 1) - 1 + 1 = p - 1 /\ \A i \in 1 .. p - 1 : 1 + i - 1 = i
      BY <1>1
  <2> QED
      BY <1>1, <2>2, <2>3
<1>4. /\ back \in Seq(Slots) /\ Len(back) = n - p
      /\ \A i \in 1 .. n - p : back[i] = list[p + i]
  <2>1. p + 1 \in Int /\ n \in Int /\ \A i \in p + 1 .. n : list[i] \in Slots
      BY <1>1
  <2>2. /\ back \in Seq(Slots)
        /\ Len(back) = IF p + 1 <= n THEN n - (p + 1) + 1 ELSE 0
        /\ \A i \in 1 .. n - (p + 1) + 1 : back[i] = list[(p + 1) + i - 1]
      BY <2>1, SubSeqProperties
  <2> HIDE DEF back
  <2>3. n - (p + 1) + 1 = n - p /\ \A i \in 1 .. n - p : (p + 1) + i - 1 = p + i
      BY <1>1
  <2> QED
      BY <1>1, <2>2, <2>3
<1> HIDE DEF front, back
<1> DEFINE both == front \o back
<1>5. /\ both \in Seq(Slots) /\ Len(both) = Len(front) + Len(back)
      /\ \A i \in 1 .. Len(front) + Len(back) :
            both[i] = IF i <= Len(front) THEN front[i] ELSE back[i - Len(front)]
    BY <1>3, <1>4, ConcatProperties
<1> HIDE DEF both
<1>6. Len(front) + Len(back) = n - 1
    BY <1>1, <1>3, <1>4
<1>7. ASSUME NEW i \in 1 .. n - 1
      PROVE  both[i] = IF i < p THEN list[i] ELSE list[i + 1]
  <2>1. CASE i < p
    <3>1. i \in 1 .. p - 1 /\ i <= Len(front)
        BY <1>1, <1>3, <2>1
    <3> QED
        BY <1>3, <1>5, <1>6, <2>1, <3>1
  <2>2. CASE ~(i < p)
    <3>1. i - (p - 1) \in 1 .. n - p /\ ~(i <= p - 1) /\ p + (i - (p - 1)) = i + 1
        BY <1>1, <2>2
    <3> QED
        BY <1>3, <1>4, <1>5, <1>6, <2>2, <3>1
  <2> QED
      BY <2>1, <2>2
<1> QED
    BY <1>2, <1>5, <1>6, <1>7 DEF both, n, p

\* What a walk finds when it looks ahead.
LEMMA AfterType ==
    ASSUME list \in Seq(Slots), NEW s
    PROVE  /\ After(s) \in Pointer
           /\ After(s) \in Slots => /\ OnList(s) /\ Position(s) + 1 \in Places
                                    /\ After(s) = list[Position(s) + 1]
<1>1. Slots \subseteq Nat /\ HEAD \notin Slots /\ POISON \notin Slots
    BY DEF Slots, HEAD, POISON
<1>2. CASE ~OnList(s)
    BY <1>1, <1>2 DEF After, Pointer
<1>3. CASE OnList(s)
  <2>1. Position(s) \in 1 .. Len(list) /\ Len(list) \in Nat
      BY <1>3, OnListHasPosition, LenProperties DEF Places
  <2>2. CASE Position(s) = Len(list)
      BY <1>1, <1>3, <2>2 DEF After, Pointer
  <2>3. CASE Position(s) # Len(list)
    <3>1. Position(s) + 1 \in 1 .. Len(list)
        BY <2>1, <2>3
    <3>2. After(s) = list[Position(s) + 1] /\ list[Position(s) + 1] \in Slots
        BY <1>3, <2>3, <3>1, ElementOfSeq DEF After
    <3> QED
        BY <1>3, <3>1, <3>2 DEF Places, Pointer
  <2> QED
      BY <2>2, <2>3
<1> QED
    BY <1>2, <1>3

-----------------------------------------------------------------------------
(* The order of packets *)

Id(s) == pool[s].id
LastId == IF stream = <<>> THEN 0 ELSE stream[Len(stream)].id
Sorted == \A i \in 1 .. Len(stream) - 1 : stream[i].id <= stream[i + 1].id

\* What is on the list is a packet, the list is in the order they were given, and what is
\* to be added comes last.
ListInOrder ==
    /\ \A i \in Places : pool[list[i]] # Free
    /\ \A i, k \in Places : i < k => Id(list[i]) < Id(list[k])
    /\ \A s \in Slots : Id(s) <= sent
    /\ LastId <= sent
    /\ txPc = "add" => /\ pool[adding] # Free /\ Id(adding) = sent
                       /\ \A i \in Places : Id(list[i]) < sent
                       /\ LastId < sent

\* Slot s holds a packet, and comes before all that is or will be on the list but the slots
\* in T.
Leads(s, T) ==
    /\ s \in Slots /\ pool[s] # Free
    /\ \A i \in Places : list[i] \notin T => Id(s) < Id(list[i])
    /\ txPc = "add" => Id(s) < sent

\* The walk of mt7697_tx_work() goes forwards, whatever is taken off the list.
WalkInOrder ==
    /\ pc \in {"idle", "first", "advance"} => \A i \in Places : LastId < Id(list[i])
    /\ pc \in {"next", "write", "unlink"} => Leads(cur, {cur})
    /\ pc = "free" => Leads(cur, {})
    /\ pc \in {"next", "write"} => LastId < Id(cur)
    /\ pc \in {"unlink", "free"} => LastId <= Id(cur)
    /\ pc \in {"write", "unlink"} /\ nxt \in Slots =>
          Leads(nxt, {cur, nxt}) /\ nxt # cur /\ Id(cur) < Id(nxt)
    /\ pc = "free" /\ nxt \in Slots => Leads(nxt, {nxt}) /\ Id(cur) < Id(nxt)
    /\ pc = "advance" /\ nxt \in Slots => Leads(nxt, {nxt}) /\ LastId < Id(nxt)

StopValid == stopPc \in {"next", "unlink"} => stopCur \in Slots

Order == ListInOrder /\ WalkInOrder /\ StopValid

-----------------------------------------------------------------------------
(* The pool, until a stop *)

\* The slot k places before the index.
Back(k) == IF idx >= k THEN idx - k ELSE idx - k + PoolLen

\* One slot is about to be added to the list, and one has been taken off it and is about
\* to be free.
Coming == IF txPc = "add" THEN 1 ELSE 0
Going == IF pc = "free" THEN 1 ELSE 0

\* The list and the slots that are coming or going are the last ones before the index.
LastSlots ==
    /\ Going + Len(list) + Coming <= PoolLen
    /\ \A i \in Places : list[i] = Back(Len(list) + Coming + 1 - i)
    /\ txPc = "add" => adding = Back(1)
    /\ pc = "free" => cur = Back(Len(list) + Coming + 1)

\* They are the slots in use, and the walk is at the first of them.
PoolInOrder ==
    /\ ~oops /\ stopPc = "idle"
    /\ LastSlots
    /\ \A s \in Slots : pool[s] # Free <=> OnList(s) \/ InHand(s)
    /\ pc \in {"next", "write", "unlink"} => list # <<>> /\ cur = list[1]
    /\ pc \in {"write", "unlink"} => nxt = HEAD \/ (Len(list) > 1 /\ nxt = list[2])
    /\ pc \in {"free", "advance"} => nxt = HEAD \/ (list # <<>> /\ nxt = list[1])

IInv ==
    /\ TypeOK /\ Ring /\ Sorted
    /\ ~oops => Order
    /\ stops = 0 => PoolInOrder

LEMMA InitHolds == Init => IInv
<1> SUFFICES ASSUME Init
             PROVE  IInv
    OBVIOUS
<1>1. /\ 0 \in Slots /\ 0 \in Offsets /\ PoolLen \in Nat /\ Words \in Nat
      /\ {MaxPackets, MaxFaults, MaxStops} \subseteq Nat
    BY TxAssumption DEF Slots, Offsets
<1>2. <<>> \in Seq(Slots) /\ <<>> \in Seq(Word) /\ Len(<<>>) = 0 /\ 1 .. 0 = {}
    BY EmptySeq
<1>3. TypeOK
    BY <1>1, <1>2 DEF Init, TypeOK, Pointer, Slots
<1>4. Ring
  <2>1. Diff(0, 0) = 0
      BY <1>1, RingArithmetic
  <2>2. RingTypes
      BY <1>1, <1>2 DEF Init, RingTypes, Offsets
  <2> QED
      BY <1>2, <2>1, <2>2 DEF Init, Ring, OffsetsOrdered, WordsInPlace
<1>5. Sorted
    BY <1>2 DEF Init, Sorted
<1>6. Order
  <2>1. /\ Places = {} /\ LastId = 0 /\ sent = 0
        /\ pc = "idle" /\ stopPc = "idle" /\ txPc = "idle"
      BY <1>2 DEF Init, Places, LastId
  <2>2. \A s \in Slots : Id(s) = 0
      BY DEF Init, Id, Free
  <2> QED
      BY <2>1, <2>2 DEF Order, ListInOrder, WalkInOrder, StopValid
<1>7. PoolInOrder
    BY <1>1, <1>2
    DEF Init, PoolInOrder, LastSlots, Coming, Going, InHand, Places, OnList
<1> QED
    BY <1>3, <1>4, <1>5, <1>6, <1>7 DEF IInv

-----------------------------------------------------------------------------
(* Types *)

LEMMA NextIdxType ==
    ASSUME idx \in Slots
    PROVE  NextIdx \in Slots
BY TxAssumption DEF Slots, NextIdx

LEMMA FirstType ==
    ASSUME list \in Seq(Slots)
    PROVE  /\ First \in Pointer
           /\ list # <<>> => First \in Slots /\ 1 \in Places /\ First = list[1]
<1>1. CASE list = <<>>
    BY <1>1 DEF First, Pointer
<1>2. CASE list # <<>>
  <2>1. 1 \in 1 .. Len(list)
      BY <1>2, LenProperties, EmptySeq
  <2> QED
      BY <1>2, <2>1, ElementOfSeq DEF First, Pointer, Places
<1> QED
    BY <1>1, <1>2

LEMMA DeletedType ==
    ASSUME list \in Seq(Slots), NEW s
    PROVE  Deleted(s) \in Seq(Slots)
<1>1. CASE OnList(s)
    BY <1>1, DeletedIs
<1>2. CASE ~OnList(s)
    BY <1>2 DEF Deleted
<1> QED
    BY <1>1, <1>2

\* The packet the work is at.
LEMMA CurrentPacket ==
    ASSUME IInv, ~oops, pc \in {"next", "write", "unlink", "free"}
    PROVE  cur \in Slots /\ pool[cur] \in Packet \cup {Free} /\ pool[cur] # Free
BY DEF IInv, TypeOK, Order, WalkInOrder, Leads

LEMMA RingKept ==
    ASSUME IInv, Next
    PROVE  Ring'
<1>1. CASE WritePacket
  <2> DEFINE q == pool[cur]
  <2>1. q \in Packet \cup {Free} /\ UNCHANGED <<rdOffset, received>>
      BY <1>1, CurrentPacket DEF WritePacket, slaveVars
  <2>2. q.len \in Nat
      BY <2>1, PacketType
  <2>3. Done(q) \/ Refused(q) \/ TransferFails(q)
      BY <1>1 DEF WritePacket
  <2> HIDE DEF q
  <2>4. CASE Done(q)
      BY <2>1, <2>4, WrittenKeeps DEF Done, IInv
  <2>5. CASE Refused(q)
      BY <2>1, <2>5, OthersKeepRing DEF Refused, IInv
  <2>6. CASE TransferFails(q)
    <3>1. CASE Written(q) /\ wrOffset' \in {wrOffset, wr'}
        BY <2>1, <2>6, <3>1, WrittenKeeps DEF TransferFails, IInv
    <3>2. CASE FreeWords < q.len /\ UNCHANGED <<mem, wr, wrOffset, stream>>
        BY <2>1, <2>6, <3>2, OthersKeepRing DEF TransferFails, IInv
    <3>3. CASE /\ FreeWords >= q.len
               /\ \E n \in 0 .. q.len : mem' = Put(q, n)
               /\ UNCHANGED <<wr, wrOffset, stream>>
      <4>1. PICK n \in 0 .. q.len : mem' = Put(q, n)
          BY <3>3
      <4>2. FreeWords \in Int
          BY TxAssumption, RingArithmetic DEF FreeWords, Capacity, IInv, Ring, RingTypes
      <4>3. n <= FreeWords
          BY <2>2, <3>3, <4>2
      <4> QED
          BY <2>1, <2>6, <3>3, <4>1, <4>3, OthersKeepRing DEF TransferFails, IInv
    <3> QED
        BY <2>6, <3>1, <3>2, <3>3 DEF TransferFails
  <2> QED
      BY <2>3, <2>4, <2>5, <2>6
<1>2. CASE SlaveReads
    BY <1>2, SlaveReadsKeepsRing DEF IInv
<1>3. CASE UNCHANGED <<ringVars, rdOffset, received>>
    BY <1>3, OthersKeepRing DEF IInv, ringVars
<1>4. CASE NotifyTx
    BY <1>4, OthersKeepRing DEF IInv, NotifyTx
<1> QED
    BY <1>1, <1>2, <1>3, <1>4
    DEF Next, TxWork, TxStop, DataTx, ListPacket, StartWork, FirstPacket, LookAhead, Unlink, Advance,
        Stop, StopLookAhead, StopUnlink, StopAdvance, slaveVars

LEMMA TypesKept ==
    ASSUME IInv, Next
    PROVE  TypeOK'
<1>1. {wrOffset, rdOffset, wr, rd}' \subseteq 0 .. Words - 1
    BY RingKept DEF Ring, RingTypes, Offsets
<1> USE DEF IInv, TypeOK, listVars, txVars, workVars, stopVars, slaveVars
<1>2. ASSUME NEW n \in Lens, DataTx(n)
      PROVE  TypeOK'
  <2>1. [id |-> sent + 1, len |-> n] \in Packet
      BY <1>2, TxAssumption DEF DataTx, Packet
  <2>2. pool' \in [Slots -> Packet \cup {Free}]
      BY <1>2, <2>1 DEF DataTx
  <2>3. idx' \in Slots
      BY <1>2, NextIdxType DEF DataTx
  <2>4. sent' \in 0 .. MaxPackets
      BY <1>2, TxAssumption DEF DataTx
  <2> QED
      BY <1>1, <1>2, <2>2, <2>3, <2>4 DEF DataTx, ringVars
<1>3. CASE ListPacket
  <2>1. list' \in Seq(Slots)
      BY <1>3, AppendProperties DEF ListPacket, AddToList, QueueWork, Added
  <2>2. work' \in BOOLEAN /\ txPc' \in {"idle", "add", "queue"} /\ UNCHANGED <<pool, idx>>
      BY <1>3 DEF ListPacket, AddToList, QueueWork
  <2> QED
      BY <1>1, <1>3, <2>1, <2>2 DEF ListPacket, ringVars
<1>4. CASE WritePacket
  <2> DEFINE q == pool[cur]
  <2>2. Done(q) \/ Refused(q) \/ TransferFails(q)
      BY <1>4 DEF WritePacket
  <2> HIDE DEF q
  <2>1. faults' \in 0 .. MaxFaults /\ blocked' \in BOOLEAN
    <3>1. CASE Done(q)
        BY <3>1 DEF Done
    <3>2. CASE Refused(q)
        BY <3>2 DEF Refused
    <3>3. CASE TransferFails(q)
      <4>1. faults' = faults + 1 /\ faults < MaxFaults /\ blocked' = blocked
          BY <3>3 DEF TransferFails
      <4> QED
          BY <4>1, TxAssumption
    <3> QED
        BY <2>2, <3>1, <3>2, <3>3
  <2> QED
      BY <1>1, <1>4, <2>1 DEF WritePacket
<1>5. CASE Unlink
  <2>1. list' \in Seq(Slots) /\ pool' \in [Slots -> Packet \cup {Free}]
      BY <1>5, DeletedType DEF Unlink, TakeOff, GiveBack
  <2>2. oops' \in BOOLEAN /\ pc' \in {"free", "advance"}
      BY <1>5 DEF Unlink, TakeOff, GiveBack
  <2> QED
      BY <1>1, <1>5, <2>1, <2>2 DEF Unlink, ringVars
<1>6. CASE Advance
  <2>1. cur' \in Pointer /\ nxt' \in Pointer
      BY <1>6, AfterType DEF Advance, Pointer
  <2>2. oops' \in BOOLEAN
      BY <1>6 DEF Advance
  <2> QED
      BY <1>1, <1>6, <2>1, <2>2 DEF Advance, ringVars
<1>7. CASE Stop
  <2>1. stopCur' \in Pointer
      BY <1>7, FirstType DEF Stop
  <2>2. stops' \in 0 .. MaxStops
      BY <1>7, TxAssumption DEF Stop
  <2> QED
      BY <1>1, <1>7, <2>1, <2>2 DEF Stop, ringVars
<1>8. CASE StopUnlink
  <2>1. list' \in Seq(Slots)
      BY <1>8, DeletedType DEF StopUnlink
  <2>2. oops' \in BOOLEAN
      BY <1>8 DEF StopUnlink
  <2> QED
      BY <1>1, <1>8, <2>1, <2>2 DEF StopUnlink, ringVars
<1>9. CASE StopAdvance
  <2>1. stopCur' \in Pointer /\ stopNxt' \in Pointer
      BY <1>9, AfterType DEF StopAdvance, Pointer
  <2>2. oops' \in BOOLEAN
      BY <1>9 DEF StopAdvance
  <2> QED
      BY <1>1, <1>9, <2>1, <2>2 DEF StopAdvance, ringVars
<1>10. CASE SlaveReads
    BY <1>1, <1>10 DEF SlaveReads, ringVars
<1>11. CASE NotifyTx
    BY <1>1, <1>11 DEF NotifyTx
<1>12. CASE StartWork
    BY <1>1, <1>12 DEF StartWork, ringVars
<1>13. CASE FirstPacket
  <2>1. cur' \in Pointer
      BY <1>13, FirstType DEF FirstPacket
  <2> QED
      BY <1>1, <1>13, <2>1 DEF FirstPacket, ringVars
<1>14. CASE LookAhead
  <2>1. nxt' \in Pointer
      BY <1>14, AfterType DEF LookAhead
  <2> QED
      BY <1>1, <1>14, <2>1 DEF LookAhead, ringVars
<1>15. CASE StopLookAhead
  <2>1. stopNxt' \in Pointer
      BY <1>15, AfterType DEF StopLookAhead
  <2> QED
      BY <1>1, <1>15, <2>1 DEF StopLookAhead, ringVars
<1> QED
    BY <1>2, <1>3, <1>4, <1>5, <1>6, <1>7, <1>8, <1>9, <1>10, <1>11, <1>12, <1>13, <1>14, <1>15
    DEF Next, TxWork, TxStop

-----------------------------------------------------------------------------
(* The order is kept *)

LEMMA Basics ==
    ASSUME IInv
    PROVE  /\ Len(list) \in Nat /\ list \in Seq(Slots)
           /\ \A i \in Places : list[i] \in Slots
           /\ \A s \in Slots : Id(s) \in Nat /\ (pool[s] # Free => Id(s) >= 1)
           /\ \A s \in Slots : pool[s] \in Packet \cup {Free}
           /\ LastId \in Nat /\ sent \in Nat
           /\ Slots \subseteq Nat /\ HEAD \notin Slots /\ POISON \notin Slots
<1>1. list \in Seq(Slots) /\ Len(list) \in Nat /\ \A i \in Places : list[i] \in Slots
    BY LenProperties, ElementOfSeq DEF IInv, TypeOK, Places
<1>2. \A s \in Slots : pool[s] \in Packet \cup {Free}
    BY DEF IInv, TypeOK
<1>3. \A s \in Slots : Id(s) \in Nat /\ (pool[s] # Free => Id(s) >= 1)
    BY <1>2, PacketType, TxAssumption DEF Id
<1>4. LastId \in Nat
  <2>1. CASE stream = <<>>
      BY <2>1 DEF LastId
  <2>2. CASE stream # <<>>
    <3>1. stream \in Seq(Word) /\ Len(stream) \in 1 .. Len(stream)
        BY <2>2, LenProperties, EmptySeq DEF IInv, Ring, RingTypes
    <3>2. stream[Len(stream)] \in Word
        BY <3>1, ElementOfSeq
    <3> QED
        BY <2>2, <3>2 DEF LastId, Word
  <2> QED
      BY <2>1, <2>2
<1>5. sent \in Nat
    BY TxAssumption DEF IInv, TypeOK
<1>6. Slots \subseteq Nat /\ HEAD \notin Slots /\ POISON \notin Slots
    BY DEF Slots, HEAD, POISON
<1> QED
    BY <1>1, <1>2, <1>3, <1>4, <1>5, <1>6

\* The walk stays in order when it does not move itself, and what it holds keeps its place.
LEMMA WalkStays ==
    ASSUME IInv, Order, UNCHANGED <<pc, cur, nxt, stream>>,
           \A s \in Slots : pool[s] # Free => Id(s)' = Id(s),
           \A T \in SUBSET Slots : \A s \in Slots : Leads(s, T) => Leads(s, T)',
           (\A i \in Places : LastId < Id(list[i])) => \A i \in Places' : LastId' < Id(list[i])'
    PROVE  WalkInOrder'
<1>1. LastId' = LastId
    BY DEF LastId
<1>2. ASSUME NEW s, NEW T \in SUBSET Slots, Leads(s, T)
      PROVE  Leads(s, T)' /\ Id(s)' = Id(s) /\ s \in Slots
    BY <1>2 DEF Leads
<1>3. CASE pc \in {"idle", "first"}
    BY <1>3 DEF Order, WalkInOrder
<1>4. CASE pc = "advance"
  <2>1. \A i \in Places' : LastId' < Id(list[i])'
      BY <1>4 DEF Order, WalkInOrder
  <2>2. ASSUME nxt \in Slots
        PROVE  Leads(nxt, {nxt})' /\ LastId' < Id(nxt)'
    <3>1. Leads(nxt, {nxt}) /\ LastId < Id(nxt) /\ {nxt} \in SUBSET Slots
        BY <1>4, <2>2 DEF Order, WalkInOrder
    <3>2. Leads(nxt, {nxt})' /\ Id(nxt)' = Id(nxt)
        BY <1>2, <3>1 DEF Leads, Id
    <3> QED
        BY <1>1, <3>1, <3>2
  <2> QED
      BY <1>4, <2>1, <2>2 DEF WalkInOrder
<1>5. CASE pc \in {"next", "write", "unlink", "free"}
  <2>1. cur \in Slots /\ {cur} \in SUBSET Slots /\ {} \in SUBSET Slots
      BY <1>5 DEF Order, WalkInOrder, Leads
  <2>2. pc # "free" => Leads(cur, {cur})' /\ Id(cur)' = Id(cur)
    <3>1. pc # "free" => Leads(cur, {cur})
        BY <1>5 DEF Order, WalkInOrder
    <3> QED
        BY <1>2, <2>1, <3>1 DEF Leads, Id
  <2>3. pc = "free" => Leads(cur, {})' /\ Id(cur)' = Id(cur)
    <3>1. pc = "free" => Leads(cur, {})
        BY DEF Order, WalkInOrder
    <3> QED
        BY <1>2, <2>1, <3>1 DEF Leads, Id
  <2>4. /\ pc \in {"next", "write"} => LastId' < Id(cur)'
        /\ pc \in {"unlink", "free"} => LastId' <= Id(cur)'
      BY <1>1, <1>5, <2>2, <2>3 DEF Order, WalkInOrder
  <2>5. ASSUME pc \in {"write", "unlink"}, nxt \in Slots
        PROVE  Leads(nxt, {cur, nxt})' /\ nxt # cur /\ Id(cur)' < Id(nxt)'
    <3>1. Leads(nxt, {cur, nxt}) /\ nxt # cur /\ Id(cur) < Id(nxt) /\ {cur, nxt} \in SUBSET Slots
        BY <2>1, <2>5 DEF Order, WalkInOrder
    <3>2. Leads(nxt, {cur, nxt})' /\ Id(nxt)' = Id(nxt)
        BY <1>2, <3>1 DEF Leads, Id
    <3> QED
        BY <2>2, <2>3, <3>1, <3>2
  <2>6. ASSUME pc = "free", nxt \in Slots
        PROVE  Leads(nxt, {nxt})' /\ Id(cur)' < Id(nxt)'
    <3>1. Leads(nxt, {nxt}) /\ Id(cur) < Id(nxt) /\ {nxt} \in SUBSET Slots
        BY <2>6 DEF Order, WalkInOrder
    <3>2. Leads(nxt, {nxt})' /\ Id(nxt)' = Id(nxt)
        BY <1>2, <3>1 DEF Leads, Id
    <3> QED
        BY <2>3, <2>6, <3>1, <3>2
  <2> QED
      BY <1>5, <2>2, <2>3, <2>4, <2>5, <2>6 DEF WalkInOrder
<1> QED
    BY <1>3, <1>4, <1>5 DEF IInv, TypeOK

\* A packet that is given comes after all others.
LEMMA DataTxKeepsOrder ==
    ASSUME IInv, Order, NEW n \in Lens, DataTx(n)
    PROVE  Order'
<1>1. /\ pool[idx] = Free /\ pool' = [pool EXCEPT ![idx] = [id |-> sent + 1, len |-> n]]
      /\ sent' = sent + 1 /\ txPc = "idle" /\ txPc' = "add" /\ adding' = idx
      /\ UNCHANGED <<list, stream, pc, cur, nxt, stopPc, stopCur>>
    BY DEF DataTx, workVars, stopVars, ringVars
<1>2. /\ idx \in Slots /\ pool \in [Slots -> Packet \cup {Free}] /\ sent \in Nat
      /\ LastId \in Nat /\ LastId' = LastId /\ Places' = Places
    BY <1>1, Basics DEF IInv, TypeOK, LastId, Places
<1>3. /\ \A s \in Slots : s # idx => pool'[s] = pool[s] /\ Id(s)' = Id(s)
      /\ pool'[idx].id = sent + 1 /\ pool'[idx] # Free
    BY <1>1, <1>2 DEF Id, Free
<1>4. /\ \A i \in Places : list[i] \in Slots /\ list[i] # idx /\ pool[list[i]] # Free
      /\ \A s \in Slots : Id(s) \in Nat /\ Id(s) <= sent
      /\ LastId <= sent
    BY <1>1, Basics DEF Order, ListInOrder
<1>5. \A i \in Places : /\ pool'[list'[i]] = pool[list[i]] /\ Id(list[i])' = Id(list[i])
                        /\ Id(list[i]) < sent'
    BY <1>1, <1>2, <1>3, <1>4 DEF Id
<1>6. ListInOrder'
  <2>1. \A i \in Places' : pool'[list'[i]] # Free
      BY <1>2, <1>4, <1>5
  <2>2. \A i, k \in Places' : i < k => Id(list[i])' < Id(list[k])'
      BY <1>2, <1>5 DEF Order, ListInOrder
  <2>3. ASSUME NEW s \in Slots
        PROVE  Id(s)' <= sent'
    <3>1. CASE s = idx
        BY <1>1, <1>2, <1>3, <3>1 DEF Id
    <3>2. CASE s # idx
        BY <1>1, <1>2, <1>3, <1>4, <3>2
    <3> QED
        BY <3>1, <3>2
  <2>4. LastId' < sent' /\ LastId' <= sent'
      BY <1>1, <1>2, <1>4
  <2>5. pool'[adding'] # Free /\ Id(adding)' = sent'
      BY <1>1, <1>3 DEF Id
  <2>6. \A i \in Places' : Id(list[i])' < sent'
      BY <1>2, <1>5
  <2> QED
      BY <2>1, <2>2, <2>3, <2>4, <2>5, <2>6 DEF ListInOrder
<1>7. \A s \in Slots : pool[s] # Free => Id(s)' = Id(s) /\ pool'[s] # Free /\ Id(s)' < sent'
    BY <1>1, <1>2, <1>3, <1>4
<1>8. \A T \in SUBSET Slots : \A s \in Slots : Leads(s, T) => Leads(s, T)'
  <2> SUFFICES ASSUME NEW T \in SUBSET Slots, NEW s \in Slots, Leads(s, T)
               PROVE  Leads(s, T)'
      OBVIOUS
  <2>1. pool[s] # Free /\ \A i \in Places : list[i] \notin T => Id(s) < Id(list[i])
      BY DEF Leads
  <2>2. \A i \in Places' : list'[i] \notin T => Id(s)' < Id(list[i])'
      BY <1>1, <1>2, <1>5, <1>7, <2>1
  <2> QED
      BY <1>7, <2>1, <2>2 DEF Leads
<1>9. (\A i \in Places : LastId < Id(list[i])) => \A i \in Places' : LastId' < Id(list[i])'
    BY <1>2, <1>5
<1>10. WalkInOrder'
    BY <1>1, <1>7, <1>8, <1>9, WalkStays
<1> QED
    BY <1>1, <1>6, <1>10 DEF Order, StopValid

\* What was to be added is the last on the list.
LEMMA AddKeepsOrder ==
    ASSUME IInv, Order, ListPacket, txPc = "add"
    PROVE  Order'
<1> DEFINE m == Len(list)
<1>1. /\ list' = Append(list, adding) /\ txPc' = "queue"
      /\ UNCHANGED <<pool, sent, stream, pc, cur, nxt, stopPc, stopCur>>
    BY DEF ListPacket, AddToList, Added, workVars, stopVars, ringVars
<1>2. /\ adding \in Slots /\ m \in Nat /\ sent \in Nat /\ LastId' = LastId /\ LastId < sent
      /\ pool[adding] # Free /\ Id(adding) = sent
      /\ \A i \in Places : Id(list[i]) < sent
    BY <1>1, Basics DEF IInv, TypeOK, LastId, Order, ListInOrder
<1>3. /\ Places' = 1 .. m + 1 /\ Places = 1 .. m /\ list'[m + 1] = adding
      /\ \A i \in 1 .. m : list'[i] = list[i]
    BY <1>1, <1>2, Basics, AppendProperties DEF Places
<1>4. \A s \in Slots : Id(s)' = Id(s) /\ Id(s) <= sent
    BY <1>1 DEF Id, Order, ListInOrder
<1> HIDE DEF m
<1>5. \A i \in Places' : \/ i \in Places /\ list'[i] = list[i] /\ Id(list[i])' = Id(list[i])
                         \/ i = m + 1 /\ list'[i] = adding /\ Id(list[i])' = sent
    BY <1>1, <1>2, <1>3 DEF Id
<1>6. ListInOrder'
  <2>1. \A i \in Places' : pool'[list'[i]] # Free
      BY <1>1, <1>2, <1>5 DEF Order, ListInOrder
  <2>2. ASSUME NEW i \in Places', NEW k \in Places', i < k
        PROVE  Id(list[i])' < Id(list[k])'
    <3>1. i \in Places
        BY <1>2, <1>3, <2>2
    <3>2. list'[i] = list[i] /\ Id(list[i])' = Id(list[i])
        BY <1>2, <1>3, <1>5, <3>1
    <3>3. CASE k \in Places /\ list'[k] = list[k] /\ Id(list[k])' = Id(list[k])
        BY <2>2, <3>1, <3>2, <3>3 DEF Order, ListInOrder
    <3>4. CASE Id(list[k])' = sent
        BY <1>2, <3>1, <3>2, <3>4
    <3> QED
        BY <1>5, <3>3, <3>4
  <2>3. (\A s \in Slots : Id(s)' <= sent') /\ LastId' <= sent'
      BY <1>1, <1>2, <1>4 DEF Order, ListInOrder
  <2> QED
      BY <1>1, <2>1, <2>2, <2>3 DEF ListInOrder
<1>7. \A T \in SUBSET Slots : \A s \in Slots : Leads(s, T) => Leads(s, T)'
  <2> SUFFICES ASSUME NEW T \in SUBSET Slots, NEW s \in Slots, Leads(s, T)
               PROVE  Leads(s, T)'
      OBVIOUS
  <2>1. /\ pool[s] # Free /\ Id(s) < sent
        /\ \A i \in Places : list[i] \notin T => Id(s) < Id(list[i])
      BY DEF Leads
  <2>2. \A i \in Places' : list'[i] \notin T => Id(s)' < Id(list[i])'
      BY <1>4, <1>5, <2>1
  <2> QED
      BY <1>1, <2>1, <2>2 DEF Leads
<1>8. (\A i \in Places : LastId < Id(list[i])) => \A i \in Places' : LastId' < Id(list[i])'
    BY <1>2, <1>5
<1>9. WalkInOrder'
    BY <1>1, <1>4, <1>7, <1>8, WalkStays
<1> QED
    BY <1>1, <1>6, <1>9 DEF Order, StopValid

\* The list's order decides: what has the smaller number stands before.
LEMMA PositionByOrder ==
    ASSUME IInv, Order, NEW s, OnList(s)
    PROVE  /\ Position(s) \in Places /\ list[Position(s)] = s
           /\ \A i \in Places : i < Position(s) => Id(list[i]) < Id(s)
           /\ \A i \in Places : i > Position(s) => Id(s) < Id(list[i])
           /\ \A i \in Places : list[i] = s <=> i = Position(s)
<1>1. Position(s) \in Places /\ list[Position(s)] = s
    BY OnListHasPosition
<1>2. /\ \A i \in Places : i < Position(s) => Id(list[i]) < Id(s)
      /\ \A i \in Places : i > Position(s) => Id(s) < Id(list[i])
    BY <1>1 DEF Order, ListInOrder, Places
<1>3. s \in Slots /\ Id(s) \in Nat /\ ~(Id(s) < Id(s))
    BY <1>1, Basics
<1>4. ASSUME NEW i \in Places, list[i] = s
      PROVE  i = Position(s)
  <2>1. i \in Nat /\ Position(s) \in Nat
      BY <1>1, Basics DEF Places
  <2> QED
      BY <1>2, <1>3, <1>4, <2>1
<1> QED
    BY <1>1, <1>2, <1>4

\* Looking one ahead from a slot on the list.
LEMMA AfterLeads ==
    ASSUME IInv, Order, NEW s \in Slots, After(s) \in Slots,
           \A i \in Places : list[i] # s => Id(s) < Id(list[i])
    PROVE  /\ Leads(After(s), {s, After(s)})
           /\ After(s) # s /\ Id(s) < Id(After(s))
<1> DEFINE p == Position(s)
           q == After(s)
<1>1. OnList(s) /\ p + 1 \in Places /\ q = list[p + 1]
    BY AfterType, Basics
<1>2. p \in Places /\ list[p] = s /\ p \in Nat
    BY <1>1, PositionByOrder, Basics DEF Places
<1>3. p + 1 > p /\ p + 1 # p
    BY <1>2
<1>4. q # s /\ Id(s) < Id(q)
    BY <1>1, <1>2, <1>3, PositionByOrder
<1>5. ASSUME NEW i \in Places, list[i] \notin {s, q}
      PROVE  Id(q) < Id(list[i])
  <2>1. i # p /\ i # p + 1
      BY <1>1, <1>2, <1>5
  <2>2. i \in Nat /\ Id(s) < Id(list[i]) /\ Id(s) \in Nat /\ Id(list[i]) \in Nat
      BY <1>5, Basics DEF Places
  <2>3. ~(i < p)
    <3>1. i < p => Id(list[i]) < Id(s)
        BY <1>1, PositionByOrder
    <3> QED
        BY <2>2, <3>1
  <2>4. p + 1 < i
      BY <1>2, <2>1, <2>2, <2>3
  <2> QED
      BY <1>1, <2>4 DEF Order, ListInOrder
<1>6. q \in Slots /\ pool[q] # Free /\ (txPc = "add" => Id(q) < sent)
    BY <1>1 DEF Order, ListInOrder
<1> QED
    BY <1>4, <1>5, <1>6 DEF Leads

LEMMA FirstPacketKeepsOrder ==
    ASSUME IInv, Order, FirstPacket
    PROVE  Order'
<1>1. /\ pc = "first" /\ UNCHANGED <<pool, list, txPc, adding, nxt, sent, stream, stopPc, stopCur>>
      /\ cur' = First /\ pc' = IF list = <<>> THEN "idle" ELSE "next"
    BY DEF FirstPacket, listVars, txVars, stopVars, ringVars
<1>2. ListInOrder' /\ StopValid'
    BY <1>1 DEF Order, ListInOrder, StopValid, Places, Id, LastId
<1>3. \A i \in Places : LastId < Id(list[i])
    BY <1>1 DEF Order, WalkInOrder
<1>4. CASE list = <<>>
    BY <1>1, <1>2, <1>3, <1>4 DEF Order, WalkInOrder, Places, Id, LastId
<1>5. CASE list # <<>>
  <2>1. /\ First \in Slots /\ 1 \in Places /\ First = list[1]
        /\ pc' = "next" /\ cur' = First
      BY <1>1, <1>5, Basics, FirstType
  <2>2. ASSUME NEW i \in Places, list[i] # First
        PROVE  Id(First) < Id(list[i])
    <3>1. 1 < i
        BY <2>1, <2>2, Basics DEF Places
    <3> QED
        BY <2>1, <3>1 DEF Order, ListInOrder
  <2>3. Leads(First, {First}) /\ LastId < Id(First)
      BY <1>3, <2>1, <2>2 DEF Leads, Order, ListInOrder
  <2>4. WalkInOrder'
      BY <1>1, <2>1, <2>3 DEF WalkInOrder, Leads, Places, Id, LastId
  <2> QED
      BY <1>2, <2>4 DEF Order
<1> QED
    BY <1>4, <1>5

LEMMA LookAheadKeepsOrder ==
    ASSUME IInv, Order, LookAhead
    PROVE  Order'
<1>1. /\ pc = "next" /\ pc' = "write" /\ nxt' = After(cur)
      /\ UNCHANGED <<pool, list, txPc, adding, cur, sent, stream, stopPc, stopCur>>
    BY DEF LookAhead, listVars, txVars, stopVars, ringVars
<1>2. ListInOrder' /\ StopValid'
    BY <1>1 DEF Order, ListInOrder, StopValid, Places, Id, LastId
<1>3. Leads(cur, {cur}) /\ LastId < Id(cur)
    BY <1>1 DEF Order, WalkInOrder
<1>4. After(cur) \in Slots => /\ Leads(After(cur), {cur, After(cur)})
                              /\ After(cur) # cur /\ Id(cur) < Id(After(cur))
    BY <1>3, AfterLeads DEF Leads
<1>5. WalkInOrder'
    BY <1>1, <1>3, <1>4 DEF WalkInOrder, Leads, Places, Id, LastId
<1> QED
    BY <1>2, <1>5 DEF Order

LEMMA AdvanceKeepsOrder ==
    ASSUME IInv, Order, Advance, ~oops'
    PROVE  Order'
<1>1. /\ pc = "advance" /\ UNCHANGED <<pool, list, txPc, adding, sent, stream, stopPc, stopCur>>
      /\ cur' = nxt /\ nxt' = IF nxt \in Slots THEN After(nxt) ELSE HEAD
      /\ pc' = IF nxt = HEAD THEN "idle" ELSE "write"
      /\ nxt # POISON
    BY DEF Advance, listVars, txVars, stopVars, ringVars
<1>2. ListInOrder' /\ StopValid'
    BY <1>1 DEF Order, ListInOrder, StopValid, Places, Id, LastId
<1>3. \A i \in Places : LastId < Id(list[i])
    BY <1>1 DEF Order, WalkInOrder
<1>4. CASE nxt = HEAD
    BY <1>1, <1>2, <1>3, <1>4 DEF Order, WalkInOrder, Places, Id, LastId
<1>5. CASE nxt # HEAD
  <2>1. nxt \in Slots /\ pc' = "write" /\ cur' = nxt /\ nxt' = After(nxt)
      BY <1>1, <1>5 DEF IInv, TypeOK, Pointer
  <2>2. Leads(nxt, {nxt}) /\ LastId < Id(nxt)
      BY <1>1, <2>1 DEF Order, WalkInOrder
  <2>3. After(nxt) \in Slots => /\ Leads(After(nxt), {nxt, After(nxt)})
                                /\ After(nxt) # nxt /\ Id(nxt) < Id(After(nxt))
      BY <2>1, <2>2, AfterLeads DEF Leads
  <2>4. WalkInOrder'
      BY <1>1, <2>1, <2>2, <2>3 DEF WalkInOrder, Leads, Places, Id, LastId
  <2> QED
      BY <1>2, <2>4 DEF Order
<1> QED
    BY <1>4, <1>5

\* Taking a slot off the list leaves the others, in their order.
LEMMA DeletedInOrder ==
    ASSUME IInv, Order, NEW s, list' = Deleted(s)
    PROVE  /\ \A i \in Places' : \E j \in Places : list'[i] = list[j] /\ list[j] # s
           /\ \A i, k \in Places' : i < k => Id(list'[i]) < Id(list'[k])
<1>1. CASE ~OnList(s)
    BY <1>1 DEF Deleted, OnList, Places, Order, ListInOrder
<1>2. CASE OnList(s)
  <2> DEFINE n == Len(list)
             p == Position(s)
  <2>1. n \in Nat /\ p \in 1 .. n /\ p \in Nat
      BY <1>2, Basics, PositionByOrder DEF Places
  <2>2. /\ Len(list') = n - 1 /\ Places' = 1 .. n - 1
        /\ \A i \in 1 .. n - 1 : list'[i] = IF i < p THEN list[i] ELSE list[i + 1]
      BY <1>2, Basics, DeletedIs DEF Places
  <2>3. \A i \in Places : list[i] = s <=> i = p
      BY <1>2, PositionByOrder
  <2> DEFINE from(i) == IF i < p THEN i ELSE i + 1
  <2>4. /\ \A i \in 1 .. n - 1 : from(i) \in 1 .. n /\ from(i) # p /\ list'[i] = list[from(i)]
        /\ \A i, k \in 1 .. n - 1 : i < k => from(i) < from(k)
      BY <2>1, <2>2
  <2>5. Places = 1 .. n
      BY DEF Places
  <2> HIDE DEF n, p, from
  <2>6. ASSUME NEW i \in Places'
        PROVE  \E j \in Places : list'[i] = list[j] /\ list[j] # s
      BY <2>2, <2>3, <2>4, <2>5
  <2>7. ASSUME NEW i \in Places', NEW k \in Places', i < k
        PROVE  Id(list'[i]) < Id(list'[k])
    <3>1. from(i) \in Places /\ from(k) \in Places /\ from(i) < from(k)
        BY <2>2, <2>4, <2>5, <2>7
    <3>2. Id(list[from(i)]) < Id(list[from(k)])
        BY <3>1 DEF Order, ListInOrder
    <3>3. list'[i] = list[from(i)] /\ list'[k] = list[from(k)]
        BY <2>2, <2>4, <2>7
    <3> QED
        BY <3>2, <3>3
  <2> QED
      BY <2>6, <2>7
<1> QED
    BY <1>1, <1>2

\* Then the order is kept as well, among slots that keep their packets.
LEMMA TakenOffStays ==
    ASSUME IInv, Order, NEW s, list' = Deleted(s), UNCHANGED <<pool, sent, stream, txPc, adding>>
    PROVE  /\ ListInOrder'
           /\ (\A i \in Places : LastId < Id(list[i])) => \A i \in Places' : LastId' < Id(list[i])'
           /\ \A T \in SUBSET Slots : \A q \in Slots : Leads(q, T) => Leads(q, T)'
           /\ \A T \in SUBSET Slots : \A q \in Slots : Leads(q, T) => Leads(q, T \ {s})'
<1>1. LastId' = LastId /\ \A q \in Slots : Id(q)' = Id(q)
    BY DEF LastId, Id
<1>2. \A i \in Places' : \E j \in Places : list'[i] = list[j] /\ list[j] # s
    BY DeletedInOrder
<1>3. \A i \in Places' : /\ list'[i] \in Slots /\ pool'[list'[i]] # Free
                         /\ Id(list[i])' = Id(list'[i]) /\ (txPc = "add" => Id(list'[i]) < sent)
    BY <1>2, Basics DEF Order, ListInOrder, Id
<1>4. ListInOrder'
  <2>1. \A i, k \in Places' : i < k => Id(list[i])' < Id(list[k])'
      BY <1>3, DeletedInOrder
  <2>2. (\A q \in Slots : Id(q)' <= sent') /\ LastId' <= sent'
      BY <1>1 DEF Order, ListInOrder
  <2>3. txPc' = "add" => /\ pool'[adding'] # Free /\ Id(adding)' = sent'
                         /\ \A i \in Places' : Id(list[i])' < sent'
                         /\ LastId' < sent'
      BY <1>1, <1>3 DEF Order, ListInOrder, Id
  <2> QED
      BY <1>3, <2>1, <2>2, <2>3 DEF ListInOrder
<1>5. (\A i \in Places : LastId < Id(list[i])) => \A i \in Places' : LastId' < Id(list[i])'
    BY <1>1, <1>2, <1>3
<1>6. ASSUME NEW T \in SUBSET Slots, NEW q \in Slots, Leads(q, T)
      PROVE  Leads(q, T)' /\ Leads(q, T \ {s})'
    BY <1>1, <1>2, <1>3, <1>6 DEF Leads
<1> QED
    BY <1>4, <1>5, <1>6

LEMMA TakeOffKeepsOrder ==
    ASSUME IInv, Order, Unlink, pc = "unlink"
    PROVE  Order'
<1>1. /\ pc' = "free" /\ list' = Deleted(cur)
      /\ UNCHANGED <<pool, txPc, adding, cur, nxt, sent, stream, stopPc, stopCur>>
    BY DEF Unlink, TakeOff, txVars, stopVars, ringVars
<1>2. cur \in Slots /\ Leads(cur, {cur}) /\ LastId <= Id(cur) /\ LastId' = LastId
    BY <1>1 DEF Order, WalkInOrder, Leads, LastId
<1>3. /\ ListInOrder'
      /\ \A T \in SUBSET Slots : \A q \in Slots : Leads(q, T) => Leads(q, T \ {cur})'
    BY <1>1, TakenOffStays
<1>4. Leads(cur, {})' /\ LastId' <= Id(cur)'
  <2>1. {cur} \in SUBSET Slots /\ {cur} \ {cur} = {}
      BY <1>2
  <2>2. Leads(cur, {cur} \ {cur})'
      BY <1>1, <1>2, <1>3, <2>1 DEF Leads, Id
  <2> QED
      BY <1>1, <1>2, <2>1, <2>2 DEF Leads, Id
<1>5. ASSUME nxt' \in Slots
      PROVE  Leads(nxt, {nxt})' /\ Id(cur)' < Id(nxt)'
  <2>1. Leads(nxt, {cur, nxt}) /\ nxt # cur /\ Id(cur) < Id(nxt) /\ nxt \in Slots
      BY <1>1, <1>5 DEF Order, WalkInOrder
  <2>2. {cur, nxt} \in SUBSET Slots /\ {cur, nxt} \ {cur} = {nxt}
      BY <1>2, <2>1
  <2>3. Leads(nxt, {cur, nxt} \ {cur})'
      BY <1>1, <1>3, <2>1, <2>2 DEF Leads, Id
  <2> QED
      BY <1>1, <2>1, <2>2, <2>3 DEF Leads, Id
<1>6. WalkInOrder'
    BY <1>1, <1>4, <1>5 DEF WalkInOrder
<1> QED
    BY <1>1, <1>3, <1>6 DEF Order, StopValid

\* The slot that is given back is not on the list.
LEMMA GiveBackKeepsOrder ==
    ASSUME IInv, Order, Unlink, pc = "free"
    PROVE  Order'
<1>1. /\ pc' = "advance" /\ pool' = [pool EXCEPT ![cur] = Free]
      /\ UNCHANGED <<list, txPc, adding, cur, nxt, sent, stream, stopPc, stopCur>>
    BY DEF Unlink, GiveBack, txVars, stopVars, ringVars
<1>2. /\ cur \in Slots /\ LastId <= Id(cur) /\ LastId \in Nat /\ Id(cur) \in Nat /\ sent \in Nat
      /\ \A i \in Places : Id(cur) < Id(list[i])
      /\ txPc = "add" => Id(cur) < sent
    BY Basics DEF Order, WalkInOrder, Leads
<1>3. /\ LastId' = LastId /\ Places' = Places
      /\ \A s \in Slots \ {cur} : pool'[s] = pool[s] /\ Id(s)' = Id(s)
      /\ Id(cur)' = 0
    BY <1>1, <1>2 DEF LastId, Id, Free, IInv, TypeOK, Places
<1>4. \A i \in Places : /\ list[i] \in Slots \ {cur} /\ Id(list[i]) \in Nat
                        /\ list'[i] = list[i] /\ pool'[list'[i]] = pool[list[i]]
                        /\ Id(list[i])' = Id(list[i])
    BY <1>1, <1>2, <1>3, Basics DEF Id
<1>5. ListInOrder'
  <2>1. /\ \A i \in Places' : pool'[list'[i]] # Free
        /\ \A i, k \in Places' : i < k => Id(list[i])' < Id(list[k])'
      BY <1>3, <1>4 DEF Order, ListInOrder
  <2>2. (\A s \in Slots : Id(s)' <= sent') /\ LastId' <= sent'
      BY <1>1, <1>2, <1>3 DEF Order, ListInOrder
  <2>3. ASSUME txPc' = "add"
        PROVE  /\ pool'[adding'] # Free /\ Id(adding)' = sent'
               /\ \A i \in Places' : Id(list[i])' < sent'
               /\ LastId' < sent'
    <3>1. /\ pool[adding] # Free /\ Id(adding) = sent /\ LastId < sent /\ adding \in Slots
          /\ \A i \in Places : Id(list[i]) < sent
        BY <1>1, <2>3 DEF Order, ListInOrder, IInv, TypeOK
    <3>2. adding # cur
        BY <1>1, <1>2, <2>3, <3>1
    <3> QED
        BY <1>1, <1>3, <1>4, <3>1, <3>2 DEF Id
  <2> QED
      BY <2>1, <2>2, <2>3 DEF ListInOrder
<1>6. \A i \in Places' : LastId' < Id(list[i])'
    BY <1>2, <1>3, <1>4
<1>7. ASSUME nxt' \in Slots
      PROVE  Leads(nxt, {nxt})' /\ LastId' < Id(nxt)'
  <2>1. Leads(nxt, {nxt}) /\ Id(cur) < Id(nxt) /\ nxt \in Slots /\ Id(nxt) \in Nat
      BY <1>1, <1>7, Basics DEF Order, WalkInOrder
  <2>2. nxt # cur
      BY <1>2, <2>1
  <2>3. Id(nxt)' = Id(nxt) /\ pool'[nxt] = pool[nxt]
      BY <1>1, <1>3, <2>1, <2>2 DEF Id
  <2>4. Leads(nxt, {nxt})'
      BY <1>1, <1>3, <1>4, <2>1, <2>3 DEF Leads
  <2> QED
      BY <1>2, <1>3, <2>1, <2>3, <2>4
<1>8. WalkInOrder'
    BY <1>1, <1>6, <1>7 DEF WalkInOrder
<1> QED
    BY <1>1, <1>5, <1>8 DEF Order, StopValid

\* mt7697_tx_stop() takes packets off the list in front of the walk, or behind it.
LEMMA StopUnlinkKeepsOrder ==
    ASSUME IInv, Order, StopUnlink
    PROVE  Order'
<1>1. /\ list' = Deleted(stopCur) /\ stopPc' = "advance"
      /\ UNCHANGED <<pool, txPc, adding, pc, cur, nxt, sent, stream>>
    BY DEF StopUnlink, txVars, workVars, ringVars
<1>2. \A s \in Slots : Id(s)' = Id(s)
    BY <1>1 DEF Id
<1>3. /\ ListInOrder'
      /\ (\A i \in Places : LastId < Id(list[i])) => \A i \in Places' : LastId' < Id(list[i])'
      /\ \A T \in SUBSET Slots : \A q \in Slots : Leads(q, T) => Leads(q, T)'
    BY <1>1, TakenOffStays
<1>4. WalkInOrder'
    BY <1>1, <1>2, <1>3, WalkStays
<1> QED
    BY <1>1, <1>3, <1>4 DEF Order, StopValid

\* A packet that follows in the order keeps the stream in order, and becomes its last.
LEMMA StreamGrows ==
    ASSUME IInv, NEW p \in Packet, LastId <= p.id, stream' = stream \o WordsOf(p)
    PROVE  Sorted' /\ LastId' = p.id
<1> DEFINE n == Len(stream)
           m == p.len
           more == WordsOf(p)
<1>1. m \in Nat /\ m >= 1 /\ p.id \in Nat
  <2>1. m \in Lens /\ p.id \in 1 .. MaxPackets
      BY DEF Packet
  <2>2. Lens \subseteq Nat \ {0} /\ MaxPackets \in Nat
      BY TxAssumption
  <2> HIDE DEF m
  <2>3. m \in Nat /\ m # 0
      BY <2>1, <2>2
  <2> QED
      BY <2>1, <2>2, <2>3
<1>2. more \in Seq(Word) /\ Len(more) = m /\ \A i \in 1 .. m : more[i].id = p.id
  <2>1. \A i \in 1 .. m : [id |-> p.id, at |-> i] \in Word
      BY <1>1 DEF Word
  <2>2. more = [i \in 1 .. m |-> [id |-> p.id, at |-> i]]
      BY DEF WordsOf
  <2> HIDE DEF more
  <2> QED
      BY <1>1, <2>1, <2>2, LenProperties, IsASeq
<1>3. stream \in Seq(Word) /\ n \in Nat
    BY LenProperties DEF IInv, Ring, RingTypes
<1> HIDE DEF more, m
<1> DEFINE both == stream \o more
<1>4. /\ both \in Seq(Word) /\ Len(both) = n + m
      /\ \A i \in 1 .. n + m : both[i] = IF i <= n THEN stream[i] ELSE more[i - n]
    BY <1>2, <1>3, ConcatProperties
<1>5. stream' = both
    BY DEF more
<1> HIDE DEF both, n
<1>6. \A i \in 1 .. n : both[i] = stream[i]
    BY <1>1, <1>3, <1>4
<1>7. \A i \in n + 1 .. n + m : both[i].id = p.id
  <2> SUFFICES ASSUME NEW i \in n + 1 .. n + m
               PROVE  both[i].id = p.id
      OBVIOUS
  <2>1. i \in 1 .. n + m /\ ~(i <= n) /\ i - n \in 1 .. m
      BY <1>1, <1>3
  <2> QED
      BY <1>2, <1>4, <2>1
<1>8. n >= 1 => LastId = stream[n].id
  <2>1. stream = <<>> => n = 0
      BY EmptySeq DEF n
  <2> QED
      BY <1>3, <2>1 DEF LastId, n
<1>9. Sorted'
  <2>1. ASSUME NEW i \in 1 .. n + m - 1
        PROVE  both[i].id <= both[i + 1].id
    <3>1. CASE i <= n - 1
      <4>1. i \in 1 .. n - 1 /\ i \in 1 .. n /\ i + 1 \in 1 .. n
          BY <1>3, <3>1
      <4>2. stream[i].id <= stream[i + 1].id
          BY <4>1 DEF IInv, Sorted, n
      <4> QED
          BY <1>6, <4>1, <4>2
    <3>2. CASE i = n
      <4>1. n \in 1 .. n /\ n + 1 \in n + 1 .. n + m /\ n >= 1
          BY <1>1, <1>3, <3>2
      <4> QED
          BY <1>6, <1>7, <1>8, <3>2, <4>1
    <3>3. CASE i >= n + 1
      <4>1. i \in n + 1 .. n + m /\ i + 1 \in n + 1 .. n + m
          BY <1>1, <1>3, <3>3
      <4> QED
          BY <1>1, <1>7, <4>1
    <3> QED
        BY <1>3, <3>1, <3>2, <3>3
  <2>2. Len(stream') - 1 = n + m - 1
      BY <1>1, <1>3, <1>4, <1>5
  <2>3. \A i \in 1 .. Len(stream') - 1 : stream'[i].id <= stream'[i + 1].id
      BY <1>5, <2>1, <2>2
  <2> QED
      BY <2>3 DEF Sorted
<1>10. LastId' = p.id
  <2>1. n + m \in n + 1 .. n + m /\ n + m # 0
      BY <1>1, <1>3
  <2>2. both # <<>>
      BY <1>4, <2>1, EmptySeq
  <2> QED
      BY <1>4, <1>5, <1>7, <2>1, <2>2 DEF LastId
<1> QED
    BY <1>9, <1>10

LEMMA WritePacketKeepsOrder ==
    ASSUME IInv, Order, ~oops, WritePacket
    PROVE  Order' /\ Sorted'
<1> DEFINE q == pool[cur]
<1>1. /\ pc = "write" /\ pc' = "unlink"
      /\ UNCHANGED <<pool, list, txPc, adding, cur, nxt, sent, stopPc, stopCur>>
      /\ Done(q) \/ Refused(q) \/ TransferFails(q)
    BY DEF WritePacket, listVars, txVars, stopVars
<1>2. /\ q \in Packet /\ q.id = Id(cur) /\ cur \in Slots
      /\ LastId < Id(cur) /\ LastId \in Nat /\ Id(cur) \in Nat /\ Id(cur) <= sent
      /\ txPc = "add" => Id(cur) < sent
  <2>1. q \in Packet /\ q.id = Id(cur) /\ cur \in Slots
      BY <1>1, CurrentPacket DEF Id
  <2>2. Leads(cur, {cur}) /\ LastId < Id(cur)
      BY <1>1 DEF Order, WalkInOrder
  <2> QED
      BY <2>1, <2>2, Basics DEF Order, ListInOrder, Leads
<1> HIDE DEF q
<1>3. stream' = stream \/ stream' = stream \o WordsOf(q)
    BY <1>1 DEF Done, Refused, TransferFails, Written
<1>4. Sorted' /\ (LastId' = LastId \/ LastId' = Id(cur))
  <2>1. CASE stream' = stream
      BY <2>1 DEF IInv, Sorted, LastId
  <2>2. CASE stream' = stream \o WordsOf(q)
      BY <1>2, <2>2, StreamGrows
  <2> QED
      BY <1>3, <2>1, <2>2
<1>5. LastId' <= Id(cur) /\ LastId' <= sent /\ (txPc = "add" => LastId' < sent)
    BY <1>2, <1>4, Basics
<1>6. ListInOrder' /\ StopValid'
    BY <1>1, <1>5 DEF Order, ListInOrder, StopValid, Places, Id
<1>7. WalkInOrder'
    BY <1>1, <1>5 DEF Order, WalkInOrder, Leads, Places, Id
<1> QED
    BY <1>4, <1>6, <1>7 DEF Order

\* The order is kept by every step, up to a pointer that is followed and should not be.
LEMMA OrderKept ==
    ASSUME IInv, Next
    PROVE  Sorted' /\ (~oops' => Order')
<1>1. ~oops /\ Order /\ Sorted
    BY DEF Next, TxWork, TxStop, DataTx, ListPacket, StartWork, FirstPacket, LookAhead, WritePacket,
           Unlink, Advance, Stop, StopLookAhead, StopUnlink, StopAdvance, SlaveReads, NotifyTx, IInv
<1>2. ASSUME NEW n \in Lens, DataTx(n)
      PROVE  Order' /\ Sorted'
    BY <1>1, <1>2, DataTxKeepsOrder DEF DataTx, ringVars, Sorted
<1>3. CASE ListPacket
  <2>1. CASE txPc = "add"
      BY <1>1, <1>3, <2>1, AddKeepsOrder DEF ListPacket, ringVars, Sorted
  <2>2. CASE txPc # "add"
    <3>1. /\ txPc' = "idle"
          /\ UNCHANGED <<pool, list, adding, pc, cur, nxt, sent, stream, stopPc, stopCur>>
        BY <1>3, <2>2 DEF ListPacket, QueueWork, workVars, stopVars, ringVars
    <3> QED
        BY <1>1, <2>2, <3>1
        DEF Order, ListInOrder, WalkInOrder, StopValid, Leads, Places, Id, LastId, Sorted
  <2> QED
      BY <2>1, <2>2
<1>4. CASE WritePacket
    BY <1>1, <1>4, WritePacketKeepsOrder
<1>5. CASE Unlink
  <2>1. Order'
      BY <1>1, <1>5, TakeOffKeepsOrder, GiveBackKeepsOrder DEF Unlink
  <2> QED
      BY <1>1, <1>5, <2>1 DEF Unlink, ringVars, Sorted
<1>6. CASE Advance
    BY <1>1, <1>6, AdvanceKeepsOrder DEF Advance, ringVars, Sorted
<1>7. ASSUME UNCHANGED <<pool, list, txPc, adding, pc, cur, nxt, sent, stream>>, StopValid'
      PROVE  Order' /\ Sorted'
    BY <1>1, <1>7
    DEF Order, ListInOrder, WalkInOrder, Leads, Places, Id, LastId, Sorted
<1>8. CASE Stop
  <2>1. StopValid'
      BY <1>8, Basics, FirstType DEF Stop, StopValid
  <2> QED
      BY <1>7, <1>8, <2>1 DEF Stop, listVars, txVars, workVars, ringVars
<1>9. CASE StopUnlink
    BY <1>1, <1>9, StopUnlinkKeepsOrder DEF StopUnlink, ringVars, Sorted
<1>10. CASE StopAdvance
  <2>1. ~oops' => StopValid'
      BY <1>10 DEF StopAdvance, StopValid, IInv, TypeOK, Pointer
  <2> QED
      BY <1>1, <1>7, <1>10, <2>1 DEF StopAdvance, listVars, txVars, workVars, ringVars, Sorted
<1>11. CASE SlaveReads
    BY <1>1, <1>7, <1>11
    DEF SlaveReads, listVars, txVars, workVars, stopVars, ringVars, Order, StopValid
<1>12. CASE NotifyTx
    BY <1>1, <1>7, <1>12 DEF NotifyTx, txVars, workVars, stopVars, Order, StopValid
<1>13. CASE StartWork
  <2>1. /\ pc = "idle" /\ pc' = "first"
        /\ UNCHANGED <<pool, list, txPc, adding, sent, stream, stopPc, stopCur>>
      BY <1>13 DEF StartWork, txVars, stopVars, ringVars
  <2> QED
      BY <1>1, <2>1
      DEF Order, ListInOrder, WalkInOrder, StopValid, Places, Id, LastId, Sorted
<1>14. CASE FirstPacket
    BY <1>1, <1>14, FirstPacketKeepsOrder DEF FirstPacket, ringVars, Sorted
<1>15. CASE LookAhead
    BY <1>1, <1>15, LookAheadKeepsOrder DEF LookAhead, ringVars, Sorted
<1>16. CASE StopLookAhead
  <2>1. StopValid'
      BY <1>1, <1>16 DEF StopLookAhead, Order, StopValid
  <2> QED
      BY <1>7, <1>16, <2>1 DEF StopLookAhead, listVars, txVars, workVars, ringVars
<1> QED
    BY <1>2, <1>3, <1>4, <1>5, <1>6, <1>8, <1>9, <1>10, <1>11, <1>12, <1>13, <1>14, <1>15, <1>16
    DEF Next, TxWork, TxStop

-----------------------------------------------------------------------------
(* The pool is kept in order *)

LEMMA BackIs ==
    ASSUME idx \in Slots
    PROVE  /\ \A k \in 1 .. PoolLen : Back(k) \in Slots
           /\ \A s \in Slots : \E k \in 1 .. PoolLen : Back(k) = s
           /\ \A k, l \in 1 .. PoolLen : Back(k) = Back(l) => k = l
           /\ Back(PoolLen) = idx
<1>1. PoolLen \in Nat \ {0} /\ idx \in 0 .. PoolLen - 1
    BY TxAssumption DEF Slots
<1>2. \A k \in 1 .. PoolLen : Back(k) \in 0 .. PoolLen - 1
    BY <1>1 DEF Back
<1>3. ASSUME NEW s \in 0 .. PoolLen - 1
      PROVE  \E k \in 1 .. PoolLen : Back(k) = s
  <2>1. CASE s < idx
    <3>1. idx - s \in 1 .. PoolLen /\ Back(idx - s) = s
        BY <1>1, <2>1 DEF Back
    <3> QED
        BY <3>1
  <2>2. CASE ~(s < idx)
    <3>1. idx + PoolLen - s \in 1 .. PoolLen
        BY <1>1, <2>2
    <3>2. Back(idx + PoolLen - s) = s
        BY <1>1, <2>2 DEF Back
    <3> QED
        BY <3>1, <3>2
  <2> QED
      BY <2>1, <2>2
<1>4. Back(PoolLen) = idx
    BY <1>1 DEF Back
<1>5. \A k, l \in 1 .. PoolLen : Back(k) = Back(l) => k = l
    BY <1>1 DEF Back
<1> QED
    BY <1>2, <1>3, <1>4, <1>5 DEF Slots

\* The index goes on by one, around the pool.
LEMMA BackMoves ==
    ASSUME idx \in Slots, idx' = NextIdx
    PROVE  /\ \A k \in 1 .. PoolLen - 1 : Back(k + 1)' = Back(k)
           /\ Back(1)' = idx
<1>1. PoolLen \in Nat \ {0} /\ idx \in 0 .. PoolLen - 1
    BY TxAssumption DEF Slots
<1>2. idx' = IF idx + 1 >= PoolLen THEN 0 ELSE idx + 1
    BY DEF NextIdx
<1>3. ASSUME NEW k \in 1 .. PoolLen - 1
      PROVE  Back(k + 1)' = Back(k)
  <2>1. Back(k + 1)' = IF idx' >= k + 1 THEN idx' - (k + 1) ELSE idx' - (k + 1) + PoolLen
      BY DEF Back
  <2>2. CASE idx + 1 >= PoolLen
      BY <1>1, <1>2, <2>1, <2>2 DEF Back
  <2>3. CASE ~(idx + 1 >= PoolLen)
      BY <1>1, <1>2, <2>1, <2>3 DEF Back
  <2> QED
      BY <2>2, <2>3
<1>4. Back(1)' = idx
  <2>1. Back(1)' = IF idx' >= 1 THEN idx' - 1 ELSE idx' - 1 + PoolLen
      BY DEF Back
  <2> QED
      BY <1>1, <1>2, <2>1
<1> QED
    BY <1>3, <1>4

\* The slots on the list, coming and going are the last Used ones before the index.
Used == Going + Len(list) + Coming

LEMMA UsedAreLast ==
    ASSUME IInv, LastSlots
    PROVE  /\ Used \in 0 .. PoolLen
           /\ \A k \in 1 .. Used : OnList(Back(k)) \/ InHand(Back(k))
           /\ \A s : OnList(s) \/ InHand(s) => \E k \in 1 .. Used : Back(k) = s
<1> DEFINE m == Len(list)
<1>1. m \in Nat /\ PoolLen \in Nat /\ Coming \in {0, 1} /\ Going \in {0, 1}
    BY Basics, TxAssumption DEF Coming, Going
<1>2. /\ Going + m + Coming <= PoolLen
      /\ \A i \in 1 .. m : list[i] = Back(m + Coming + 1 - i)
      /\ Coming = 1 => txPc = "add" /\ adding = Back(1)
      /\ Going = 1 => pc = "free" /\ cur = Back(m + Coming + 1)
  <2>1. (Coming = 1 <=> txPc = "add") /\ (Going = 1 <=> pc = "free")
      BY DEF Coming, Going
  <2> HIDE DEF Coming, Going
  <2> QED
      BY <2>1 DEF LastSlots, Places
<1>3. \A s : OnList(s) <=> \E i \in 1 .. m : list[i] = s
    BY DEF OnList
<1>4. \A s : InHand(s) <=> (Coming = 1 /\ s = adding) \/ (Going = 1 /\ s = cur)
    BY DEF InHand, Coming, Going
<1>5. Used = Going + m + Coming
    BY DEF Used
<1> HIDE DEF m, Used, Coming, Going
<1>6. ASSUME NEW k \in 1 .. Used
      PROVE  OnList(Back(k)) \/ InHand(Back(k))
  <2>1. CASE k <= Coming
    <3>1. Coming = 1 /\ k = 1
        BY <1>1, <1>5, <2>1
    <3> QED
        BY <1>2, <1>4, <3>1
  <2>2. CASE k > Coming /\ k <= m + Coming
    <3>1. PICK i \in 1 .. m : i = m + Coming + 1 - k
        BY <1>1, <1>5, <2>2
    <3>2. m + Coming + 1 - i = k
        BY <1>1, <1>5, <3>1
    <3>3. list[i] = Back(k)
        BY <1>2, <3>2
    <3> QED
        BY <1>3, <3>3
  <2>3. CASE k > m + Coming
    <3>1. Going = 1 /\ k = m + Coming + 1
        BY <1>1, <1>5, <2>3
    <3> QED
        BY <1>2, <1>4, <3>1
  <2> QED
      BY <1>1, <1>5, <2>1, <2>2, <2>3
<1>7. ASSUME NEW s, OnList(s) \/ InHand(s)
      PROVE  \E k \in 1 .. Used : Back(k) = s
  <2>1. CASE OnList(s)
    <3>1. PICK i \in 1 .. m : list[i] = s
        BY <1>3, <2>1
    <3>2. m + Coming + 1 - i \in 1 .. Used
        BY <1>1, <1>5
    <3> QED
        BY <1>2, <3>1, <3>2
  <2>2. CASE Coming = 1 /\ s = adding
    <3>1. 1 \in 1 .. Used
        BY <1>1, <1>5, <2>2
    <3> QED
        BY <1>2, <2>2, <3>1
  <2>3. CASE Going = 1 /\ s = cur
    <3>1. m + Coming + 1 \in 1 .. Used
        BY <1>1, <1>5, <2>3
    <3> QED
        BY <1>2, <2>3, <3>1
  <2> QED
      BY <1>4, <1>7, <2>1, <2>2, <2>3
<1> QED
    BY <1>1, <1>2, <1>5, <1>6, <1>7

\* When the slot at the index is in use, every slot is.
LEMMA FullPoolHoldsAll ==
    ASSUME IInv, PoolInOrder
    PROVE  /\ pool[idx] # Free => \A s \in Slots : pool[s] # Free
           /\ pool[idx] = Free => Used < PoolLen
<1>1. idx \in Slots /\ PoolLen \in Nat \ {0} /\ PoolLen \in 1 .. PoolLen
    BY TxAssumption DEF IInv, TypeOK
<1>2. /\ Used \in 0 .. PoolLen
      /\ \A k \in 1 .. Used : OnList(Back(k)) \/ InHand(Back(k))
      /\ \A s : OnList(s) \/ InHand(s) => \E k \in 1 .. Used : Back(k) = s
    BY UsedAreLast DEF PoolInOrder
<1>3. /\ \A s \in Slots : \E k \in 1 .. PoolLen : Back(k) = s
      /\ \A k, l \in 1 .. PoolLen : Back(k) = Back(l) => k = l
      /\ Back(PoolLen) = idx
    BY <1>1, BackIs
<1>4. \A s \in Slots : pool[s] # Free <=> OnList(s) \/ InHand(s)
    BY DEF PoolInOrder
<1> HIDE DEF Used, Back, OnList, InHand
<1>5. ASSUME pool[idx] # Free
      PROVE  \A s \in Slots : pool[s] # Free
  <2>1. PICK k \in 1 .. Used : Back(k) = idx
      BY <1>1, <1>2, <1>4, <1>5
  <2>2. k \in 1 .. PoolLen
      BY <1>1, <1>2
  <2>3. k = PoolLen
      BY <1>1, <1>3, <2>1, <2>2
  <2>4. Used = PoolLen
      BY <1>1, <1>2, <2>3
  <2> QED
      BY <1>2, <1>3, <1>4, <2>4
<1>6. ASSUME Used = PoolLen
      PROVE  pool[idx] # Free
    BY <1>1, <1>2, <1>3, <1>4, <1>6
<1> QED
    BY <1>1, <1>2, <1>5, <1>6

\* What follows the first on the list, if anything, is the second.
LEMMA AfterFirst ==
    ASSUME IInv, Order, list # <<>>
    PROVE  After(list[1]) = HEAD \/ (Len(list) > 1 /\ After(list[1]) = list[2])
<1>1. 1 \in Places /\ Len(list) \in Nat
    BY Basics, FirstType
<1>2. OnList(list[1])
    BY <1>1 DEF OnList, Places
<1>3. Position(list[1]) = 1
    BY <1>1, <1>2, PositionByOrder
<1>4. After(list[1]) = IF 1 = Len(list) THEN HEAD ELSE list[2]
    BY <1>2, <1>3 DEF After
<1>5. Len(list) = 1 \/ Len(list) > 1
    BY <1>1 DEF Places
<1> QED
    BY <1>4, <1>5

LEMMA DataTxKeepsPool ==
    ASSUME IInv, PoolInOrder, NEW n \in Lens, DataTx(n)
    PROVE  PoolInOrder'
<1> DEFINE m == Len(list)
<1>1. /\ ~oops' /\ stopPc' = stopPc /\ UNCHANGED <<list, pc, cur, nxt>>
      /\ pool[idx] = Free /\ pool' = [pool EXCEPT ![idx] = [id |-> sent + 1, len |-> n]]
      /\ idx' = NextIdx /\ txPc = "idle" /\ txPc' = "add" /\ adding' = idx
    BY DEF DataTx, workVars, stopVars
<1>2. /\ idx \in Slots /\ m \in Nat /\ PoolLen \in Nat \ {0} /\ sent \in Nat
      /\ pool \in [Slots -> Packet \cup {Free}]
    BY Basics, TxAssumption DEF IInv, TypeOK
<1>3. /\ Coming = 0 /\ Coming' = 1 /\ Going' = Going /\ Going \in {0, 1}
      /\ Going + m + Coming < PoolLen /\ Places' = 1 .. m /\ Places = 1 .. m
    BY <1>1, FullPoolHoldsAll DEF Coming, Going, Used, Places
<1>4. (\A k \in 1 .. PoolLen - 1 : Back(k + 1)' = Back(k)) /\ Back(1)' = idx
    BY <1>1, <1>2, BackMoves
<1>5. /\ \A i \in Places : list[i] = Back(m + Coming + 1 - i)
      /\ pc = "free" => cur = Back(m + Coming + 1)
    BY DEF PoolInOrder, LastSlots
<1> HIDE DEF m
<1>6. ASSUME NEW i \in Places'
      PROVE  list'[i] = Back(Len(list) + Coming + 1 - i)'
  <2>1. PICK k \in 1 .. PoolLen - 1 : k = m + 1 - i
      BY <1>2, <1>3
  <2>2. list[i] = Back(k) /\ Back(k + 1)' = Back(k)
      BY <1>2, <1>3, <1>4, <1>5, <2>1
  <2>3. k + 1 = Len(list') + Coming' + 1 - i
      BY <1>1, <1>2, <1>3, <2>1 DEF m
  <2> QED
      BY <1>1, <2>2, <2>3 DEF Back
<1>7. ASSUME pc' = "free"
      PROVE  cur' = Back(Len(list) + Coming + 1)'
  <2>1. Going = 1
      BY <1>1, <1>7 DEF Going
  <2>2. PICK k \in 1 .. PoolLen - 1 : k = m + 1
      BY <1>2, <1>3, <2>1
  <2>3. cur = Back(k) /\ Back(k + 1)' = Back(k)
      BY <1>1, <1>2, <1>3, <1>4, <1>5, <1>7, <2>2
  <2>4. k + 1 = Len(list') + Coming' + 1
      BY <1>1, <1>2, <1>3, <2>2 DEF m
  <2> QED
      BY <1>1, <2>3, <2>4 DEF Back
<1>8. LastSlots'
  <2>1. (Going + Len(list) + Coming)' <= PoolLen
      BY <1>1, <1>2, <1>3 DEF m
  <2> QED
      BY <1>1, <1>4, <1>6, <1>7, <2>1 DEF LastSlots
<1>9. ASSUME NEW s \in Slots
      PROVE  pool'[s] # Free <=> OnList(s)' \/ InHand(s)'
  <2>1. OnList(s)' <=> OnList(s)
      BY <1>1 DEF OnList
  <2>2. InHand(s)' <=> InHand(s) \/ s = idx
      BY <1>1 DEF InHand
  <2>3. CASE s = idx
    <3>1. pool'[s].id = sent + 1 /\ sent + 1 # 0 /\ Free.id = 0
        BY <1>1, <1>2, <2>3 DEF Free
    <3> QED
        BY <2>2, <2>3, <3>1
  <2>4. CASE s # idx
      BY <1>1, <1>2, <2>1, <2>2, <2>4 DEF PoolInOrder
  <2> QED
      BY <2>3, <2>4
<1> QED
    BY <1>1, <1>8, <1>9 DEF PoolInOrder

\* The slot that was coming is the last on the list.
LEMMA AddKeepsPool ==
    ASSUME IInv, PoolInOrder, ListPacket, txPc = "add"
    PROVE  PoolInOrder'
<1> DEFINE m == Len(list)
<1>1. /\ ~oops' /\ list' = Append(list, adding) /\ txPc' = "queue"
      /\ UNCHANGED <<pool, idx, adding, stopPc, pc, cur, nxt>>
    BY DEF ListPacket, AddToList, Added, workVars, stopVars
<1>2. adding \in Slots /\ m \in Nat /\ list \in Seq(Slots) /\ PoolLen \in Nat
    BY Basics, TxAssumption DEF IInv, TypeOK
<1>3. /\ Len(list') = m + 1 /\ Places' = 1 .. m + 1 /\ Places = 1 .. m /\ list'[m + 1] = adding
      /\ \A i \in 1 .. m : list'[i] = list[i]
    BY <1>1, <1>2, AppendProperties DEF Places
<1>4. Coming = 1 /\ Coming' = 0 /\ Going' = Going /\ Going \in {0, 1}
    BY <1>1 DEF Coming, Going
<1>5. /\ Going + m + Coming <= PoolLen /\ adding = Back(1)
      /\ \A i \in Places : list[i] = Back(m + Coming + 1 - i)
      /\ pc = "free" => cur = Back(m + Coming + 1)
    BY DEF PoolInOrder, LastSlots
<1> HIDE DEF m
<1>6. LastSlots'
  <2>1. (Going + Len(list) + Coming)' <= PoolLen
      BY <1>1, <1>2, <1>3, <1>4, <1>5
  <2>2. ASSUME NEW i \in Places'
        PROVE  list'[i] = Back(Len(list) + Coming + 1 - i)'
    <3>1. CASE i \in 1 .. m
      <4>1. m + Coming + 1 - i = Len(list') + Coming' + 1 - i
          BY <1>2, <1>3, <1>4
      <4> QED
          BY <1>1, <1>3, <1>5, <3>1, <4>1 DEF Back
    <3>2. CASE i = m + 1
      <4>1. Len(list') + Coming' + 1 - i = 1
          BY <1>2, <1>3, <1>4, <3>2
      <4> QED
          BY <1>1, <1>3, <1>5, <3>2, <4>1 DEF Back
    <3> QED
        BY <1>2, <1>3, <3>1, <3>2
  <2>3. pc' = "free" => cur' = Back(Len(list) + Coming + 1)'
    <3>1. m + Coming + 1 = Len(list') + Coming' + 1
        BY <1>2, <1>3, <1>4
    <3> QED
        BY <1>1, <1>5, <3>1 DEF Back
  <2> QED
      BY <1>1, <2>1, <2>2, <2>3 DEF LastSlots
<1>7. ASSUME NEW s \in Slots
      PROVE  pool'[s] # Free <=> OnList(s)' \/ InHand(s)'
  <2>1. OnList(s)' <=> (OnList(s) \/ s = adding)
    <3>1. OnList(s) <=> \E i \in 1 .. m : list[i] = s
        BY DEF OnList, m
    <3>2. OnList(s)' <=> \E i \in 1 .. m + 1 : list'[i] = s
        BY <1>3 DEF OnList
    <3>3. /\ m + 1 \in 1 .. m + 1 /\ \A i \in 1 .. m : i \in 1 .. m + 1
          /\ \A i \in 1 .. m + 1 : i \in 1 .. m \/ i = m + 1
        BY <1>2
    <3> QED
        BY <1>3, <3>1, <3>2, <3>3
  <2>2. InHand(s) <=> (s = adding \/ InHand(s)')
      BY <1>1 DEF InHand
  <2> QED
      BY <1>1, <2>1, <2>2 DEF PoolInOrder
<1>8. list # <<>> => list' # <<>> /\ 1 \in 1 .. m
  <2>1. list # <<>> => 1 \in Places
      BY <1>2, FirstType
  <2>2. list' = <<>> => Len(list') = 0
      BY EmptySeq
  <2>3. m + 1 # 0
      BY <1>2
  <2> QED
      BY <1>3, <2>1, <2>2, <2>3
<1>9. Len(list) > 1 => Len(list') > 1 /\ 2 \in 1 .. m
    BY <1>2, <1>3 DEF m
<1>10. pc' \in {"next", "write", "unlink"} => list' # <<>> /\ cur' = list'[1]
    BY <1>1, <1>3, <1>8 DEF PoolInOrder
<1>11. pc' \in {"write", "unlink"} => nxt' = HEAD \/ (Len(list') > 1 /\ nxt' = list'[2])
    BY <1>1, <1>3, <1>9 DEF PoolInOrder
<1>12. pc' \in {"free", "advance"} => nxt' = HEAD \/ (list' # <<>> /\ nxt' = list'[1])
    BY <1>1, <1>3, <1>8 DEF PoolInOrder
<1>13. ~oops' /\ stopPc' = "idle"
    BY <1>1 DEF PoolInOrder
<1> QED
    BY <1>6, <1>7, <1>10, <1>11, <1>12, <1>13 DEF PoolInOrder

\* The first on the list is going.
LEMMA TakeOffKeepsPool ==
    ASSUME IInv, Order, PoolInOrder, Unlink, pc = "unlink"
    PROVE  PoolInOrder'
<1> DEFINE m == Len(list)
<1>1. /\ pc' = "free" /\ stopPc' = stopPc /\ oops' = ~OnList(cur) /\ list' = Deleted(cur)
      /\ UNCHANGED <<pool, idx, txPc, adding, cur, nxt>>
    BY DEF Unlink, TakeOff, txVars, stopVars
<1>2. /\ m \in Nat /\ list \in Seq(Slots) /\ list # <<>> /\ 1 \in Places
      /\ cur = list[1] /\ cur \in Slots /\ PoolLen \in Nat
    BY Basics, FirstType, TxAssumption DEF PoolInOrder
<1>3. OnList(cur) /\ ~oops'
    BY <1>1, <1>2 DEF OnList, Places
<1>4. Position(cur) = 1 /\ \A i \in Places : list[i] = cur <=> i = 1
    BY <1>2, <1>3, PositionByOrder
<1>5. /\ Len(list') = m - 1 /\ Places' = 1 .. m - 1 /\ Places = 1 .. m
      /\ \A i \in 1 .. m - 1 : list'[i] = list[i + 1]
  <2>1. \A i \in 1 .. m - 1 : ~(i < 1)
      BY <1>2
  <2> QED
      BY <1>1, <1>2, <1>3, <1>4, <2>1, DeletedIs DEF Places
<1>6. Coming' = Coming /\ Coming \in {0, 1} /\ Going = 0 /\ Going' = 1
    BY <1>1 DEF Coming, Going
<1>7. /\ Going + m + Coming <= PoolLen
      /\ \A i \in Places : list[i] = Back(m + Coming + 1 - i)
      /\ txPc = "add" => adding = Back(1)
      /\ nxt = HEAD \/ (m > 1 /\ nxt = list[2])
    BY DEF PoolInOrder, LastSlots
<1> HIDE DEF m
<1>8. LastSlots'
  <2>1. (Going + Len(list) + Coming)' <= PoolLen
      BY <1>2, <1>5, <1>6, <1>7
  <2>2. ASSUME NEW i \in Places'
        PROVE  list'[i] = Back(Len(list) + Coming + 1 - i)'
    <3>1. /\ i + 1 \in 1 .. m /\ i \in 1 .. m - 1
          /\ m + Coming + 1 - (i + 1) = Len(list') + Coming' + 1 - i
        BY <1>2, <1>5, <1>6
    <3>2. list'[i] = Back(m + Coming + 1 - (i + 1))
        BY <1>5, <1>7, <3>1
    <3> QED
        BY <1>1, <3>1, <3>2 DEF Back
  <2>3. cur' = Back(Len(list) + Coming + 1)'
    <3>1. m + Coming + 1 - 1 = Len(list') + Coming' + 1
        BY <1>2, <1>5, <1>6
    <3>2. cur = Back(m + Coming + 1 - 1)
        BY <1>2, <1>7
    <3> QED
        BY <1>1, <3>1, <3>2 DEF Back
  <2>4. txPc' = "add" => adding' = Back(1)'
      BY <1>1, <1>7 DEF Back
  <2> QED
      BY <2>1, <2>2, <2>3, <2>4 DEF LastSlots
<1>9. ASSUME NEW s \in Slots
      PROVE  pool'[s] # Free <=> OnList(s)' \/ InHand(s)'
  <2>1. OnList(s) <=> (OnList(s)' \/ s = cur)
    <3>1. OnList(s) <=> \E i \in 1 .. m : list[i] = s
        BY DEF OnList, m
    <3>2. OnList(s)' <=> \E i \in 1 .. m - 1 : list'[i] = s
        BY <1>5 DEF OnList
    <3>3. /\ \A i \in 1 .. m - 1 : i + 1 \in 1 .. m
          /\ \A i \in 1 .. m : i = 1 \/ (i - 1 \in 1 .. m - 1 /\ (i - 1) + 1 = i)
        BY <1>2
    <3>4. ASSUME NEW i \in 1 .. m - 1, list'[i] = s
          PROVE  OnList(s)
        BY <1>5, <3>1, <3>3, <3>4
    <3>5. ASSUME NEW i \in 1 .. m, list[i] = s, s # cur
          PROVE  OnList(s)'
      <4>1. i - 1 \in 1 .. m - 1 /\ (i - 1) + 1 = i
          BY <1>2, <3>3, <3>5
      <4>2. list'[i - 1] = s
          BY <1>5, <3>5, <4>1
      <4> QED
          BY <3>2, <4>1, <4>2
    <3> QED
        BY <1>3, <3>1, <3>2, <3>4, <3>5
  <2>2. InHand(s)' <=> InHand(s) \/ s = cur
      BY <1>1 DEF InHand
  <2> QED
      BY <1>1, <2>1, <2>2 DEF PoolInOrder
<1>10. nxt' = HEAD \/ (list' # <<>> /\ nxt' = list'[1])
  <2>1. ASSUME m > 1
        PROVE  list' # <<>> /\ list'[1] = list[2]
    <3>1. 1 \in 1 .. m - 1 /\ 1 + 1 = 2 /\ m - 1 # 0
        BY <1>2, <2>1
    <3>2. list'[1] = list[2]
        BY <1>5, <3>1
    <3>3. list' # <<>>
        BY <1>5, <3>1, EmptySeq
    <3> QED
        BY <3>2, <3>3
  <2> QED
      BY <1>1, <1>7, <2>1
<1>11. stopPc' = "idle"
    BY <1>1 DEF PoolInOrder
<1> QED
    BY <1>1, <1>3, <1>8, <1>9, <1>10, <1>11 DEF PoolInOrder

\* The slot that was going is no longer in use.
LEMMA GiveBackKeepsPool ==
    ASSUME IInv, Order, PoolInOrder, Unlink, pc = "free"
    PROVE  PoolInOrder'
<1>1. /\ pc' = "advance" /\ pool' = [pool EXCEPT ![cur] = Free]
      /\ UNCHANGED <<idx, list, txPc, adding, cur, nxt, stopPc, oops>>
    BY DEF Unlink, GiveBack, txVars, stopVars
<1>2. /\ cur \in Slots /\ pool \in [Slots -> Packet \cup {Free}] /\ Id(cur) \in Nat
      /\ \A i \in Places : Id(cur) < Id(list[i])
      /\ txPc = "add" => Id(cur) < sent /\ Id(adding) = sent
    BY Basics DEF Order, WalkInOrder, ListInOrder, Leads, IInv, TypeOK
<1>3. ~OnList(cur) /\ (txPc = "add" => adding # cur)
    BY <1>2 DEF OnList, Places
<1>4. LastSlots'
  <2>1. Coming' = Coming /\ Going = 1 /\ Going' = 0
      BY <1>1 DEF Coming, Going
  <2>2. Len(list) \in Nat /\ Coming \in {0, 1} /\ PoolLen \in Nat
      BY Basics, TxAssumption DEF Coming
  <2>3. (Going + Len(list) + Coming)' <= PoolLen
      BY <1>1, <2>1, <2>2 DEF PoolInOrder, LastSlots
  <2>4. /\ \A i \in Places' : list'[i] = Back(Len(list) + Coming + 1 - i)'
        /\ txPc' = "add" => adding' = Back(1)'
      BY <1>1, <2>1 DEF PoolInOrder, LastSlots, Places, Back
  <2> QED
      BY <1>1, <2>3, <2>4 DEF LastSlots
<1>5. ASSUME NEW s \in Slots
      PROVE  pool'[s] # Free <=> OnList(s)' \/ InHand(s)'
  <2>1. OnList(s)' <=> OnList(s)
      BY <1>1 DEF OnList
  <2>2. InHand(s)' <=> InHand(s) /\ s # cur
      BY <1>1, <1>3 DEF InHand
  <2>3. CASE s = cur
      BY <1>1, <1>2, <1>3, <2>1, <2>2, <2>3
  <2>4. CASE s # cur
      BY <1>1, <1>2, <2>1, <2>2, <2>4 DEF PoolInOrder
  <2> QED
      BY <2>3, <2>4
<1> QED
    BY <1>1, <1>4, <1>5 DEF PoolInOrder

\* Nothing that concerns the pool, the list or a hand changes.
PoolUntouched ==
    /\ UNCHANGED <<pool, idx, list, adding, cur, stopPc>> /\ ~oops'
    /\ (txPc = "add") = (txPc' = "add") /\ (pc = "free") = (pc' = "free")

LEMMA UntouchedKeepsPool ==
    ASSUME PoolInOrder, PoolUntouched,
           pc' \in {"next", "write", "unlink"} => list # <<>> /\ cur = list[1],
           pc' \in {"write", "unlink"} => nxt' = HEAD \/ (Len(list) > 1 /\ nxt' = list[2]),
           pc' \in {"free", "advance"} => nxt' = HEAD \/ (list # <<>> /\ nxt' = list[1])
    PROVE  PoolInOrder'
BY DEF PoolInOrder, PoolUntouched, LastSlots, Coming, Going, InHand, Places, OnList, Back

LEMMA PoolKept ==
    ASSUME IInv, Next, stops' = 0
    PROVE  PoolInOrder'
<1>1. ~oops /\ Order
    BY DEF Next, TxWork, TxStop, DataTx, ListPacket, StartWork, FirstPacket, LookAhead, WritePacket,
           Unlink, Advance, Stop, StopLookAhead, StopUnlink, StopAdvance, SlaveReads, NotifyTx, IInv
<1>2. stops \in Nat
    BY TxAssumption DEF IInv, TypeOK
<1>3. ~Stop
    BY <1>2 DEF Stop
<1>4. stops' = stops
    BY <1>3 DEF Next, TxWork, TxStop, DataTx, ListPacket, StartWork, FirstPacket, LookAhead,
                WritePacket, Unlink, Advance, StopLookAhead, StopUnlink, StopAdvance, SlaveReads,
                NotifyTx, stopVars
<1>5. PoolInOrder
    BY <1>4 DEF IInv
<1>6. ~StopLookAhead /\ ~StopUnlink /\ ~StopAdvance
    BY <1>5 DEF PoolInOrder, StopLookAhead, StopUnlink, StopAdvance
<1>7. ASSUME NEW n \in Lens, DataTx(n)
      PROVE  PoolInOrder'
    BY <1>5, <1>7, DataTxKeepsPool
<1>8. CASE Unlink
    BY <1>1, <1>5, <1>8, TakeOffKeepsPool, GiveBackKeepsPool DEF Unlink
<1>9. CASE ListPacket
  <2>1. CASE txPc = "add"
      BY <1>5, <1>9, <2>1, AddKeepsPool
  <2>2. CASE txPc # "add"
    <3>1. PoolUntouched /\ UNCHANGED <<pc, nxt>>
        BY <1>9, <2>2 DEF ListPacket, QueueWork, workVars, stopVars, PoolUntouched
    <3> QED
        BY <1>5, <3>1, UntouchedKeepsPool DEF PoolInOrder
  <2> QED
      BY <2>1, <2>2
<1>10. CASE StartWork
  <2>1. PoolUntouched /\ pc' = "first"
      BY <1>10 DEF StartWork, txVars, stopVars, PoolUntouched
  <2> QED
      BY <1>5, <2>1, UntouchedKeepsPool
<1>11. CASE FirstPacket
  <2>1. /\ UNCHANGED <<pool, idx, list, txPc, adding, stopPc, oops>> /\ pc = "first"
        /\ cur' = First /\ pc' = IF list = <<>> THEN "idle" ELSE "next"
      BY <1>11 DEF FirstPacket, listVars, txVars, stopVars
  <2>2. list # <<>> => First = list[1]
      BY DEF First
  <2> QED
      BY <1>5, <2>1, <2>2
      DEF PoolInOrder, LastSlots, Coming, Going, InHand, Places, OnList, Back
<1>12. CASE LookAhead
  <2>1. PoolUntouched /\ pc = "next" /\ pc' = "write" /\ nxt' = After(cur)
      BY <1>12 DEF LookAhead, listVars, txVars, stopVars, PoolUntouched
  <2>2. list # <<>> /\ cur = list[1]
      BY <1>5, <2>1 DEF PoolInOrder
  <2>3. nxt' = HEAD \/ (Len(list) > 1 /\ nxt' = list[2])
      BY <1>1, <2>1, <2>2, AfterFirst
  <2> QED
      BY <1>5, <2>1, <2>2, <2>3, UntouchedKeepsPool
<1>13. CASE Advance
  <2>1. /\ UNCHANGED <<pool, idx, list, txPc, adding, stopPc>> /\ pc = "advance"
        /\ oops' = (nxt = POISON)
        /\ cur' = nxt /\ nxt' = IF nxt \in Slots THEN After(nxt) ELSE HEAD
        /\ pc' = IF nxt = HEAD THEN "idle" ELSE "write"
      BY <1>13 DEF Advance, listVars, txVars, stopVars
  <2>2. nxt = HEAD \/ (list # <<>> /\ nxt = list[1] /\ nxt \in Slots)
      BY <1>5, <2>1, Basics, FirstType DEF PoolInOrder
  <2>3. ~oops'
    <3>1. HEAD # POISON
        BY DEF HEAD, POISON
    <3>2. nxt # POISON
        BY <2>2, <3>1, Basics
    <3> QED
        BY <2>1, <3>2
  <2>4. nxt # HEAD => /\ list # <<>> /\ cur' = list[1]
                      /\ nxt' = HEAD \/ (Len(list) > 1 /\ nxt' = list[2])
      BY <1>1, <2>1, <2>2, AfterFirst
  <2> QED
      BY <1>5, <2>1, <2>3, <2>4
      DEF PoolInOrder, LastSlots, Coming, Going, InHand, Places, OnList, Back
<1>14. CASE WritePacket
  <2>1. PoolUntouched /\ pc = "write" /\ pc' = "unlink" /\ nxt' = nxt
      BY <1>14 DEF WritePacket, listVars, txVars, stopVars, PoolUntouched
  <2> QED
      BY <1>5, <2>1, UntouchedKeepsPool DEF PoolInOrder
<1>15. CASE SlaveReads
  <2>1. PoolUntouched /\ UNCHANGED <<pc, nxt>>
      BY <1>15 DEF SlaveReads, listVars, txVars, workVars, stopVars, PoolUntouched
  <2> QED
      BY <1>5, <2>1, UntouchedKeepsPool DEF PoolInOrder
<1>16. CASE NotifyTx
  <2>1. PoolUntouched /\ UNCHANGED <<pc, nxt>>
      BY <1>16 DEF NotifyTx, txVars, workVars, stopVars, PoolUntouched
  <2> QED
      BY <1>5, <2>1, UntouchedKeepsPool DEF PoolInOrder
<1> QED
    BY <1>3, <1>6, <1>7, <1>8, <1>9, <1>10, <1>11, <1>12, <1>13, <1>14, <1>15, <1>16
    DEF Next, TxWork, TxStop

LEMMA StepHolds == IInv /\ [Next]_vars => IInv'
<1> SUFFICES ASSUME IInv, [Next]_vars
             PROVE  IInv'
    OBVIOUS
<1>1. CASE Next
    BY <1>1, TypesKept, RingKept, OrderKept, PoolKept DEF IInv
<1>2. CASE UNCHANGED vars
  <2>1. UNCHANGED <<listVars, txVars, workVars, stopVars, ringVars, slaveVars, sent, faults, oops>>
      BY <1>2 DEF vars
  <2>2. TypeOK' /\ Sorted'
      BY <2>1
      DEF IInv, TypeOK, Sorted, listVars, txVars, workVars, stopVars, ringVars, slaveVars
  <2>3. Ring'
      BY <2>1, OthersKeepRing DEF IInv, ringVars, slaveVars
  <2>4. ~oops' => Order'
      BY <2>1 DEF IInv, Order, ListInOrder, WalkInOrder, Leads, StopValid, Places, Id, LastId,
                  listVars, txVars, workVars, stopVars, ringVars
  <2>5. stops' = 0 => PoolInOrder'
      BY <2>1 DEF IInv, PoolInOrder, LastSlots, Coming, Going, InHand, Places, OnList, Back,
                  listVars, txVars, workVars, stopVars
  <2> QED
      BY <2>2, <2>3, <2>4, <2>5 DEF IInv
<1> QED
    BY <1>1, <1>2

LEMMA IInvHolds == Spec => []IInv
BY InitHolds, StepHolds, PTL DEF Spec

-----------------------------------------------------------------------------
(* What the invariant of TxPath gives *)

\* mt7697_data_tx(), mt7697_tx_work(), mt7697_tx_stop() and mt7697q_write() keep their
\* variables in range, the offsets of the ring among them.
THEOREM TxTypes == Spec => []TypeOK
<1>1. IInv => TypeOK
    BY DEF IInv
<1> QED
    BY <1>1, IInvHolds, PTL

\* mt7697q_write(): what the slave reads is whole packets in the order they were given,
\* whatever was refused, failed or was stopped, and however the work and
\* mt7697_tx_stop() go over the list.
THEOREM StreamStaysWhole == Spec => []StreamWhole
<1>1. IInv => StreamWhole
    BY RingIsStream DEF IInv, StreamWhole, Sorted
<1> QED
    BY <1>1, IInvHolds, PTL

\* mt7697_tx_work() walks tx_skb_list without its lock while mt7697_data_tx() adds to it:
\* until mt7697_tx_stop() is called it follows no stale pointer, a slot is on the list once
\* and with a packet in it, a packet is off the list only between its slot's being taken
\* and list_add_tail() or between list_del() and skb = NULL, and a packet is turned away
\* only when every slot has one.
THEOREM PoolStaysSound == Spec => []PoolSound
<1>1. ASSUME IInv
      PROVE  PoolSound
  <2> SUFFICES ASSUME stops = 0
               PROVE  /\ ~oops
                      /\ \A i, k \in 1 .. Len(list) : list[i] = list[k] => i = k
                      /\ \A s \in Slots : pool[s] # Free <=> OnList(s) \/ InHand(s)
                      /\ \A s \in Slots : InHand(s) => ~OnList(s)
                      /\ pool[idx] # Free => \A s \in Slots : pool[s] # Free
      BY DEF PoolSound
  <2>1. PoolInOrder /\ Order
      BY <1>1 DEF IInv, PoolInOrder
  <2>2. ASSUME NEW i \in 1 .. Len(list), NEW k \in 1 .. Len(list), list[i] = list[k]
        PROVE  i = k
    <3>1. OnList(list[i])
        BY DEF OnList
    <3> QED
        BY <1>1, <2>1, <2>2, <3>1, PositionByOrder DEF Places
  <2>3. ASSUME NEW s \in Slots, InHand(s)
        PROVE  ~OnList(s)
    <3>1. Id(s) \in Nat
        BY <1>1, Basics
    <3>2. CASE txPc = "add" /\ s = adding
      <4>1. Id(s) = sent /\ \A i \in Places : Id(list[i]) < sent
          BY <2>1, <3>2 DEF Order, ListInOrder
      <4> QED
          BY <3>1, <4>1 DEF OnList, Places
    <3>3. CASE pc = "free" /\ s = cur
      <4>1. \A i \in Places : Id(s) < Id(list[i])
          BY <2>1, <3>3 DEF Order, WalkInOrder, Leads
      <4> QED
          BY <3>1, <4>1 DEF OnList, Places
    <3> QED
        BY <2>3, <3>2, <3>3 DEF InHand
  <2>4. pool[idx] # Free => \A s \in Slots : pool[s] # Free
      BY <1>1, <2>1, FullPoolHoldsAll
  <2> QED
      BY <2>1, <2>2, <2>3, <2>4 DEF PoolInOrder
<1> QED
    BY <1>1, IInvHolds, PTL

-----------------------------------------------------------------------------
(* Reading the buffer: entries *)

\* A set of natural numbers that is not empty has a least element.
LEMMA MinIsLeast ==
    ASSUME NEW T, T \subseteq Nat, T # {}
    PROVE  Min(T) \in T /\ \A j \in T : Min(T) <= j
<1> DEFINE R == OpToRel(<, Nat)
<1>1. IsWellFoundedOn(R, Nat)
    BY NatLessThanWellFounded, Zenon
<1>2. \A i, j \in Nat : i < j => <<i, j>> \in R
    <2> SUFFICES ASSUME NEW i \in Nat, NEW j \in Nat, i < j
                 PROVE  <<i, j>> \in {ss \in Nat \X Nat : ss[1] < ss[2]}
        BY Zenon DEF OpToRel
    <2>1. <<i, j>> \in Nat \X Nat /\ <<i, j>>[1] = i /\ <<i, j>>[2] = j
        OBVIOUS
    <2> QED
        BY <2>1
<1> HIDE DEF R
<1>3. PICK k \in T : \A j \in T : ~(<<j, k>> \in R)
    BY <1>1, WFMin
<1>4. \A j \in T : ~(j < k)
    BY <1>2, <1>3
<1>5. \E x \in T : \A j \in T : x =< j
    BY <1>4
<1>6. Min(T) = CHOOSE x \in T : \A j \in T : x =< j
    BY DEF Min
<1> HIDE DEF Min
<1> QED
    BY <1>5, <1>6, Zenon

ReadOp ==
    [state: Phases \cup {"none", "LE_OK", "LE_COMM_ERROR"},
     next: Entries, loaded: Entries, from: Entries,
     sent: Seq(Entries),
     seen: Entries, shared: BOOLEAN]

LEMMA ReadBasics ==
    ASSUME ReadTypeOK
    PROVE  /\ Newest \in Nat /\ Newest <= MaxSamples /\ MaxSamples \in Nat
           /\ oldest \in Nat /\ 1 <= oldest /\ oldest <= Newest + 1
           /\ Buffer \subseteq 1 .. Newest
           /\ \A e \in Entries : e \in Nat
           /\ \A n \in Nat : n <= Newest => n \in Entries
           /\ \A n : n \in Buffer <=> n \in Nat /\ oldest <= n /\ n <= Newest
           /\ \A r \in Readers : reads[r] \in ReadOp
<1>1. Newest \in Nat /\ Newest <= MaxSamples /\ MaxSamples \in Nat
    BY ReadAssumption, LenProperties DEF ReadTypeOK, Newest
<1>2. oldest \in 1 .. Newest + 1
    BY DEF ReadTypeOK
<1> HIDE DEF Newest
<1>3. \A r \in Readers : reads[r] \in ReadOp
    BY DEF ReadTypeOK, ReadOp
<1> QED
    BY <1>1, <1>2, <1>3 DEF Buffer, Entries

\* An entry of the list is held by the list and by the operation that looks at it.
LEMMA RefsOfBuffered ==
    ASSUME NEW r \in Readers, NEW e
    PROVE  /\ RefCount(r, e) \in Nat /\ RefCount(r, e) >= 1
           /\ e \in Buffer => RefCount(r, e) >= 2
<1> DEFINE H == {r} \cup {q \in Readers : reads[q].next = e}
<1>1. IsFiniteSet(H)
  <2>1. IsFiniteSet(Readers) /\ H \in SUBSET Readers
      BY ReadAssumption
  <2> QED
      BY <2>1, FS_Subset
<1>2. Cardinality(H) \in Nat /\ Cardinality(H) >= 1
  <2>1. IsFiniteSet({r}) /\ Cardinality({r}) = 1
      BY FS_Singleton
  <2>2. {r} \in SUBSET H
      OBVIOUS
  <2>3. Cardinality({r}) <= Cardinality(H) /\ Cardinality(H) \in Nat
      BY <1>1, <2>2, FS_Subset, FS_CardinalityType
  <2> QED
      BY <2>1, <2>3
<1>3. RefCount(r, e) = (IF e \in Buffer THEN 1 ELSE 0) + Cardinality(H)
    BY DEF RefCount
<1> HIDE DEF H
<1> QED
    BY <1>2, <1>3

\* What LoadReadOpBuffer() loads is not before the entry the operation held, and
\* nothing it could have loaded lies between, unless the entry was off the list and
\* held by another operation as well.
LEMMA FoundIs ==
    ASSUME ReadTypeOK, NEW r \in Readers, NEW n \in Nat, n <= Newest
    PROVE  LET f == FirstFitting(LoadFrom(r, n)) IN
           /\ f \in Nat /\ f <= Newest
           /\ n = NULL => f = NULL
           /\ f # NULL => n <= f
           /\ n # NULL /\ ~OffTheList(r, n) =>
                 /\ \A x \in Buffer : samples[x].fits /\ (f = NULL \/ x < f) => x < n
                 /\ f # NULL => f \in Buffer
<1> DEFINE e == LoadFrom(r, n)
           f == FirstFitting(e)
<1>1. /\ Newest \in Nat /\ oldest \in Nat /\ 1 <= oldest /\ oldest <= Newest + 1
      /\ \A x : x \in Buffer <=> x \in Nat /\ oldest <= x /\ x <= Newest
      /\ NULL = 0
    BY ReadBasics DEF NULL
<1> HIDE DEF Newest, Buffer, NULL
<1>2. /\ n = NULL => e = NULL
      /\ n \in Buffer => e = n
      /\ n # NULL /\ n \notin Buffer => \/ e = n /\ OffTheList(r, n)
                                        \/ e = OldestEntry /\ ~OffTheList(r, n)
  <2> DEFINE c == RefCount(r, n)
  <2>1. c \in Nat /\ c >= 1 /\ (n \in Buffer => c # 1) /\ (c > 1 <=> c # 1)
      BY RefsOfBuffered
  <2>2. e = IF n # NULL /\ c = 1 THEN OldestEntry ELSE n
      BY DEF LoadFrom
  <2>3. OffTheList(r, n) <=> n # NULL /\ n \notin Buffer /\ c > 1
      BY DEF OffTheList
  <2> HIDE DEF c, e
  <2> QED
      BY <2>1, <2>2, <2>3
<1>3. n # NULL /\ n \notin Buffer => n < oldest
    BY <1>1
<1>4. /\ OldestEntry \in Nat
      /\ OldestEntry = NULL => Buffer = {}
      /\ OldestEntry # NULL => OldestEntry = oldest /\ oldest \in Buffer
    BY <1>1 DEF OldestEntry
<1>5. e \in Nat /\ (e # NULL => n <= e /\ e <= Newest)
    BY <1>1, <1>2, <1>3, <1>4
<1> HIDE DEF e
<1>6. /\ e \in Buffer => Fitting(e) = {x \in e .. Newest : samples[x].fits}
      /\ e \notin Buffer => Fitting(e) \subseteq {e} \ {NULL}
    BY DEF Fitting
<1>7. \A x \in Fitting(e) : x \in Nat /\ e <= x /\ x <= Newest /\ x # NULL
                            /\ (e \in Buffer => x \in Buffer)
  <2>1. CASE e \in Buffer
      BY <1>1, <1>6, <2>1
  <2>2. CASE e \notin Buffer
      BY <1>5, <1>6, <2>2
  <2> QED
      BY <2>1, <2>2
<1>8. Fitting(e) # {} => f \in Fitting(e) /\ \A x \in Fitting(e) : f <= x
  <2> SUFFICES ASSUME Fitting(e) # {}
               PROVE  f \in Fitting(e) /\ \A x \in Fitting(e) : f <= x
      OBVIOUS
  <2>1. f = Min(Fitting(e)) /\ Fitting(e) \subseteq Nat
      BY <1>7 DEF FirstFitting
  <2> QED
      BY <2>1, MinIsLeast
<1>9. Fitting(e) = {} => f = NULL
    BY DEF FirstFitting
<1> HIDE DEF f
<1>10. f \in Nat /\ f <= Newest
    BY <1>1, <1>7, <1>8, <1>9
<1>11. n = NULL => f = NULL
  <2> SUFFICES ASSUME n = NULL
               PROVE  f = NULL
      OBVIOUS
  <2>1. e = NULL /\ e \notin Buffer
      BY <1>1, <1>2
  <2> QED
      BY <1>6, <1>9, <2>1
<1>12. f # NULL => n <= f
  <2> SUFFICES ASSUME f # NULL
               PROVE  n <= f
      OBVIOUS
  <2>1. f \in Fitting(e)
      BY <1>8, <1>9
  <2>2. e <= f /\ e \in Nat
      BY <1>5, <1>7, <2>1
  <2>3. e # NULL
      BY <1>6, <1>7, <2>1, <1>1
  <2> QED
      BY <1>5, <1>10, <2>2, <2>3
<1>13. ASSUME n # NULL, ~OffTheList(r, n)
       PROVE  /\ \A x \in Buffer : samples[x].fits /\ (f = NULL \/ x < f) => x < n
              /\ f # NULL => f \in Buffer
  <2>1. \/ n \in Buffer /\ e = n
        \/ n \notin Buffer /\ e = OldestEntry
      BY <1>2, <1>13
  <2>2. CASE e \in Buffer
    <3>1. \A x \in Buffer : samples[x].fits /\ e <= x => x \in Fitting(e)
        BY <1>1, <1>6, <2>2
    <3>2. \A x \in Buffer : samples[x].fits /\ (f = NULL \/ x < f) => ~(e <= x)
        BY <1>1, <1>7, <1>8, <1>9, <1>10, <3>1
    <3>3. e = n \/ e = oldest
        BY <1>1, <1>4, <2>1, <2>2
    <3>4. \A x \in Buffer : ~(e <= x) => x < n
        BY <1>1, <3>3
    <3> QED
        BY <1>7, <1>8, <1>9, <2>2, <3>2, <3>4
  <2>3. CASE e \notin Buffer
    <3>1. Buffer = {} /\ e = NULL
        BY <1>4, <2>1, <2>3
    <3> QED
        BY <1>6, <1>9, <3>1
  <2> QED
      BY <2>2, <2>3
<1> QED
    BY <1>10, <1>11, <1>12, <1>13 DEF e, f

-----------------------------------------------------------------------------
(* Reading the buffer: the invariant of an operation *)

SentEntries(op) == {op.sent[i] : i \in DOMAIN op.sent}

\* What was written, what is loaded and what comes next follow each other.
Forward(op) ==
    /\ op.next <= Newest /\ op.loaded <= Newest /\ op.seen <= Newest
    /\ \A i, j \in DOMAIN op.sent : i < j => op.sent[i] < op.sent[j]
    /\ op.loaded # NULL => \A i \in DOMAIN op.sent : op.sent[i] < op.loaded
    /\ op.loaded # NULL /\ op.next # NULL => op.loaded < op.next
    /\ op.loaded = NULL => op.next = NULL
    /\ op.state \in {"SAMPLE", "COMMA"} => op.loaded # NULL
    /\ op.state = "START" => op.sent = <<>>
    /\ op.state = "END" => op.loaded = NULL

Passed(op) ==
    {e \in Buffer : /\ op.from # NULL /\ e >= op.from
                    /\ samples[e].fits
                    /\ IF op.next # NULL THEN e < op.next ELSE e <= op.seen}

Whole(op) == ~op.shared => Passed(op) \subseteq SentEntries(op) \cup {op.loaded}

ReadInv ==
    /\ ReadTypeOK
    /\ \A r \in Readers : Forward(reads[r])
    /\ \A r \in Readers : Served(r) => Whole(reads[r])
    /\ running \in Readers => Active(running)

\* The fields that LoadReadOpBuffer() sets, and what it keeps.
LEMMA LoadIs ==
    ASSUME ReadTypeOK, NEW r \in Readers, NEW op \in ReadOp, op.next <= Newest, op.seen <= Newest
    PROVE  LET l == Load(r, op) IN
           /\ l \in ReadOp
           /\ l.state = op.state /\ l.from = op.from /\ l.sent = op.sent
           /\ l.next <= Newest /\ l.loaded <= Newest /\ l.seen <= Newest
           /\ l.loaded # NULL => op.next # NULL /\ op.next <= l.loaded
           /\ l.loaded = NULL => l.next = NULL
           /\ l.next # NULL => l.loaded < l.next
           /\ ~l.shared => ~op.shared /\ Passed(l) \subseteq Passed(op) \cup {l.loaded}
<1> DEFINE n == op.next
           f == FirstFitting(LoadFrom(r, n))
           l == Load(r, op)
           m == IF f = NULL THEN NULL ELSE NextEntry(f)
           s == IF n = NULL THEN op.seen ELSE Newest
           b == op.shared \/ OffTheList(r, n)
<1>1. l = [op EXCEPT !.loaded = f, !.next = m, !.seen = s, !.shared = b]
    BY DEF Load
<1>2. /\ Newest \in Nat /\ oldest \in Nat /\ 1 <= oldest /\ NULL = 0
      /\ \A x : x \in Buffer <=> x \in Nat /\ oldest <= x /\ x <= Newest
      /\ \A k \in Nat : k <= Newest => k \in Entries
      /\ n \in Entries /\ n \in Nat /\ op.seen \in Entries /\ op.seen \in Nat /\ op.shared \in BOOLEAN
  <2>1. n \in Entries /\ op.seen \in Entries /\ op.shared \in BOOLEAN
      BY DEF ReadOp
  <2> QED
      BY <2>1, ReadBasics DEF NULL
<1> HIDE DEF Newest, Buffer, NULL
<1>3. /\ f \in Nat /\ f <= Newest
      /\ n = NULL => f = NULL
      /\ f # NULL => n <= f
      /\ n # NULL /\ ~OffTheList(r, n) =>
            /\ \A x \in Buffer : samples[x].fits /\ (f = NULL \/ x < f) => x < n
            /\ f # NULL => f \in Buffer
    BY <1>2, FoundIs
<1> HIDE DEF f
<1>4. /\ m \in Nat /\ m <= Newest
      /\ m # NULL => f # NULL /\ m = f + 1
      /\ f # NULL /\ f \in Buffer /\ m = NULL => f = Newest
    BY <1>2, <1>3 DEF NextEntry
<1>5. s \in Nat /\ s <= Newest /\ s \in Entries /\ b \in BOOLEAN
    BY <1>2 DEF OffTheList
<1>6. l \in ReadOp
  <2>1. f \in Entries /\ m \in Entries
      BY <1>2, <1>3, <1>4
  <2> HIDE DEF l, m, s, b
  <2> QED
      BY <1>1, <1>5, <2>1 DEF ReadOp
<1>7. /\ l.loaded = f /\ l.next = m /\ l.seen = s /\ l.shared = b
      /\ l.state = op.state /\ l.from = op.from /\ l.sent = op.sent
  <2> HIDE DEF l, m, s, b
  <2> QED
      BY <1>1 DEF ReadOp
<1>8. ASSUME ~l.shared
      PROVE  ~op.shared /\ Passed(l) \subseteq Passed(op) \cup {l.loaded}
  <2>1. ~op.shared /\ ~OffTheList(r, n)
      BY <1>7, <1>8
  <2>2. ASSUME NEW x \in Passed(l), x # f
        PROVE  x \in Passed(op)
    <3>1. /\ x \in Buffer /\ x \in Nat /\ op.from # NULL /\ x >= op.from /\ samples[x].fits
          /\ IF m # NULL THEN x < m ELSE x <= s
        BY <1>2, <1>7, <2>2 DEF Passed
    <3>2. CASE n = NULL
      <4>1. f = NULL /\ m = NULL /\ s = op.seen
          BY <1>3, <3>2
      <4> QED
          BY <3>1, <3>2, <4>1 DEF Passed
    <3>3. CASE n # NULL
      <4>1. f = NULL \/ x < f
        <5>1. CASE m # NULL
            BY <1>3, <1>4, <2>2, <3>1, <5>1
        <5>2. CASE m = NULL /\ f # NULL
          <6>1. f = Newest /\ x <= Newest
              BY <1>2, <1>3, <1>4, <2>1, <3>1, <3>3, <5>2
          <6> QED
              BY <1>3, <2>2, <3>1, <6>1
        <5> QED
            BY <5>1, <5>2
      <4>2. x < n
          BY <1>3, <2>1, <3>1, <3>3, <4>1
      <4> QED
          BY <3>1, <3>3, <4>2 DEF Passed
    <3> QED
        BY <3>2, <3>3
  <2> QED
      BY <1>7, <2>1, <2>2
<1> HIDE DEF m, s, b, l
<1>9. /\ l.next <= Newest /\ l.loaded <= Newest /\ l.seen <= Newest
      /\ l.loaded # NULL => op.next # NULL /\ op.next <= l.loaded
      /\ l.loaded = NULL => l.next = NULL
      /\ l.next # NULL => l.loaded < l.next
  <2>1. f = NULL => m = NULL
      BY DEF m
  <2> QED
      BY <1>3, <1>4, <1>5, <1>7, <2>1
<1> QED
    BY <1>6, <1>7, <1>8, <1>9 DEF l

\* obs_ReadBufferJson() finds an entry of the buffer, or none.
LEMMA StartIs ==
    ASSUME ReadTypeOK, NEW start \in Starts
    PROVE  StartEntry(start) \in Nat /\ StartEntry(start) <= Newest
<1> DEFINE found == {e \in Buffer : samples[e].stamp >= start.stamp}
           e == FindBufferEntry(start.stamp)
<1>1. Newest \in Nat /\ NULL = 0 /\ \A x \in Buffer : x \in Nat /\ x <= Newest
    BY ReadBasics DEF NULL
<1>2. e = IF found = {} THEN NULL ELSE Min(found)
    BY DEF FindBufferEntry
<1>3. found # {} => Min(found) \in found
  <2>1. found \subseteq Nat
      BY <1>1
  <2> HIDE DEF found
  <2> QED
      BY <2>1, MinIsLeast
<1>4. e \in Nat /\ e <= Newest
    BY <1>1, <1>2, <1>3
<1>5. NextEntry(e) \in Nat /\ NextEntry(e) <= Newest
    BY <1>1, <1>4 DEF NextEntry
<1> HIDE DEF e, Newest
<1> QED
    BY <1>4, <1>5 DEF StartEntry, e

\* LoadReadOpBuffer() when a read begins.
LEMMA StartKeeps ==
    ASSUME ReadTypeOK, NEW r \in Readers, NEW n \in Nat, n <= Newest
    PROVE  LET l == Load(r, [Idle EXCEPT !.state = "START", !.next = n, !.from = n]) IN
           l \in ReadOp /\ l.state = "START" /\ Forward(l) /\ Whole(l)
<1> DEFINE op == [Idle EXCEPT !.state = "START", !.next = n, !.from = n]
           l == Load(r, op)
<1>1. /\ Newest \in Nat /\ 0 \in Entries /\ n \in Entries /\ NULL = 0
      /\ \A x \in Buffer : x \in Nat
    BY ReadBasics DEF NULL
<1>2. /\ Idle \in ReadOp /\ Idle.seen = 0 /\ Idle.sent = <<>>
  <2>1. <<>> \in Seq(Entries)
      OBVIOUS
  <2> QED
      BY <1>1, <2>1 DEF Idle, ReadOp
<1> HIDE DEF Newest
<1>3. op \in ReadOp
    BY <1>1, <1>2 DEF ReadOp, Phases
<1>4. op.next = n /\ op.seen = 0 /\ op.state = "START" /\ op.from = n /\ op.sent = <<>>
    BY <1>2 DEF ReadOp
<1> HIDE DEF op
<1>5. op.next <= Newest /\ op.seen <= Newest
    BY <1>1, <1>4
<1>6. /\ l \in ReadOp
      /\ l.state = op.state /\ l.from = op.from /\ l.sent = op.sent
      /\ l.next <= Newest /\ l.loaded <= Newest /\ l.seen <= Newest
      /\ l.loaded = NULL => l.next = NULL
      /\ l.next # NULL => l.loaded < l.next
      /\ ~l.shared => Passed(l) \subseteq Passed(op) \cup {l.loaded}
    BY <1>3, <1>5, LoadIs
<1> HIDE DEF l
<1>7. Passed(op) = {}
    BY <1>1, <1>4 DEF Passed
<1>8. DOMAIN l.sent = {}
    BY <1>4, <1>6
<1>9. Forward(l)
    BY <1>4, <1>6, <1>8 DEF Forward
<1>10. Whole(l)
    BY <1>6, <1>7 DEF Whole
<1> QED
    BY <1>4, <1>6, <1>9, <1>10 DEF l, op

\* A turn of the loop of ContinueReadOp().
LEMMA TurnKeeps ==
    ASSUME ReadTypeOK, NEW r \in Readers, NEW op \in ReadOp, op.state \in Phases,
           Forward(op), Whole(op)
    PROVE  LET a == Advanced(r, op) IN
           /\ a \in ReadOp /\ Forward(a) /\ Whole(a)
           /\ IF op.state = "END" THEN a.state = "LE_OK" ELSE a.state \in Phases
<1> DEFINE a == Advanced(r, op)
           l == Load(r, op)
<1>1. ASSUME NEW st \in Phases \cup {"LE_OK"}, a = [op EXCEPT !.state = st],
             st \in {"SAMPLE", "COMMA"} => op.loaded # NULL,
             st = "END" => op.loaded = NULL, st # "START"
      PROVE  a \in ReadOp /\ Forward(a) /\ Whole(a) /\ a.state = st
  <2> HIDE DEF a
  <2>1. /\ a.state = st /\ a.next = op.next /\ a.loaded = op.loaded /\ a.from = op.from
        /\ a.sent = op.sent /\ a.seen = op.seen /\ a.shared = op.shared
      BY <1>1 DEF ReadOp
  <2>2. a \in ReadOp
      BY <1>1 DEF ReadOp
  <2>3. Forward(a)
      BY <1>1, <2>1 DEF Forward
  <2>4. Whole(a)
      BY <2>1 DEF Whole, Passed, SentEntries
  <2> QED
      BY <2>1, <2>2, <2>3, <2>4
<1>2. CASE op.state = "START"
  <2>1. a = [op EXCEPT !.state = IF op.loaded # NULL THEN "SAMPLE" ELSE "END"]
      BY <1>2 DEF Advanced
  <2> HIDE DEF a
  <2>2. CASE op.loaded # NULL
      BY <1>1, <1>2, <2>1, <2>2 DEF Phases, a
  <2>3. CASE op.loaded = NULL
      BY <1>1, <1>2, <2>1, <2>3 DEF Phases, a
  <2> QED
      BY <2>2, <2>3 DEF a
<1>3. CASE op.state = "COMMA"
  <2>1. a = [op EXCEPT !.state = "SAMPLE"]
      BY <1>3 DEF Advanced
  <2>2. op.loaded # NULL
      BY <1>3 DEF Forward
  <2> HIDE DEF a
  <2> QED
      BY <1>1, <1>3, <2>1, <2>2 DEF Phases, a
<1>4. CASE op.state = "END"
  <2>1. a = [op EXCEPT !.state = "LE_OK"]
      BY <1>4 DEF Advanced
  <2> HIDE DEF a
  <2> QED
      BY <1>1, <1>4, <2>1 DEF Phases, a
<1>5. CASE op.state = "SAMPLE"
  <2>1. a = [l EXCEPT !.sent = Append(l.sent, op.loaded),
                      !.state = IF l.loaded # NULL THEN "COMMA" ELSE "END"]
      BY <1>5 DEF Advanced
  <2>2. op.next <= Newest /\ op.seen <= Newest /\ op.loaded # NULL
      BY <1>5 DEF Forward
  <2>3. /\ l \in ReadOp /\ l.from = op.from /\ l.sent = op.sent
        /\ l.next <= Newest /\ l.loaded <= Newest /\ l.seen <= Newest
        /\ l.loaded # NULL => op.next # NULL /\ op.next <= l.loaded
        /\ l.loaded = NULL => l.next = NULL
        /\ l.next # NULL => l.loaded < l.next
        /\ ~l.shared => ~op.shared /\ Passed(l) \subseteq Passed(op) \cup {l.loaded}
      BY <2>2, LoadIs
  <2> HIDE DEF a, l
  <2> DEFINE st == IF l.loaded # NULL THEN "COMMA" ELSE "END"
             k == Len(op.sent)
  <2>4. /\ op.sent \in Seq(Entries) /\ op.loaded \in Entries /\ k \in Nat
        /\ DOMAIN op.sent = 1 .. k
        /\ op.next \in Nat /\ op.loaded \in Nat /\ l.loaded \in Nat
        /\ \A i \in 1 .. k : op.sent[i] \in Nat
    <3>1. /\ op.sent \in Seq(Entries) /\ op.loaded \in Entries /\ op.next \in Entries
          /\ l.loaded \in Entries
        BY <2>3 DEF ReadOp
    <3> QED
        BY <3>1, ReadBasics, LenProperties, ElementOfSeq
  <2>5. /\ a.sent = Append(op.sent, op.loaded) /\ a.state = st
        /\ a.next = l.next /\ a.loaded = l.loaded /\ a.from = l.from
        /\ a.seen = l.seen /\ a.shared = l.shared
      BY <2>1, <2>3 DEF ReadOp
  <2>6. /\ a.sent \in Seq(Entries) /\ DOMAIN a.sent = 1 .. k + 1
        /\ \A i \in 1 .. k : a.sent[i] = op.sent[i]
        /\ a.sent[k + 1] = op.loaded
      BY <2>4, <2>5, AppendProperties, LenProperties
  <2>7. a \in ReadOp
    <3>1. st \in Phases
        BY DEF Phases
    <3> HIDE DEF st
    <3>2. Append(op.sent, op.loaded) \in Seq(Entries)
        BY <2>5, <2>6
    <3> QED
        BY <2>1, <2>3, <3>1, <3>2 DEF ReadOp, st
  <2> HIDE DEF k
  <2>8. \A i \in 1 .. k + 1 : i \in 1 .. k \/ i = k + 1
      BY <2>4
  <2>9. \A i \in 1 .. k : op.sent[i] < op.loaded
      BY <2>2, <2>4 DEF Forward
  <2>10. \A i, j \in 1 .. k + 1 : i < j => a.sent[i] < a.sent[j]
    <3> SUFFICES ASSUME NEW i \in 1 .. k + 1, NEW j \in 1 .. k + 1, i < j
                 PROVE  a.sent[i] < a.sent[j]
        OBVIOUS
    <3>1. i \in 1 .. k
        BY <2>4
    <3>2. CASE j \in 1 .. k
        BY <2>4, <2>6, <3>1, <3>2 DEF Forward
    <3>3. CASE j = k + 1
        BY <2>6, <2>9, <3>1, <3>3
    <3> QED
        BY <2>8, <3>2, <3>3
  <2>11. l.loaded # NULL => \A i \in 1 .. k + 1 : a.sent[i] < l.loaded
    <3> SUFFICES ASSUME l.loaded # NULL, NEW i \in 1 .. k + 1
                 PROVE  a.sent[i] < l.loaded
        OBVIOUS
    <3>1. op.loaded < op.next /\ op.next <= l.loaded
        BY <2>2, <2>3 DEF Forward
    <3>2. op.loaded < l.loaded
        BY <2>4, <3>1
    <3>3. CASE i \in 1 .. k
        BY <2>4, <2>6, <2>9, <3>2, <3>3
    <3>4. CASE i = k + 1
        BY <2>6, <3>2, <3>4
    <3> QED
        BY <2>8, <3>3, <3>4
  <2>12. Forward(a)
      BY <2>3, <2>5, <2>6, <2>10, <2>11 DEF Forward
  <2>13. Whole(a)
    <3>1. Passed(a) = Passed(l)
        BY <2>5 DEF Passed
    <3>2. SentEntries(op) \cup {op.loaded} \subseteq SentEntries(a)
      <4>1. \A i \in 1 .. k : op.sent[i] \in SentEntries(a)
        <5>1. \A i \in 1 .. k : i \in 1 .. k + 1
            BY <2>4
        <5> QED
            BY <2>6, <5>1 DEF SentEntries
      <4>2. op.loaded \in SentEntries(a)
        <5>1. k + 1 \in 1 .. k + 1
            BY <2>4
        <5> QED
            BY <2>6, <5>1 DEF SentEntries
      <4> QED
          BY <2>4, <4>1, <4>2 DEF SentEntries
    <3>3. ~a.shared => Passed(op) \subseteq SentEntries(op) \cup {op.loaded}
        BY <2>3, <2>5 DEF Whole
    <3> QED
        BY <2>3, <2>5, <3>1, <3>2, <3>3 DEF Whole
  <2>14. a.state \in Phases
      BY <2>5 DEF Phases
  <2> QED
      BY <1>5, <2>7, <2>12, <2>13, <2>14 DEF a
<1> QED
    BY <1>2, <1>3, <1>4, <1>5 DEF Phases

-----------------------------------------------------------------------------
(* Reading the buffer: the invariant is kept *)

LEMMA ReadInitHolds == ReadInit => ReadInv
<1> SUFFICES ASSUME ReadInit
             PROVE  ReadInv
    OBVIOUS
<1>1. /\ samples = <<>> /\ oldest = 1 /\ maxCount = 0 /\ running = Nobody
      /\ \A r \in Readers : reads[r] = Idle
      /\ reads = [r \in Readers |-> Idle]
    BY DEF ReadInit
<1>2. Newest = 0 /\ samples \in Seq(Samples) /\ <<>> \in Seq(Entries) /\ 0 \in Entries
    BY <1>1, ReadAssumption DEF Newest, Entries
<1>3. Idle \in ReadOp
    BY <1>2 DEF Idle, ReadOp, NULL
<1>4. ReadTypeOK
    BY <1>1, <1>2, <1>3, ReadAssumption DEF ReadTypeOK, ReadOp
<1>5. Forward(Idle)
    BY <1>2 DEF Forward, Idle, NULL
<1>6. \A r \in Readers : ~Served(r)
    BY <1>1 DEF Served, Active, Phases, Idle
<1> QED
    BY <1>1, <1>4, <1>5, <1>6, ReadAssumption DEF ReadInv

\* Samples that come and go disturb no operation (obs_ProcessAccepted(),
\* TruncateBuffer()).
LEMMA BufferMovesOn ==
    ASSUME ReadInv, UNCHANGED <<reads, running>>, Newest' \in Nat, Newest <= Newest',
           \A e \in Buffer' : e \in Buffer \/ e > Newest,
           \A e \in Buffer : samples'[e] = samples[e]
    PROVE  /\ \A r \in Readers : Forward(reads[r])'
           /\ \A r \in Readers : Served(r)' => Whole(reads[r])'
           /\ (running \in Readers => Active(running))'
<1>1. /\ Newest \in Nat /\ \A e \in Buffer : e \in Nat
      /\ \A r \in Readers : reads[r] \in ReadOp
      /\ \A e \in Entries : e \in Nat
    BY ReadBasics DEF ReadInv
<1>2. ASSUME NEW r \in Readers
      PROVE  /\ reads[r].next \in Nat /\ reads[r].loaded \in Nat /\ reads[r].seen \in Nat
             /\ reads[r].from \in Nat /\ Forward(reads[r])
  <2>1. /\ reads[r].next \in Entries /\ reads[r].loaded \in Entries
        /\ reads[r].seen \in Entries /\ reads[r].from \in Entries
      BY <1>1 DEF ReadOp
  <2> QED
      BY <1>1, <2>1 DEF ReadInv
<1> HIDE DEF Newest
<1>3. ASSUME NEW r \in Readers
      PROVE  Forward(reads[r])'
    BY <1>1, <1>2 DEF Forward
<1>4. ASSUME NEW r \in Readers, Served(r)'
      PROVE  Whole(reads[r])'
  <2>1. Whole(reads[r])
      BY <1>4 DEF ReadInv, Served, Active
  <2>2. ASSUME NEW x \in Passed(reads[r])'
        PROVE  x \in Passed(reads[r])
    <3>1. /\ x \in Buffer' /\ reads[r].from # NULL /\ x >= reads[r].from /\ samples'[x].fits
          /\ IF reads[r].next # NULL THEN x < reads[r].next ELSE x <= reads[r].seen
        BY <2>2 DEF Passed
    <3>2. reads[r].next <= Newest /\ reads[r].seen <= Newest
        BY <1>2 DEF Forward
    <3>3. x \in Buffer
      <4>1. x > Newest => x \in Int /\ FALSE
        <5>1. x \in Int
            BY <1>1, <3>1 DEF Buffer, ReadInv, ReadTypeOK
        <5> QED
            BY <1>1, <1>2, <3>1, <3>2, <5>1
      <4> QED
          BY <3>1, <4>1
    <3> QED
        BY <3>1, <3>3 DEF Passed
  <2> QED
      BY <2>1, <2>2 DEF Whole, SentEntries
<1>5. (running \in Readers => Active(running))'
    BY DEF ReadInv, Active
<1> QED
    BY <1>3, <1>4, <1>5

LEMMA ProcessAcceptedKeeps ==
    ASSUME ReadInv, NEW s \in Samples, NEW typeChanged \in BOOLEAN,
           ProcessAccepted(s, typeChanged)
    PROVE  ReadInv'
<1> DEFINE first == IF typeChanged THEN Newest + 1 ELSE oldest
           dropped == first <= Newest /\ samples[Newest].stamp > s.stamp
<1>1. /\ running = Nobody /\ Newest < MaxSamples /\ maxCount > 0
      /\ samples' = IF dropped THEN samples ELSE Append(samples, s)
      /\ oldest' = Truncated(first, Len(samples'), maxCount)
      /\ UNCHANGED <<maxCount, reads, running>>
    BY DEF ProcessAccepted
<1>2. /\ Newest \in Nat /\ MaxSamples \in Nat /\ oldest \in Nat /\ 1 <= oldest /\ oldest <= Newest + 1
      /\ \A e : e \in Buffer <=> e \in Nat /\ oldest <= e /\ e <= Newest
      /\ samples \in Seq(Samples) /\ maxCount \in Nat /\ Newest = Len(samples)
    BY ReadBasics, ReadAssumption DEF ReadInv, ReadTypeOK, Newest
<1>3. first \in Nat /\ oldest <= first /\ first <= Newest + 1
    BY <1>2
<1> HIDE DEF first, dropped
<1>4. /\ samples' \in Seq(Samples) /\ Newest' \in Nat /\ Newest' = Len(samples')
      /\ Newest <= Newest' /\ Newest' <= MaxSamples
      /\ \A e \in 1 .. Newest : samples'[e] = samples[e]
  <2>1. CASE dropped
      BY <1>1, <1>2, <2>1 DEF Newest
  <2>2. CASE ~dropped
    <3>1. /\ Append(samples, s) \in Seq(Samples) /\ Len(Append(samples, s)) = Newest + 1
          /\ \A e \in 1 .. Newest : Append(samples, s)[e] = samples[e]
        BY <1>2, AppendProperties
    <3> QED
        BY <1>1, <1>2, <2>2, <3>1 DEF Newest
  <2> QED
      BY <2>1, <2>2
<1>5. /\ oldest' \in Nat /\ oldest <= oldest' /\ oldest' <= Newest' + 1
  <2>1. oldest' = IF first >= Newest' - maxCount + 1 THEN first ELSE Newest' - maxCount + 1
      BY <1>1, <1>4 DEF Truncated, AtLeast
  <2> QED
      BY <1>2, <1>3, <1>4, <2>1
<1>6. ReadTypeOK'
    BY <1>1, <1>2, <1>4, <1>5 DEF ReadInv, ReadTypeOK
<1>7. \A e \in Buffer' : e \in Buffer \/ e > Newest
    BY <1>2, <1>4, <1>5 DEF Buffer
<1>8. \A e \in Buffer : samples'[e] = samples[e]
    BY <1>2, <1>4
<1> QED
    BY <1>1, <1>4, <1>6, <1>7, <1>8, BufferMovesOn DEF ReadInv

LEMMA SetBufferMaxCountKeeps ==
    ASSUME ReadInv, NEW count \in MaxCounts, SetBufferMaxCount(count)
    PROVE  ReadInv'
<1>1. /\ maxCount' = count /\ oldest' = Truncated(oldest, Newest, count)
      /\ UNCHANGED <<samples, reads, running>>
    BY DEF SetBufferMaxCount
<1>2. /\ Newest \in Nat /\ oldest \in Nat /\ 1 <= oldest /\ oldest <= Newest + 1 /\ count \in Nat
      /\ Newest' = Newest
    BY <1>1, ReadBasics, ReadAssumption DEF ReadInv, Newest
<1>3. oldest' \in Nat /\ oldest <= oldest' /\ oldest' <= Newest + 1
  <2>1. oldest' = IF oldest >= Newest - count + 1 THEN oldest ELSE Newest - count + 1
      BY <1>1 DEF Truncated, AtLeast
  <2> QED
      BY <1>2, <2>1
<1>4. ReadTypeOK'
    BY <1>1, <1>2, <1>3 DEF ReadInv, ReadTypeOK
<1>5. \A e \in Buffer' : e \in Buffer \/ e > Newest
    BY <1>2, <1>3 DEF Buffer
<1> QED
    BY <1>1, <1>2, <1>4, <1>5, BufferMovesOn DEF ReadInv

\* One operation goes on, and the others and the buffer stay.
LEMMA OneReadMoves ==
    ASSUME ReadInv, UNCHANGED <<samples, oldest, maxCount>>, NEW r \in Readers, NEW op \in ReadOp,
           reads' = [reads EXCEPT ![r] = op], Forward(op),
           op.state \in Phases \cup {"LE_OK"} => Whole(op),
           running' \in {r, Nobody}, running' = r => op.state \in Phases
    PROVE  ReadInv'
<1>1. /\ reads'[r] = op /\ \A q \in Readers \ {r} : reads'[q] = reads[q]
      /\ \A q \in Readers : reads'[q] \in ReadOp
    BY ReadBasics DEF ReadInv, ReadTypeOK
<1>2. Newest' = Newest /\ Buffer' = Buffer
    BY DEF Newest, Buffer
<1>3. ReadTypeOK'
  <2>1. reads' \in [Readers -> ReadOp]
      BY ReadBasics DEF ReadInv, ReadTypeOK, ReadOp
  <2> QED
      BY <1>2, <2>1 DEF ReadInv, ReadTypeOK, ReadOp
<1>4. \A q \in Readers : Forward(reads[q])'
    BY <1>1, <1>2 DEF ReadInv, Forward
<1>5. \A q \in Readers : Served(q)' => Whole(reads[q])'
  <2> SUFFICES ASSUME NEW q \in Readers, Served(q)'
               PROVE  Whole(reads[q])'
      OBVIOUS
  <2>1. CASE q = r
    <3>1. Whole(op)
        BY <1>1, <2>1 DEF Served, Active
    <3> QED
        BY <1>1, <1>2, <2>1, <3>1 DEF Whole, Passed, SentEntries
  <2>2. CASE q # r
    <3>1. Whole(reads[q])
        BY <1>1, <2>2 DEF ReadInv, Served, Active
    <3> QED
        BY <1>1, <1>2, <2>2, <3>1 DEF Whole, Passed, SentEntries
  <2> QED
      BY <2>1, <2>2
<1>6. (running \in Readers => Active(running))'
    BY <1>1, ReadAssumption DEF Active
<1> QED
    BY <1>3, <1>4, <1>5, <1>6 DEF ReadInv

LEMMA FailedIs ==
    ASSUME ReadTypeOK
    PROVE  Failed \in ReadOp /\ Forward(Failed) /\ Failed.state = "LE_COMM_ERROR"
<1>1. Newest \in Nat /\ 0 \in Entries /\ <<>> \in Seq(Entries)
    BY ReadBasics
<1>2. Idle \in ReadOp
    BY <1>1 DEF Idle, ReadOp, NULL
<1>3. Failed \in ReadOp /\ Failed.state = "LE_COMM_ERROR"
    BY <1>2 DEF Failed, ReadOp
<1>4. /\ Failed.next = 0 /\ Failed.loaded = 0 /\ Failed.seen = 0 /\ Failed.sent = <<>>
    BY DEF Failed, Idle, NULL
<1> QED
    BY <1>1, <1>3, <1>4 DEF Forward, NULL

LEMMA DeleteKeeps ==
    ASSUME ReadInv, Delete
    PROVE  ReadInv'
<1>1. /\ running = Nobody /\ running' = Nobody /\ samples' = samples
      /\ oldest' = Newest + 1 /\ maxCount' = 0
      /\ reads' = [r \in Readers |-> IF Active(r) THEN Failed ELSE reads[r]]
    BY DEF Delete
<1>2. /\ Newest \in Nat /\ Newest' = Newest /\ \A r \in Readers : reads[r] \in ReadOp
      /\ oldest' \in Nat /\ oldest' >= 1
    BY <1>1, ReadBasics DEF ReadInv, Newest
<1>3. Buffer' = {}
    BY <1>1, <1>2 DEF Buffer
<1>4. Failed \in ReadOp /\ Forward(Failed)
    BY FailedIs DEF ReadInv
<1> HIDE DEF Newest
<1>5. ReadTypeOK'
  <2>1. reads' \in [Readers -> ReadOp]
      BY <1>1, <1>2, <1>4
  <2> QED
      BY <1>1, <1>2, <2>1 DEF ReadInv, ReadTypeOK, ReadOp
<1>6. \A r \in Readers : Forward(reads[r])'
  <2>1. \A r \in Readers : Forward(reads'[r])
      BY <1>1, <1>4 DEF ReadInv
  <2> QED
      BY <1>2, <2>1 DEF Forward
<1>7. \A r \in Readers : Whole(reads[r])'
    BY <1>3 DEF Whole, Passed
<1> QED
    BY <1>1, <1>5, <1>6, <1>7, ReadAssumption DEF ReadInv

LEMMA ReadStep == ReadInv /\ [ReadNext]_readVars => ReadInv'
<1> SUFFICES ASSUME ReadInv, [ReadNext]_readVars
             PROVE  ReadInv'
    OBVIOUS
<1>1. ASSUME NEW s \in Samples, NEW typeChanged \in BOOLEAN, ProcessAccepted(s, typeChanged)
      PROVE  ReadInv'
    BY <1>1, ProcessAcceptedKeeps
<1>2. ASSUME NEW count \in MaxCounts, SetBufferMaxCount(count)
      PROVE  ReadInv'
    BY <1>2, SetBufferMaxCountKeeps
<1>3. ASSUME NEW r \in Readers, NEW start \in Starts, ReadBufferJson(r, start)
      PROVE  ReadInv'
  <2> DEFINE n == StartEntry(start)
             l == Load(r, [Idle EXCEPT !.state = "START", !.next = n, !.from = n])
  <2>1. /\ reads' = [reads EXCEPT ![r] = l] /\ running' = r
        /\ UNCHANGED <<samples, oldest, maxCount>>
      BY <1>3 DEF ReadBufferJson
  <2>2. n \in Nat /\ n <= Newest
      BY StartIs DEF ReadInv
  <2> HIDE DEF n
  <2>3. l \in ReadOp /\ l.state = "START" /\ Forward(l) /\ Whole(l)
      BY <2>2, StartKeeps DEF ReadInv
  <2> HIDE DEF l
  <2> QED
      BY <2>1, <2>3, OneReadMoves DEF Phases
<1>4. ASSUME NEW r \in Readers, Write(r)
      PROVE  ReadInv'
  <2> DEFINE op == reads[r]
             a == Advanced(r, op)
  <2>1. /\ running = r /\ reads' = [reads EXCEPT ![r] = a]
        /\ running' = IF op.state = "END" THEN Nobody ELSE r
        /\ UNCHANGED <<samples, oldest, maxCount>>
      BY <1>4 DEF Write, ReadInv, ReadTypeOK
  <2>2. op \in ReadOp /\ op.state \in Phases /\ Forward(op) /\ Whole(op)
      BY <2>1, ReadBasics DEF ReadInv, Active, Served
  <2> HIDE DEF op
  <2>3. /\ a \in ReadOp /\ Forward(a) /\ Whole(a)
        /\ IF op.state = "END" THEN a.state = "LE_OK" ELSE a.state \in Phases
      BY <2>2, TurnKeeps DEF ReadInv
  <2> HIDE DEF a
  <2> QED
      BY <2>1, <2>3, OneReadMoves, ReadAssumption
<1>5. ASSUME NEW r \in Readers, PipeFull(r) \/ Writeable(r)
      PROVE  ReadInv'
  <2>1. /\ UNCHANGED <<samples, oldest, maxCount, reads>>
        /\ running' = Nobody \/ (running' = r /\ Active(r))
      BY <1>5 DEF PipeFull, Writeable
  <2>2. ReadTypeOK'
      BY <2>1 DEF ReadInv, ReadTypeOK, Newest
  <2>3. (running \in Readers => Active(running))'
      BY <2>1, ReadAssumption DEF Active
  <2>4. \A q \in Readers : Forward(reads[q])' /\ (Served(q)' => Whole(reads[q])')
      BY <2>1 DEF ReadInv, Forward, Whole, Passed, SentEntries, Served, Active, Newest, Buffer
  <2> QED
      BY <2>2, <2>3, <2>4 DEF ReadInv
<1>6. ASSUME NEW r \in Readers, WriteFails(r) \/ HangUp(r)
      PROVE  ReadInv'
  <2>1. /\ reads' = [reads EXCEPT ![r] = Failed] /\ running' = Nobody
        /\ UNCHANGED <<samples, oldest, maxCount>>
      BY <1>6 DEF WriteFails, HangUp
  <2>2. Failed \in ReadOp /\ Forward(Failed) /\ Failed.state \notin Phases \cup {"LE_OK"}
      BY FailedIs DEF ReadInv, Phases
  <2>3. Nobody # r
      BY ReadAssumption
  <2> QED
      BY <2>1, <2>2, <2>3, OneReadMoves
<1>7. CASE Delete
    BY <1>7, DeleteKeeps
<1>8. CASE UNCHANGED readVars
    BY <1>8
    DEF readVars, ReadInv, ReadTypeOK, Forward, Whole, Passed, SentEntries, Served, Active,
        Newest, Buffer
<1> QED
    BY <1>1, <1>2, <1>3, <1>4, <1>5, <1>6, <1>7, <1>8 DEF ReadNext, Polling

LEMMA ReadInvHolds == ReadSpec => []ReadInv
BY ReadInitHolds, ReadStep, PTL DEF ReadSpec

\* The buffer and the operations that read it keep their types (obs_ReadBufferJson(),
\* ContinueReadOp(), obs_ProcessAccepted(), obs_SetBufferMaxCount()).
THEOREM ReadsTyped == ReadSpec => []ReadTypeOK
<1>1. ReadInv => ReadTypeOK
    BY DEF ReadInv
<1> QED
    BY <1>1, ReadInvHolds, PTL

\* ContinueReadOp() writes no sample twice and never goes back, whatever happens to the
\* buffer while it waits for its pipe.
THEOREM ReadsGoForward == ReadSpec => []SentInOrder
<1>1. ReadInv => SentInOrder
    BY DEF ReadInv, Forward, SentInOrder
<1> QED
    BY <1>1, ReadInvHolds, PTL

\* LoadReadOpBuffer() leaves out no sample that is still in the buffer, unless its entry
\* was off the list while another operation held it.
THEOREM NothingIsSkipped == ReadSpec => []NothingSkipped
<1>1. ReadInv => NothingSkipped
    BY DEF ReadInv, NothingSkipped, Complete, Whole, Passed, PassedOver, SentEntries, SentBy
<1> QED
    BY <1>1, ReadInvHolds, PTL
=============================================================================
