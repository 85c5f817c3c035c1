------------------------------ MODULE RxQueue ------------------------------
(***************************************************************************)
(* The slave-to-master queue of the MT7697 driver (mt7697q): a ring of     *)
(* words in the slave's memory, which the driver reaches over SPI.  The    *)
(* slave writes words, moves the ring's write offset, sets the queue's bit *)
(* in the S2M mailbox and pulses the interrupt line.  The driver's         *)
(* interrupt work empties the mailbox, fetches the write offset, and reads *)
(* message after message: a header, then, through rx_fcn, the payload; it  *)
(* gives the words back by writing the ring's read offset.                 *)
(*                                                                         *)
(* The driver works on copies of the two offsets, sees messages of which   *)
(* the slave has written a part only, and may find any SPI transfer        *)
(* failing.  The slave is external: it obeys the ring's discipline.        *)
(***************************************************************************)
EXTENDS Integers, Sequences

CONSTANTS
    Words,        \* number of words of the ring; one is never used
    Lens,         \* payload lengths of messages, in words
    MaxMessages,  \* bound on the messages of a behaviour
    MaxFaults     \* bound on the failures of a behaviour

HDR == 2  \* words of struct mt7697_rsp_hdr

ASSUME RxAssumption ==
    /\ Words \in Nat
    /\ Lens \subseteq Nat
    /\ \A n \in Lens : HDR + n < Words
    /\ HDR < Words
    /\ MaxMessages \in Nat
    /\ MaxFaults \in Nat

VARIABLES
    (* in the slave *)
    mem,       \* the words of the ring
    wrOffset,  \* the ring's offsets
    rdOffset,
    mailbox,   \* the queue's bit of the S2M mailbox
    stream,    \* every word of every message sent, in order
    written,   \* how many of them have been written
    signal,    \* the slave has yet to set the mailbox for what it wrote
    (* in the driver *)
    wr, rd,    \* qs->data.wr_offset and rd_offset
    taken,     \* how many words of the stream have been read
    hdr,       \* qinfo->rsp; empty when its length is zero
    astray,    \* the driver has lost its place in the stream
    pc,        \* where the interrupt work is
    seen,      \* the mailbox bit it read
    work,      \* irq_work and irq_delayed_work are queued
    delayed,
    enabled,   \* the interrupt is enabled
    pending,   \* an edge has not been served
    (* what happened *)
    sent, got, \* messages sent, and handed to rx_fcn
    starts,    \* where in the stream each message begins
    faults,    \* failures so far
    stuck      \* the mailbox could not be read

slaveVars == <<mem, wrOffset, mailbox, stream, written, signal, sent, starts>>
irqVars == <<seen, work, delayed, enabled, pending, stuck>>
ringVars == <<wr, rd, taken, hdr, astray, got>>
vars == <<slaveVars, rdOffset, irqVars, ringVars, pc, faults>>

Word == [msg: 1 .. MaxMessages, at: Nat, len: Lens]
MessageOf(k, n) == [i \in 1 .. HDR + n |-> [msg |-> k, at |-> i, len |-> n]]
Message == {MessageOf(k, n) : k \in 1 .. MaxMessages, n \in Lens}

Init ==
    /\ mem = [i \in 0 .. Words - 1 |-> <<>>]
    /\ wrOffset = 0 /\ rdOffset = 0 /\ mailbox = FALSE
    /\ stream = <<>> /\ written = 0 /\ signal = FALSE
    /\ wr = 0 /\ rd = 0 /\ taken = 0
    /\ hdr = <<>> /\ astray = FALSE /\ pc = "idle" /\ seen = FALSE
    /\ work = FALSE /\ delayed = FALSE /\ enabled = TRUE /\ pending = FALSE
    /\ sent = <<>> /\ got = <<>> /\ starts = <<>>
    /\ faults = 0 /\ stuck = FALSE

-----------------------------------------------------------------------------
(* The ring.                                                               *)

(* mt7697q_buf_diff() and mt7697q_get_num_words().                         *)
Diff(from, to) == IF from <= to THEN to - from ELSE (Words - from) + to
NumWords == Diff(rd, wr)

Capacity == Words - 1

(* The offset i words on.                                                  *)
Slot(from, i) == IF from + i < Words THEN from + i ELSE from + i - Words

Least(a, b) == IF a <= b THEN a ELSE b

(***************************************************************************)
(* mt7697q_read(): up to the end of the ring when the words wrap, then     *)
(* from where that led; how many words each transfer has, where the second *)
(* begins, what was read, and the read offset afterwards.                  *)
(***************************************************************************)
FirstPart(n) == IF rd > wr THEN Least(n, Words - rd) ELSE 0

SecondFrom(n) == IF rd + FirstPart(n) = Words THEN 0 ELSE rd + FirstPart(n)
SecondPart(n) ==
    IF FirstPart(n) < n THEN Least(n - FirstPart(n), wr - SecondFrom(n)) ELSE 0
ReadOffset(n) == SecondFrom(n) + SecondPart(n)
ReadWords(n) ==
    [i \in 1 .. FirstPart(n) + SecondPart(n) |->
        IF i <= FirstPart(n) THEN mem[rd + i - 1]
                             ELSE mem[SecondFrom(n) + i - FirstPart(n) - 1]]

-----------------------------------------------------------------------------
(* The slave.                                                              *)

SlaveSends(n) ==
    /\ Len(sent) < MaxMessages
    /\ written = Len(stream)
    /\ LET m == MessageOf(Len(sent) + 1, n)
       IN  /\ sent' = Append(sent, m)
           /\ stream' = stream \o m
    /\ starts' = Append(starts, Len(stream))
    /\ UNCHANGED <<mem, wrOffset, rdOffset, mailbox, written, signal, irqVars, ringVars, pc, faults>>

(* Some words of the message, as many as fit, and the write offset.        *)
SlaveWrites(n) ==
    /\ n <= Len(stream) - written
    /\ n <= Capacity - Diff(rdOffset, wrOffset)
    /\ mem' = [s \in 0 .. Words - 1 |->
                  IF Diff(wrOffset, s) < n THEN stream[written + Diff(wrOffset, s) + 1]
                                           ELSE mem[s]]
    /\ wrOffset' = Slot(wrOffset, n)
    /\ written' = written + n
    /\ signal' = TRUE
    /\ UNCHANGED <<rdOffset, mailbox, stream, sent, starts, irqVars, ringVars, pc, faults>>

SlaveSignals ==
    /\ signal
    /\ signal' = FALSE
    /\ mailbox' = TRUE
    /\ pending' = TRUE
    /\ UNCHANGED <<mem, wrOffset, rdOffset, stream, written, sent, starts,
                   seen, work, delayed, enabled, stuck, ringVars, pc, faults>>

-----------------------------------------------------------------------------
(* The driver's interrupt.                                                 *)

(* mt7697q_isr()                                                           *)
Isr ==
    /\ enabled /\ pending
    /\ enabled' = FALSE
    /\ pending' = FALSE
    /\ work' = TRUE
    /\ UNCHANGED <<slaveVars, rdOffset, seen, delayed, stuck, ringVars, pc, faults>>

(***************************************************************************)
(* mt7697q_irq_run(), from either work: the queue has one worker.          *)
(***************************************************************************)
Dequeued ==
    /\ pc = "idle"
    /\ \/ work /\ work' = FALSE /\ UNCHANGED delayed
       \/ delayed /\ delayed' = FALSE /\ UNCHANGED work

ReadMailbox ==
    /\ Dequeued
    /\ seen' = mailbox
    /\ pc' = "clear"
    /\ UNCHANGED <<slaveVars, rdOffset, enabled, pending, stuck, ringVars, faults>>

\* Mutant: the interrupt is enabled while there is work to do.
ClearAndEnable ==
    /\ pc = "clear"
    /\ mailbox' = (mailbox /\ ~seen)
    /\ delayed' = seen
    /\ enabled' = TRUE
    /\ pc' = IF seen THEN "pull" ELSE "idle"
    /\ UNCHANGED <<mem, wrOffset, rdOffset, stream, written, signal, sent, starts,
                   seen, work, pending, stuck, ringVars, faults>>

\* Mutant: bits that were not read are cleared too.
ClearAll ==
    /\ pc = "clear"
    /\ mailbox' = FALSE
    /\ delayed' = seen
    /\ enabled' = ~seen
    /\ pc' = IF seen THEN "pull" ELSE "idle"
    /\ UNCHANGED <<mem, wrOffset, rdOffset, stream, written, signal, sent, starts,
                   seen, work, pending, stuck, ringVars, faults>>

(***************************************************************************)
(* The bits read are cleared; if there were any the work runs once more    *)
(* later, otherwise the interrupt is enabled.                              *)
(***************************************************************************)
ClearMailbox ==
    /\ pc = "clear"
    /\ mailbox' = (mailbox /\ ~seen)
    /\ delayed' = seen
    /\ enabled' = ~seen
    /\ pc' = IF seen THEN "pull" ELSE "idle"
    /\ UNCHANGED <<mem, wrOffset, rdOffset, stream, written, signal, sent, starts,
                   seen, work, pending, stuck, ringVars, faults>>

\* Mutant: the length of the header is not taken off.
ReqWithHeader == IF hdr = <<>> THEN HDR ELSE hdr[1].len + HDR

(***************************************************************************)
(* mt7697q_proc_data(), between its transfers.  req is what it waits for.  *)
(* avail is always the number of words between the driver's offsets.       *)
(***************************************************************************)
Req == IF hdr = <<>> THEN HDR ELSE hdr[1].len

PullWrPtr ==
    /\ pc = "pull"
    /\ wr' = wrOffset
    /\ pc' = IF astray THEN "stray" ELSE "while"
    /\ UNCHANGED <<slaveVars, rdOffset, irqVars, rd, taken, hdr, astray, got, faults>>

ReadHeader ==
    /\ pc = "while" /\ hdr = <<>> /\ NumWords >= HDR
    /\ hdr' = ReadWords(HDR)
    /\ rd' = ReadOffset(HDR)
    /\ taken' = taken + Len(hdr')
    /\ pc' = "body"
    /\ UNCHANGED <<slaveVars, rdOffset, irqVars, wr, astray, got, faults>>

Resume ==
    /\ pc = "while" /\ hdr # <<>> /\ NumWords >= Req
    /\ pc' = "body"
    /\ UNCHANGED <<slaveVars, rdOffset, irqVars, ringVars, faults>>

EndOfData ==
    /\ pc = "while" /\ NumWords < Req
    /\ pc' = "idle"
    /\ UNCHANGED <<slaveVars, rdOffset, irqVars, ringVars, faults>>

(* The payload is not there yet: look again, and return if it still is not. *)
PullBeforeBody ==
    /\ pc = "body" /\ NumWords < Req
    /\ wr' = wrOffset
    /\ pc' = IF Diff(rd, wrOffset) < Req THEN "idle" ELSE "body"
    /\ UNCHANGED <<slaveVars, rdOffset, irqVars, rd, taken, hdr, astray, got, faults>>

RxFcn ==
    /\ pc = "body" /\ NumWords >= Req
    /\ got' = Append(got, hdr \o ReadWords(Req))
    /\ rd' = ReadOffset(Req)
    /\ taken' = taken + FirstPart(Req) + SecondPart(Req)
    /\ hdr' = <<>>
    /\ pc' = "next"
    /\ UNCHANGED <<slaveVars, rdOffset, irqVars, wr, astray, faults>>

PullBeforeNext ==
    /\ pc = "next"
    /\ wr' = IF NumWords < Req THEN wrOffset ELSE wr
    /\ pc' = "push"
    /\ UNCHANGED <<slaveVars, rdOffset, irqVars, rd, taken, hdr, astray, got, faults>>

\* Mutant: the write offset is pushed.
PushWrPtr ==
    /\ pc = "push"
    /\ rdOffset' = wr
    /\ pc' = "while"
    /\ UNCHANGED <<slaveVars, irqVars, ringVars, faults>>

PushRdPtr ==
    /\ pc = "push"
    /\ rdOffset' = rd
    /\ pc' = "while"
    /\ UNCHANGED <<slaveVars, irqVars, ringVars, faults>>

-----------------------------------------------------------------------------
(* Failures.                                                               *)

(***************************************************************************)
(* The mailbox cannot be read, or not be cleared: mt7697q_irq_run()        *)
(* returns before it enables the interrupt or queues more work.            *)
(***************************************************************************)
MailboxFails ==
    /\ faults < MaxFaults
    /\ \/ Dequeued
       \/ pc = "clear" /\ UNCHANGED <<work, delayed>>
    /\ pc' = "idle"
    /\ stuck' = TRUE
    /\ faults' = faults + 1
    /\ UNCHANGED <<slaveVars, rdOffset, seen, enabled, pending, ringVars>>

(***************************************************************************)
(* A transfer of mt7697q_proc_data() fails: it returns.  The read offset   *)
(* may have been written before the slave could be told of it.             *)
(***************************************************************************)
TransferFails ==
    /\ faults < MaxFaults
    /\ \/ pc = "pull"
       \/ pc = "while" /\ hdr = <<>> /\ NumWords >= HDR
       \/ pc = "body" /\ NumWords < Req
       \/ pc = "next" /\ NumWords < Req
       \/ pc = "push"
    /\ rdOffset' \in {rdOffset} \cup (IF pc = "push" THEN {rd} ELSE {})
    /\ pc' = "idle"
    /\ faults' = faults + 1
    /\ UNCHANGED <<slaveVars, irqVars, ringVars>>

(***************************************************************************)
(* The driver loses its place in the stream.  rx_fcn fails and leaves the  *)
(* payload, or some of it, which is then taken for a header; or a header   *)
(* is read in part only: its length is in rsp, the offset has not moved,   *)
(* and the header is then taken for the payload.                           *)
(***************************************************************************)
LosesPlace ==
    /\ faults < MaxFaults
    /\ \/ pc = "body" /\ NumWords >= Req /\ Req > 0
       \/ pc = "while" /\ hdr = <<>> /\ NumWords >= HDR
    /\ hdr' = <<>>
    /\ astray' = TRUE
    /\ pc' = "stray"
    /\ faults' = faults + 1
    /\ UNCHANGED <<slaveVars, rdOffset, irqVars, wr, rd, taken, got>>

(***************************************************************************)
(* It does not notice, and goes on.  The lengths it then works with are    *)
(* whatever the words happen to say, so that it may read any number of     *)
(* words, at any point call rx_fcn, fetch and push the offsets, and return *)
(* (at once when the length is that of more words than ever come).  What   *)
(* rx_fcn gets is no message, whatever it is; <<>> stands for it.          *)
(* mt7697q_read() still gives no word beyond wr.                           *)
(***************************************************************************)
StrayReads(n) ==
    /\ pc = "stray" /\ n <= NumWords
    /\ rd' = ReadOffset(n)
    /\ taken' = taken + FirstPart(n) + SecondPart(n)
    /\ UNCHANGED <<slaveVars, rdOffset, irqVars, wr, hdr, astray, got, pc, faults>>

StrayRxFcn ==
    /\ pc = "stray" /\ Len(got) < MaxMessages
    /\ got' = Append(got, <<>>)
    /\ UNCHANGED <<slaveVars, rdOffset, irqVars, wr, rd, taken, hdr, astray, pc, faults>>

StrayPull ==
    /\ pc = "stray"
    /\ wr' = wrOffset
    /\ UNCHANGED <<slaveVars, rdOffset, irqVars, rd, taken, hdr, astray, got, pc, faults>>

StrayPush ==
    /\ pc = "stray"
    /\ rdOffset' = rd
    /\ UNCHANGED <<slaveVars, irqVars, ringVars, pc, faults>>

StrayEnds ==
    /\ pc = "stray"
    /\ pc' = "idle"
    /\ UNCHANGED <<slaveVars, rdOffset, irqVars, ringVars, faults>>

-----------------------------------------------------------------------------
Slave == SlaveSignals \/ \E n \in 1 .. Capacity : SlaveWrites(n)

ProcData ==
    \/ PullWrPtr \/ ReadHeader \/ Resume \/ EndOfData
    \/ PullBeforeBody \/ RxFcn \/ PullBeforeNext \/ PushRdPtr

StrayData ==
    \/ \E n \in 1 .. Capacity : StrayReads(n)
    \/ StrayRxFcn \/ StrayPull \/ StrayPush \/ StrayEnds

Driver == ReadMailbox \/ ClearMailbox \/ ProcData \/ StrayData

Failure == MailboxFails \/ TransferFails \/ LosesPlace

Next == (\E n \in Lens : SlaveSends(n)) \/ Slave \/ Isr \/ Driver \/ Failure

(***************************************************************************)
(* Interrupts are served, queued work runs, and the slave goes on writing  *)
(* while there is room.                                                    *)
(***************************************************************************)
Fairness == WF_vars(Isr) /\ WF_vars(Driver) /\ WF_vars(SlaveSignals)
            /\ WF_vars(\E n \in 1 .. Capacity : SlaveWrites(n))

Spec == Init /\ [][Next]_vars /\ Fairness

-----------------------------------------------------------------------------
Offsets == 0 .. Words - 1

TypeOK ==
    /\ mem \in [Offsets -> Word \cup {<<>>}]
    /\ {wrOffset, rdOffset, wr, rd} \subseteq Offsets
    /\ stream \in Seq(Word) /\ written \in 0 .. Len(stream)
    /\ taken \in 0 .. written
    /\ hdr \in Seq(Word) /\ Len(hdr) \in {0, HDR}
    /\ pc \in {"idle", "clear", "pull", "while", "body", "next", "push", "stray"}
    /\ astray \in BOOLEAN /\ (pc = "stray" => astray)
    /\ {mailbox, signal, seen, work, delayed, enabled, pending, stuck} \subseteq BOOLEAN
    /\ sent \in Seq(Message) /\ Len(sent) <= MaxMessages
    /\ got \in Seq(Seq(Word)) /\ starts \in Seq(Nat)
    /\ faults \in 0 .. MaxFaults

(***************************************************************************)
(* The driver's offsets lie between those of the ring, and the words from  *)
(* its read offset on are the next ones of the stream: the slave never     *)
(* overwrites a word that has not been read, even if the driver has lost   *)
(* its place.                                                              *)
(***************************************************************************)
OffsetsOrdered ==
    /\ Diff(rdOffset, rd) + Diff(rd, wrOffset) = Diff(rdOffset, wrOffset)
    /\ Diff(rd, wr) + Diff(wr, wrOffset) = Diff(rd, wrOffset)
    /\ Diff(rd, wrOffset) = written - taken

NothingOverwritten ==
    \A i \in 0 .. Diff(rd, wrOffset) - 1 : mem[Slot(rd, i)] = stream[taken + i + 1]

RingSound == OffsetsOrdered /\ NothingOverwritten

(***************************************************************************)
(* Messages reach rx_fcn whole, once, and in order, however the slave cuts *)
(* them up and whichever transfer between two messages fails.  Once the    *)
(* driver has lost its place the channel is broken: anything may reach     *)
(* rx_fcn, and the driver does not find its place again.                   *)
(***************************************************************************)
Ch == INSTANCE Channel
      WITH Message <- Message, sent <- sent, got <- got, broken <- astray

InOrder == Ch!Spec

(***************************************************************************)
(* The interrupt is disabled exactly while some work has it in hand: none  *)
(* is left disabled for good (but after a failure at the mailbox), and no  *)
(* work is queued by an interrupt while other work runs.                   *)
(***************************************************************************)
InterruptInHand ==
    enabled <=> ~(work \/ delayed \/ pc = "clear" \/ stuck)

(***************************************************************************)
(* Without failures every message sent is delivered: no signal is lost     *)
(* between the mailbox, the interrupt, and the offset that is fetched.     *)
(***************************************************************************)
EveryMessageArrives == (got # sent) ~> (got = sent \/ faults > 0)

=============================================================================
