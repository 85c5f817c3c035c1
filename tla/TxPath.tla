------------------------------- MODULE TxPath -------------------------------
(***************************************************************************)
(* How the MT7697 drivers send packets.  mt7697_data_tx() puts a packet of *)
(* the network stack into the next slot of a pool and the slot on a list;  *)
(* mt7697_tx_work(), on a work queue, walks the list without its lock,     *)
(* writes each packet to the master-to-slave queue (mt7697q_write()), and  *)
(* gives the slot back whether that succeeded or not.  The queue is a ring *)
(* of words in the slave, of whose offsets the driver keeps copies.        *)
(* mt7697_tx_stop() walks the list as well, when the interface goes down.  *)
(*                                                                         *)
(* There is one network device, which calls mt7697_data_tx() one call at a *)
(* time; the work, the call and a stop interleave at every access to the   *)
(* list, to a slot or to the work queue.  The slave, which reads the       *)
(* words, is external.                                                     *)
(***************************************************************************)
EXTENDS Integers, Sequences, SequencesExt

CONSTANTS
    PoolLen,     \* MT7697_TX_PKT_POOL_LEN
    Words,       \* number of words of the ring
    Lens,        \* lengths of packets in words, headers included
    MaxPackets,  \* bound on the packets of a behaviour
    MaxFaults,   \* bound on failing transfers
    MaxStops     \* bound on calls of mt7697_tx_stop()

ASSUME TxAssumption ==
    /\ PoolLen \in Nat \ {0}
    /\ Words \in Nat \ {0}
    /\ Lens \subseteq Nat \ {0}
    /\ {MaxPackets, MaxFaults, MaxStops} \subseteq Nat

Free == [id |-> 0, len |-> 0]  \* a slot whose skb is NULL
HEAD == -1                     \* the list's head
POISON == -2                   \* what list_del() leaves in an entry

Slots == 0 .. PoolLen - 1
Packet == [id: 1 .. MaxPackets, len: Lens]

VARIABLES
    pool,      \* tx_skb_pool: the packet in each slot
    idx,       \* tx_skb_pool_idx
    list,      \* tx_skb_list: slots
    work,      \* tx_work is queued
    txPc,      \* where mt7697_data_tx() is
    adding,    \* its tx_skb
    pc,        \* where mt7697_tx_work() is
    cur, nxt,  \* tx_pkt and tx_pkt_next of its walk
    stopPc,    \* the same for mt7697_tx_stop()
    stopCur, stopNxt,
    mem,       \* the words of the ring
    wrOffset,  \* the ring's offsets, in the slave
    rdOffset,
    wr, rd,    \* the driver's copies
    blocked,   \* blocked_writer
    notice,    \* the slave has signalled that it has read
    sent,      \* number of packets given to mt7697_data_tx()
    stream,    \* every word put into the ring
    received,  \* every word the slave has read
    faults, stops,
    oops       \* a poisoned or NULL pointer was followed: the kernel stops

listVars == <<pool, idx, list, work>>
txVars == <<txPc, adding>>
workVars == <<pc, cur, nxt>>
stopVars == <<stopPc, stopCur, stopNxt, stops>>
ringVars == <<mem, wrOffset, wr, rd, blocked, stream>>
slaveVars == <<rdOffset, received, notice>>
vars == <<listVars, txVars, workVars, stopVars, ringVars, slaveVars, sent, faults, oops>>

Init ==
    /\ pool = [s \in Slots |-> Free] /\ idx = 0 /\ list = <<>> /\ work = FALSE
    /\ txPc = "idle" /\ adding = 0
    /\ pc = "idle" /\ cur = HEAD /\ nxt = HEAD
    /\ stopPc = "idle" /\ stopCur = HEAD /\ stopNxt = HEAD /\ stops = 0
    /\ mem = [i \in 0 .. Words - 1 |-> <<>>]
    /\ wrOffset = 0 /\ rdOffset = 0 /\ wr = 0 /\ rd = 0
    /\ blocked = FALSE /\ notice = FALSE
    /\ sent = 0 /\ stream = <<>> /\ received = <<>>
    /\ faults = 0 /\ oops = FALSE

-----------------------------------------------------------------------------
(* The list.                                                               *)

OnList(s) == \E i \in 1 .. Len(list) : list[i] = s

Position(s) == CHOOSE i \in 1 .. Len(list) : list[i] = s

First == IF list = <<>> THEN HEAD ELSE list[1]

(* s->next; of an entry that has been deleted it is poison.                *)
After(s) ==
    IF ~OnList(s) THEN POISON
    ELSE IF Position(s) = Len(list) THEN HEAD ELSE list[Position(s) + 1]

Added(s) == Append(list, s)
Deleted(s) == IF OnList(s) THEN RemoveAt(list, Position(s)) ELSE list

-----------------------------------------------------------------------------
(* mt7697_data_tx().  A packet is refused when the slot at the index is    *)
(* not free: it is freed and NETDEV_TX_BUSY returned, and nothing changes. *)

\* Mutant: the index goes up to the length of the pool.
NextIdxOver == IF idx + 1 > PoolLen THEN 0 ELSE idx + 1

NextIdx == IF idx + 1 >= PoolLen THEN 0 ELSE idx + 1

(* The slot is taken.  No one else looks at the index.                     *)
DataTx(n) ==
    /\ ~oops
    /\ txPc = "idle" /\ sent < MaxPackets
    /\ pool[idx] = Free
    /\ pool' = [pool EXCEPT ![idx] = [id |-> sent + 1, len |-> n]]
    /\ idx' = NextIdx
    /\ adding' = idx
    /\ txPc' = "add"
    /\ sent' = sent + 1
    /\ UNCHANGED <<list, work, workVars, stopVars, ringVars, slaveVars, faults, oops>>

AddToList ==
    /\ list' = Added(adding)
    /\ UNCHANGED <<pool, idx, work>>

QueueWork ==
    /\ work' = TRUE
    /\ UNCHANGED <<pool, idx, list>>

\* Mutant: the work is queued before the slot is on the list.
ListPacketLate ==
    /\ ~oops
    /\ \/ txPc = "add" /\ QueueWork /\ txPc' = "queue"
       \/ txPc = "queue" /\ AddToList /\ txPc' = "idle"
    /\ UNCHANGED <<adding, workVars, stopVars, ringVars, slaveVars, sent, faults, oops>>

(* The slot goes on the list, under its lock, and then the work is queued. *)
ListPacket ==
    /\ ~oops
    /\ \/ txPc = "add" /\ AddToList /\ txPc' = "queue"
       \/ txPc = "queue" /\ QueueWork /\ txPc' = "idle"
    /\ UNCHANGED <<adding, workVars, stopVars, ringVars, slaveVars, sent, faults, oops>>

-----------------------------------------------------------------------------
(* mt7697q_write(), under the mutex of the queue.                          *)

Diff(from, to) == IF from <= to THEN to - from ELSE (Words - from) + to

\* Mutant: the last word of the ring is used.
CapacityFull == Words

Capacity == Words - 1
FreeWords == Capacity - Diff(rd, wr)

WordsOf(p) == [i \in 1 .. p.len |-> [id |-> p.id, at |-> i]]

(* The ring with the first n words of p put from wr on.                    *)
Put(p, n) ==
    [s \in 0 .. Words - 1 |->
        IF Diff(wr, s) < n THEN WordsOf(p)[Diff(wr, s) + 1] ELSE mem[s]]

(* Too few words are free: rd_offset is fetched, but what that frees is    *)
(* not looked at.                                                          *)
Refused(p) ==
    /\ FreeWords < p.len
    /\ rd' = rdOffset
    /\ blocked' = TRUE
    /\ UNCHANGED <<mem, wr, wrOffset, stream, faults>>

Written(p) ==
    /\ FreeWords >= p.len
    /\ mem' = Put(p, p.len)
    /\ wr' = (wr + p.len) % Words
    /\ stream' = stream \o WordsOf(p)

Done(p) ==
    /\ Written(p)
    /\ wrOffset' = wr'
    /\ UNCHANGED <<rd, blocked, faults>>

(* A transfer fails: of rd_offset, of some of the words, or of wr_offset   *)
(* and the signal that follows it.                                         *)
TransferFails(p) ==
    /\ faults < MaxFaults
    /\ faults' = faults + 1
    /\ \/ FreeWords < p.len /\ UNCHANGED <<mem, wr, wrOffset, stream>>
       \/ /\ FreeWords >= p.len
          /\ \E n \in 0 .. p.len : mem' = Put(p, n)
          /\ UNCHANGED <<wr, wrOffset, stream>>
       \/ Written(p) /\ wrOffset' \in {wrOffset, wr'}
    /\ UNCHANGED <<rd, blocked>>

-----------------------------------------------------------------------------
(* mt7697_tx_work().                                                       *)

StartWork ==
    /\ ~oops
    /\ pc = "idle" /\ work
    /\ work' = FALSE
    /\ pc' = "first"
    /\ UNCHANGED <<pool, idx, list, txVars, cur, nxt, stopVars, ringVars, slaveVars, sent,
                   faults, oops>>

FirstPacket ==
    /\ ~oops
    /\ pc = "first"
    /\ cur' = First
    /\ pc' = IF list = <<>> THEN "idle" ELSE "next"
    /\ UNCHANGED <<listVars, txVars, nxt, stopVars, ringVars, slaveVars, sent, faults, oops>>

LookAhead ==
    /\ ~oops
    /\ pc = "next"
    /\ nxt' = After(cur)
    /\ pc' = "write"
    /\ UNCHANGED <<listVars, txVars, cur, stopVars, ringVars, slaveVars, sent, faults, oops>>

WritePacket ==
    /\ ~oops
    /\ pc = "write"
    /\ Done(pool[cur]) \/ Refused(pool[cur]) \/ TransferFails(pool[cur])
    /\ pc' = "unlink"
    /\ UNCHANGED <<listVars, txVars, cur, nxt, stopVars, slaveVars, sent, oops>>

TakeOff ==
    /\ oops' = ~OnList(cur)
    /\ list' = Deleted(cur)
    /\ UNCHANGED pool

GiveBack ==
    /\ pool' = [pool EXCEPT ![cur] = Free]
    /\ UNCHANGED <<list, oops>>

\* Mutant: the slot is given back while it is on the list.
UnlinkLate ==
    /\ ~oops
    /\ \/ pc = "unlink" /\ GiveBack /\ pc' = "free"
       \/ pc = "free" /\ TakeOff /\ pc' = "advance"
    /\ UNCHANGED <<idx, work, txVars, cur, nxt, stopVars, ringVars, slaveVars, sent, faults>>

(* The slot is taken off the list, under its lock.  Then the packet goes   *)
(* to tx_skb_queue to be freed, written or not, and the slot is free.      *)
Unlink ==
    /\ ~oops
    /\ \/ pc = "unlink" /\ TakeOff /\ pc' = "free"
       \/ pc = "free" /\ GiveBack /\ pc' = "advance"
    /\ UNCHANGED <<idx, work, txVars, cur, nxt, stopVars, ringVars, slaveVars, sent, faults>>

Advance ==
    /\ ~oops
    /\ pc = "advance"
    /\ oops' = (nxt = POISON)
    /\ cur' = nxt
    /\ nxt' = IF nxt \in Slots THEN After(nxt) ELSE HEAD
    /\ pc' = IF nxt = HEAD THEN "idle" ELSE "write"
    /\ UNCHANGED <<listVars, txVars, stopVars, ringVars, slaveVars, sent, faults>>

-----------------------------------------------------------------------------
(* mt7697_tx_stop(), from mt7697_cfg80211_stop().  The slots keep their    *)
(* packets.                                                                *)

Stop ==
    /\ ~oops
    /\ stopPc = "idle" /\ stops < MaxStops
    /\ stops' = stops + 1
    /\ stopCur' = First
    /\ stopPc' = IF list = <<>> THEN "idle" ELSE "next"
    /\ UNCHANGED <<listVars, txVars, workVars, stopNxt, ringVars, slaveVars, sent, faults, oops>>

StopLookAhead ==
    /\ ~oops
    /\ stopPc = "next"
    /\ stopNxt' = After(stopCur)
    /\ stopPc' = "unlink"
    /\ UNCHANGED <<listVars, txVars, workVars, stopCur, stops, ringVars, slaveVars, sent,
                   faults, oops>>

StopUnlink ==
    /\ ~oops
    /\ stopPc = "unlink"
    /\ oops' = (pool[stopCur] = Free \/ ~OnList(stopCur))
    /\ list' = Deleted(stopCur)
    /\ stopPc' = "advance"
    /\ UNCHANGED <<pool, idx, work, txVars, workVars, stopCur, stopNxt, stops,
                   ringVars, slaveVars, sent, faults>>

StopAdvance ==
    /\ ~oops
    /\ stopPc = "advance"
    /\ oops' = (stopNxt = POISON)
    /\ stopCur' = stopNxt
    /\ stopNxt' = IF stopNxt \in Slots THEN After(stopNxt) ELSE HEAD
    /\ stopPc' = IF stopNxt = HEAD THEN "idle" ELSE "unlink"
    /\ UNCHANGED <<listVars, txVars, workVars, stops, ringVars, slaveVars, sent, faults>>

-----------------------------------------------------------------------------
(* The slave, and the driver's answer to its signal.                       *)

SlaveReads ==
    /\ ~oops
    /\ rdOffset # wrOffset
    /\ received' = Append(received, mem[rdOffset])
    /\ rdOffset' = (rdOffset + 1) % Words
    /\ notice' = TRUE
    /\ UNCHANGED <<listVars, txVars, workVars, stopVars, ringVars, sent, faults, oops>>

(***************************************************************************)
(* mt7697_notify_tx(), from mt7697q_irq_run().  It takes the head of the   *)
(* list for a packet: the length it compares may be anything.              *)
(***************************************************************************)
NotifyTx ==
    /\ ~oops
    /\ notice
    /\ notice' = FALSE
    /\ \/ blocked /\ list # <<>> /\ blocked' = FALSE /\ work' = TRUE
       \/ UNCHANGED <<blocked, work>>
    /\ UNCHANGED <<pool, idx, list, txVars, workVars, stopVars, mem, wrOffset, wr, rd, stream,
                   rdOffset, received, sent, faults, oops>>

-----------------------------------------------------------------------------
TxWork == StartWork \/ FirstPacket \/ LookAhead \/ WritePacket \/ Unlink \/ Advance
TxStop == StopLookAhead \/ StopUnlink \/ StopAdvance

Next ==
    \/ \E n \in Lens : DataTx(n)
    \/ ListPacket \/ TxWork \/ Stop \/ TxStop \/ SlaveReads \/ NotifyTx

(* Queued work runs, and goes on; so does a call.                          *)
Spec == Init /\ [][Next]_vars /\ WF_vars(TxWork) /\ WF_vars(ListPacket)

-----------------------------------------------------------------------------
Pointer == Slots \cup {HEAD, POISON}

TypeOK ==
    /\ pool \in [Slots -> Packet \cup {Free}]
    /\ idx \in Slots /\ list \in Seq(Slots)
    /\ txPc \in {"idle", "add", "queue"} /\ adding \in Slots
    /\ pc \in {"idle", "first", "next", "write", "unlink", "free", "advance"}
    /\ stopPc \in {"idle", "next", "unlink", "advance"}
    /\ {cur, nxt, stopCur, stopNxt} \subseteq Pointer
    /\ {wrOffset, rdOffset, wr, rd} \subseteq 0 .. Words - 1
    /\ {work, blocked, notice, oops} \subseteq BOOLEAN
    /\ sent \in 0 .. MaxPackets /\ faults \in 0 .. MaxFaults /\ stops \in 0 .. MaxStops

(***************************************************************************)
(* What the slave reads is whole packets, one after the other, in the      *)
(* order they were given to the driver, whatever was refused and whichever *)
(* transfer failed: a packet that could not be written leaves nothing      *)
(* behind, one of which only the announcement failed goes out with the     *)
(* next, and no word is overwritten before it is read.                     *)
(***************************************************************************)
InRing == [i \in 1 .. Diff(rdOffset, wr) |-> mem[(rdOffset + i - 1) % Words]]

StreamWhole ==
    /\ received \o InRing = stream
    /\ \A i \in 1 .. Len(stream) - 1 : stream[i].id <= stream[i + 1].id

(***************************************************************************)
(* Until a stop, the unlocked walk of the list follows no stale pointer; a *)
(* slot is on the list once, and only with a packet in it, so that taking  *)
(* a slot never reuses a list entry that is in place; a packet is off the  *)
(* list only while mt7697_data_tx() is about to add it or mt7697_tx_work() *)
(* about to free its slot; and a packet is refused only when every slot    *)
(* has one: the slots are given back in the order they were taken.         *)
(***************************************************************************)
InHand(s) == (txPc = "add" /\ s = adding) \/ (pc = "free" /\ s = cur)

PoolSound ==
    stops = 0 =>
        /\ ~oops
        /\ \A i, k \in 1 .. Len(list) : list[i] = list[k] => i = k
        /\ \A s \in Slots : pool[s] # Free <=> OnList(s) \/ InHand(s)
        /\ \A s \in Slots : InHand(s) => ~OnList(s)
        /\ pool[idx] # Free => \A s \in Slots : pool[s] # Free

(***************************************************************************)
(* Until a stop, every packet leaves its slot: the work is queued again    *)
(* after a packet is listed that its walk may have missed.                 *)
(***************************************************************************)
EveryPacketLeaves ==
    \A s \in Slots : (pool[s] # Free) ~> (pool[s] = Free \/ stops > 0)

=============================================================================
