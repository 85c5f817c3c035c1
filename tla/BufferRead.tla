----------------------------- MODULE BufferRead -----------------------------
(***************************************************************************)
(* Reading the buffer of an Observation (obs.c).  query_ReadBufferJson()   *)
(* starts a read operation that writes the buffered samples as a JSON      *)
(* array to a pipe.  When the pipe is full the operation returns to the    *)
(* event loop and goes on when the pipe can be written again; meanwhile    *)
(* samples are pushed, the buffer is shortened or emptied, other reads are *)
(* started, and the Observation may be deleted.                            *)
(*                                                                         *)
(* Samples are numbered in the order they were buffered: sampleList is a   *)
(* list with a queue end and a pop end, so it is the interval              *)
(* oldest .. Len(samples).  A buffer entry lives as long as the list or a  *)
(* read operation holds a reference on it.                                 *)
(***************************************************************************)
EXTENDS Integers, Sequences, FiniteSets, FiniteSetsExt

CONSTANTS
    Readers,     \* the read operations of a behaviour
    Samples,     \* the samples pushed: a timestamp, and whether their JSON
                 \* form fits in a write buffer
    Starts,      \* start times of reads: absolute, or relative to now (given
                 \* as the timestamp they come to)
    MaxCounts,   \* sizes given to obs_SetBufferMaxCount()
    MaxSamples,  \* bound on the number of samples buffered in a behaviour
    Nobody       \* no read operation has the processor

ASSUME ReadAssumption ==
    /\ Samples \subseteq [stamp: Int, fits: BOOLEAN]
    /\ Starts \subseteq [stamp: Int, absolute: BOOLEAN]
    /\ MaxCounts \subseteq Nat
    /\ MaxSamples \in Nat
    /\ IsFiniteSet(Readers) /\ Nobody \notin Readers

VARIABLES
    samples,   \* every sample buffered so far
    oldest,    \* the number of the oldest entry of sampleList
    maxCount,  \* the Observation's maxCount
    reads,     \* reads[r]: the ReadOperation_t of r, also after its end
    running    \* the reader whose ContinueReadOp() is looping

readVars == <<samples, oldest, maxCount, reads, running>>

NULL == 0
Newest == Len(samples)
Buffer == oldest .. Newest

(***************************************************************************)
(* next is nextEntryPtr, loaded the sample in writeBuffer.  The rest       *)
(* records what the operation has done: the first entry it was to read,    *)
(* the entries it has written, the newest entry there was when it last     *)
(* looked for one, and whether it found its entry off the list but held by *)
(* another operation.                                                      *)
(***************************************************************************)
Phases == {"START", "SAMPLE", "COMMA", "END"}
Active(r) == reads[r].state \in Phases

Idle == [state |-> "none", next |-> NULL, loaded |-> NULL, from |-> NULL,
         sent |-> <<>>, seen |-> NULL, shared |-> FALSE]

ReadInit ==
    /\ samples = <<>>
    /\ oldest = 1
    /\ maxCount = 0
    /\ reads = [r \in Readers |-> Idle]
    /\ running = Nobody

-----------------------------------------------------------------------------
(* The buffer, between the event loop's calls.                             *)

AtLeast(a, b) == IF a >= b THEN a ELSE b

(***************************************************************************)
(* TruncateBuffer(): the oldest entry once no more than count are left.    *)
(***************************************************************************)
Truncated(first, last, count) == AtLeast(first, last - count + 1)

(***************************************************************************)
(* obs_ProcessAccepted(): a sample of another type empties the buffer      *)
(* first; one that is older than the newest buffered one is dropped.       *)
(***************************************************************************)
ProcessAccepted(s, typeChanged) ==
    LET first == IF typeChanged THEN Newest + 1 ELSE oldest
        dropped == first <= Newest /\ samples[Newest].stamp > s.stamp
    IN  /\ running = Nobody
        /\ maxCount > 0
        /\ Newest < MaxSamples
        /\ samples' = IF dropped THEN samples ELSE Append(samples, s)
        /\ oldest' = Truncated(first, Len(samples'), maxCount)
        /\ UNCHANGED <<maxCount, reads, running>>

SetBufferMaxCount(count) ==
    /\ running = Nobody
    /\ maxCount' = count
    /\ oldest' = Truncated(oldest, Newest, count)
    /\ UNCHANGED <<samples, reads, running>>

-----------------------------------------------------------------------------
(* Read operations.                                                        *)

(***************************************************************************)
(* The references on an entry, with that of reader r on entry e.           *)
(***************************************************************************)
RefCount(r, e) ==
    (IF e \in Buffer THEN 1 ELSE 0)
        + Cardinality({r} \cup {q \in Readers : reads[q].next = e})

OldestEntry == IF Buffer = {} THEN NULL ELSE oldest

(***************************************************************************)
(* GetNextBufferEntry(): an entry that was popped has no next one.         *)
(***************************************************************************)
\* Mutant: the newest entry has a next one.
NextUnbounded(e) == IF e \in Buffer THEN e + 1 ELSE NULL

NextEntry(e) == IF e \in Buffer /\ e < Newest THEN e + 1 ELSE NULL

(***************************************************************************)
(* LoadReadOpBuffer(): where the search for an entry to load begins, the   *)
(* entry it loads, and the operation afterwards.                           *)
(***************************************************************************)
\* Mutant: an entry that is still in the buffer is taken for one that is not.
LoadFromStart(r, e) == IF e # NULL /\ RefCount(r, e) <= 2 THEN OldestEntry ELSE e

\* Mutant: an entry off the list is not noticed.
LoadFromEntry(r, e) == e

LoadFrom(r, e) == IF e # NULL /\ RefCount(r, e) = 1 THEN OldestEntry ELSE e

OffTheList(r, e) == e # NULL /\ e \notin Buffer /\ RefCount(r, e) > 1

Fitting(e) ==
    {f \in (IF e \in Buffer THEN e .. Newest ELSE {e} \ {NULL}) : samples[f].fits}

FirstFitting(e) == IF Fitting(e) = {} THEN NULL ELSE Min(Fitting(e))

Load(r, op) ==
    LET e == LoadFrom(r, op.next)
        f == FirstFitting(e)
    IN  [op EXCEPT !.loaded = f,
                   !.next = IF f = NULL THEN NULL ELSE NextEntry(f),
                   !.seen = IF op.next = NULL THEN @ ELSE Newest,
                   !.shared = @ \/ OffTheList(r, op.next)]

(***************************************************************************)
(* FindBufferEntry() and obs_ReadBufferJson(): the first entry at or after *)
(* the start time; an exact match with an absolute start time is skipped.  *)
(* A start time relative to now never matches a timestamp.                 *)
(***************************************************************************)
FindBufferEntry(stamp) ==
    LET found == {e \in Buffer : samples[e].stamp >= stamp}
    IN  IF found = {} THEN NULL ELSE Min(found)

StartEntry(start) ==
    LET e == FindBufferEntry(start.stamp)
    IN  IF start.absolute /\ e # NULL /\ samples[e].stamp = start.stamp
        THEN NextEntry(e)
        ELSE e

ReadBufferJson(r, start) ==
    LET e == StartEntry(start)
    IN  /\ running = Nobody
        /\ reads[r].state = "none"
        /\ reads' = [reads EXCEPT ![r] =
               Load(r, [Idle EXCEPT !.state = "START", !.next = e, !.from = e])]
        /\ running' = r
        /\ UNCHANGED <<samples, oldest, maxCount>>

(***************************************************************************)
(* One turn of the loop of ContinueReadOp(), which writes a bracket, a     *)
(* comma, or the sample.  A write() that takes part of a sample moves      *)
(* writeOffset alone, which is left out.                                   *)
(***************************************************************************)
\* Mutant: the sample in the write buffer is written again.
AdvancedInPlace(r, op) ==
    CASE op.state = "START" ->
            [op EXCEPT !.state = IF op.loaded # NULL THEN "SAMPLE" ELSE "END"]
      [] op.state \in {"SAMPLE", "COMMA"} -> [op EXCEPT !.state = "SAMPLE"]
      [] op.state = "END" -> [op EXCEPT !.state = "LE_OK"]

Advanced(r, op) ==
    CASE op.state = "START" ->
            [op EXCEPT !.state = IF op.loaded # NULL THEN "SAMPLE" ELSE "END"]
      [] op.state = "SAMPLE" ->
            LET loaded == Load(r, op)
            IN  [loaded EXCEPT
                    !.sent = Append(@, op.loaded),
                    !.state = IF loaded.loaded # NULL THEN "COMMA" ELSE "END"]
      [] op.state = "COMMA" -> [op EXCEPT !.state = "SAMPLE"]
      [] op.state = "END" -> [op EXCEPT !.state = "LE_OK"]

Write(r) ==
    /\ running = r
    /\ reads' = [reads EXCEPT ![r] = Advanced(r, @)]
    /\ running' = IF reads[r].state = "END" THEN Nobody ELSE r
    /\ UNCHANGED <<samples, oldest, maxCount>>

(* EAGAIN: return to the event loop.                                       *)
PipeFull(r) ==
    /\ running = r
    /\ running' = Nobody
    /\ UNCHANGED <<samples, oldest, maxCount, reads>>

(***************************************************************************)
(* EndRead() after a failure: the reference is released, and what was      *)
(* written no longer matters.                                              *)
(***************************************************************************)
Failed == [Idle EXCEPT !.state = "LE_COMM_ERROR"]

WriteFails(r) ==
    /\ running = r
    /\ reads' = [reads EXCEPT ![r] = Failed]
    /\ running' = Nobody
    /\ UNCHANGED <<samples, oldest, maxCount>>

(* ReadOpFdEventHandler(): the pipe can be written, or was closed.         *)
Writeable(r) ==
    /\ running = Nobody
    /\ Active(r)
    /\ running' = r
    /\ UNCHANGED <<samples, oldest, maxCount, reads>>

HangUp(r) ==
    /\ running = Nobody
    /\ Active(r)
    /\ reads' = [reads EXCEPT ![r] = Failed]
    /\ UNCHANGED <<samples, oldest, maxCount, running>>

(***************************************************************************)
(* ObservationDestructor(), and obs_Create() of an Observation in its      *)
(* place.                                                                  *)
(***************************************************************************)
Delete ==
    /\ running = Nobody
    /\ oldest' = Newest + 1
    /\ maxCount' = 0
    /\ reads' = [r \in Readers |->
           IF Active(r) THEN Failed ELSE reads[r]]
    /\ UNCHANGED <<samples, running>>

Polling(r) == Writeable(r) \/ HangUp(r)

ReadNext ==
    \/ \E s \in Samples, typeChanged \in BOOLEAN : ProcessAccepted(s, typeChanged)
    \/ \E count \in MaxCounts : SetBufferMaxCount(count)
    \/ \E r \in Readers, start \in Starts : ReadBufferJson(r, start)
    \/ \E r \in Readers : Write(r) \/ PipeFull(r) \/ WriteFails(r) \/ Polling(r)
    \/ Delete

(***************************************************************************)
(* The loop takes its turns, the event loop serves every descriptor, and   *)
(* who reads the pipe empties it: a write is not refused for ever.         *)
(***************************************************************************)
Fairness ==
    \A r \in Readers : SF_readVars(Write(r)) /\ SF_readVars(Writeable(r))

ReadSpec == ReadInit /\ [][ReadNext]_readVars /\ Fairness

-----------------------------------------------------------------------------
Entries == 0 .. MaxSamples

ReadTypeOK ==
    /\ samples \in Seq(Samples) /\ Newest <= MaxSamples
    /\ oldest \in 1 .. Newest + 1
    /\ maxCount \in MaxCounts \cup {0}
    /\ running \in Readers \cup {Nobody}
    /\ reads \in [Readers ->
           [state: Phases \cup {"none", "LE_OK", "LE_COMM_ERROR"},
            next: Entries, loaded: Entries, from: Entries,
            sent: Seq(Entries),
            seen: Entries, shared: BOOLEAN]]

SentBy(r) == {reads[r].sent[i] : i \in DOMAIN reads[r].sent}

(***************************************************************************)
(* A read never writes a sample twice and never goes back, whatever is     *)
(* pushed, popped or emptied while it waits for its pipe.                  *)
(***************************************************************************)
SentInOrder ==
    \A r \in Readers : LET sent == reads[r].sent IN
        \A i, j \in DOMAIN sent : i < j => sent[i] < sent[j]

(***************************************************************************)
(* What a read has passed over is not in the buffer: every entry that is   *)
(* still there, was asked for, fits, and lies before the one the read will *)
(* look at next (or, when there is no next one, was there when the read    *)
(* found that out) has been written or is in the write buffer.             *)
(***************************************************************************)
PassedOver(r) ==
    {e \in Buffer : /\ reads[r].from # NULL /\ e >= reads[r].from
                    /\ samples[e].fits
                    /\ IF reads[r].next # NULL THEN e < reads[r].next
                                               ELSE e <= reads[r].seen}

Complete(r) == PassedOver(r) \subseteq SentBy(r) \cup {reads[r].loaded}

Served(r) == Active(r) \/ reads[r].state = "LE_OK"

NothingSkipped ==
    \A r \in Readers : Served(r) /\ ~reads[r].shared => Complete(r)

(***************************************************************************)
(* A read in progress comes to an end, once samples stop coming faster     *)
(* than the pipe takes them.                                               *)
(***************************************************************************)
ReadsEnd == \A r \in Readers : Active(r) ~> ~Active(r)

=============================================================================
