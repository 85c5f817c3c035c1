------------------------------- MODULE Filter -------------------------------
(***************************************************************************)
(* What becomes of a sample that is pushed to an Observation (res_Push in  *)
(* resource.c, obs_ApplyTransform and obs_ShouldAccept in obs.c): it is    *)
(* buffered, replaced by a transform of the buffer, compared with limits,  *)
(* with the current value and with the clock, and held while an update is  *)
(* under way or overridden.  Observation has the backup of the same buffer *)
(* and leaves the filter's decision open; here it is computed.             *)
(*                                                                         *)
(* Numbers are whole multiples of a unit of which One make 1.0, fine       *)
(* enough for every mean to be exact.  Nan is the number that compares     *)
(* false with all others.  The clock counts the unit of the minimum period *)
(* and wraps at W, as the milliseconds of the code do at 2^32.             *)
(***************************************************************************)
EXTENDS Integers, SequencesExt

CONSTANTS
    Samples,        \* what is pushed: [t : data type, v : value]
    LowLimits, HighLimits, Changes, Periods, Transforms, Counts,    \* settings
    Overrides, Defaults,
    One,
    W,              \* the clock wraps
    Forever,        \* longer than any period
    Nan, Off

Types == {"trigger", "boolean", "numeric", "string"}     \* JSON is a string

\* A null pointer where a sample could be.
None == [v |-> Nan, t |-> "none"]

ASSUME FilterAssumption ==
    /\ One \in Nat \ {0}
    /\ W \in Nat \ {0}
    /\ Forever \in Nat \ {0}
    /\ Nan \notin Int /\ Off \notin Int
    /\ Samples \cup Overrides \cup Defaults
          \subseteq [t : Types, v : Int \cup {Nan}]
    /\ \A x \in Samples \cup Overrides \cup Defaults : x.t = "boolean" => x.v \in {0, One}
    /\ LowLimits \subseteq Int
    /\ HighLimits \subseteq Int
    /\ Changes \subseteq Nat \ {0}
    /\ Periods \subseteq 1 .. Forever
    /\ Transforms \subseteq {"none", "mean", "max", "min"}
    /\ Counts \subseteq Nat

VARIABLES
    lowLimit, highLimit, changeBy, minPeriod,   \* Off: NAN, or zero for the last two
    transform, maxCount,
    buffer,         \* the sample list, oldest first, without timestamps
    bufferedType,
    current, pushed, override, default,         \* currentValue and so on, with their types
    elapsed,        \* the time now less lastPushTime, as the code computes it
    changing,       \* isConfigChanging
    updating,       \* IsUpdateInProgress
    sinceShown,     \* history: time since a pushed sample became current, up to Forever
    slack,          \* history: by how much that was later than the minimum period asks
    seen,           \* history: the samples pushed since a transform was set
    parity          \* history: of the number of pushes, so that none is a stutter

limits == <<lowLimit, highLimit, changeBy, minPeriod>>
stored == <<transform, maxCount, buffer, bufferedType, seen>>
values == <<current, pushed, override, default>>
time == <<elapsed, sinceShown, slack>>
update == <<changing, updating>>
vars == <<limits, stored, values, time, update, parity>>

\* obs_Create sets every field but lastPushTime, whose memory may hold anything.
Init ==
    /\ lowLimit = Off /\ highLimit = Off /\ changeBy = Off /\ minPeriod = Off
    /\ transform = "none" /\ maxCount = 0
    /\ buffer = <<>> /\ bufferedType = "trigger"
    /\ current = None /\ pushed = None /\ override = None /\ default = None
    /\ elapsed \in 0 .. (W - 1)
    /\ changing = FALSE
    /\ updating \in BOOLEAN
    /\ sinceShown = Forever /\ slack = Forever
    /\ seen = {} /\ parity = 0

-----------------------------------------------------------------------------
(* The buffer and its transforms *)

TruncateBuffer(b, n) == IF Len(b) > n THEN SubSeq(b, Len(b) - n + 1, Len(b)) ELSE b

\* Only the type that is pushed stays in the buffer.
Kept(x) == IF bufferedType = x.t THEN buffer ELSE <<>>

\* obs_ProcessAccepted: a sample older than the newest one, which is late, is dropped.
Buffered(x, late) ==
    IF maxCount = 0 THEN buffer
    ELSE TruncateBuffer(IF late THEN Kept(x) ELSE Append(Kept(x), x), maxCount)

BufferedType(x) == IF maxCount = 0 THEN bufferedType ELSE x.t

Numbers(b) == {i \in DOMAIN b : b[i].v # Nan}
Values(b) == {b[i].v : i \in Numbers(b)}

\* Mutant: the mean is of a full buffer.
MeanOfFull(b) == MapThenSumSet(LAMBDA i : b[i].v, Numbers(b)) \div maxCount
Mean(b) == MapThenSumSet(LAMBDA i : b[i].v, Numbers(b)) \div Cardinality(Numbers(b))

\* obs_QueryMean, obs_QueryMax, obs_QueryMin: all of buffer b, of samples of type t.
Query(b, t) ==
    IF t \notin {"numeric", "boolean"} \/ Numbers(b) = {} THEN Nan
    ELSE CASE transform = "mean" -> Mean(b)
           [] transform = "max" -> Max(Values(b))
           [] OTHER -> Min(Values(b))

Less(a, b) == a # Nan /\ b # Nan /\ a < b

\* A value takes the place of a sample's, if that is of a type that can hold it.
UpdateSample(x, value) ==
    CASE x.t = "numeric" -> [x EXCEPT !.v = value]
      [] x.t = "boolean" -> [x EXCEPT !.v = IF Less(0, value) THEN One ELSE 0]
      [] OTHER -> x

ApplyTransform(x, b, t) == IF transform = "none" THEN x ELSE UpdateSample(x, Query(b, t))

-----------------------------------------------------------------------------
(* The filter *)

\* Two limits in the wrong order exclude what is between them.
\* Mutant: they exclude everything.
NotBeyond(v) == ~(lowLimit # Off /\ Less(v, lowLimit)) /\ ~(highLimit # Off /\ Less(highLimit, v))
InLimits(v) ==
    IF lowLimit # Off /\ highLimit # Off /\ highLimit < lowLimit
    THEN ~(Less(v, lowLimit) /\ Less(highLimit, v))
    ELSE ~(lowLimit # Off /\ Less(v, lowLimit)) /\ ~(highLimit # Off /\ Less(highLimit, v))

Distance(a, b) == IF a = Nan \/ b = Nan THEN Nan ELSE IF a < b THEN b - a ELSE a - b

\* Mutant: a sample is compared with the last one recorded, which an update may have held.
DiffersFromPushed(y) ==
    pushed # None /\ pushed.t = y.t =>
        CASE y.t = "numeric" -> ~Less(Distance(y.v, pushed.v), changeBy)
          [] y.t \in {"boolean", "string"} -> y.v # pushed.v
          [] OTHER -> TRUE
Differs(y) ==
    CASE y.t = "numeric" -> ~Less(Distance(y.v, current.v), changeBy)
      [] y.t \in {"boolean", "string"} -> y.v # current.v
      [] OTHER -> TRUE

\* Under an override the current value would not change.
ChangesEnough(y) ==
    changeBy # Off => override = None /\ (y.t = current.t => Differs(y))

PeriodOver == minPeriod # Off => elapsed >= minPeriod

\* obs_ShouldAccept: without a current value there is nothing to compare with.
ShouldAccept(y) ==
    /\ y.t = "numeric" => InLimits(y.v)
    /\ current # None => ChangesEnough(y) /\ PeriodOver

\* What has passed the filter is remembered, and becomes current, under the
\* override if there is one, unless the settings are being changed.
\* Mutant: the time is taken only when it was asked for.
RecordWhenAsked(y) ==
    /\ elapsed' = IF minPeriod = Off THEN elapsed ELSE 0
    /\ pushed' = y
    /\ IF changing THEN UNCHANGED <<current, sinceShown, slack>>
       ELSE /\ current' = IF override = None THEN y ELSE override
            /\ slack' = IF minPeriod = Off THEN Forever ELSE sinceShown - minPeriod
            /\ sinceShown' = 0
Record(y) ==
    /\ elapsed' = 0
    /\ pushed' = y
    /\ IF changing THEN UNCHANGED <<current, sinceShown, slack>>
       ELSE /\ current' = IF override = None THEN y ELSE override
            /\ slack' = IF minPeriod = Off THEN Forever ELSE sinceShown - minPeriod
            /\ sinceShown' = 0

\* A late sample is older than one of its type in the buffer.
res_Push(x, late) ==
    /\ late => maxCount > 0 /\ Kept(x) # <<>>
    /\ buffer' = Buffered(x, late)
    /\ bufferedType' = BufferedType(x)
    /\ seen' = IF transform = "none" THEN seen ELSE seen \cup {x}
    /\ LET y == ApplyTransform(x, buffer', bufferedType') IN
       \/ ShouldAccept(y) /\ Record(y)
       \/ ~ShouldAccept(y) /\ UNCHANGED <<current, pushed, time>>
    /\ parity' = 1 - parity
    /\ UNCHANGED <<limits, transform, maxCount, override, default, update>>

Tick ==
    /\ elapsed' = (elapsed + 1) % W
    /\ sinceShown' = IF sinceShown < Forever THEN sinceShown + 1 ELSE Forever
    /\ UNCHANGED <<limits, stored, values, slack, update, parity>>

-----------------------------------------------------------------------------
(* The administrator *)

\* The samples of a resource whose filter changes during an update are held.
Mark == changing' = (changing \/ updating) /\ UNCHANGED updating

res_SetLowLimit(v) ==
    /\ lowLimit' = v
    /\ Mark
    /\ UNCHANGED <<highLimit, changeBy, minPeriod, stored, values, time, parity>>

res_SetHighLimit(v) ==
    /\ highLimit' = v
    /\ Mark
    /\ UNCHANGED <<lowLimit, changeBy, minPeriod, stored, values, time, parity>>

res_SetChangeBy(v) ==
    /\ changeBy' = v
    /\ Mark
    /\ UNCHANGED <<lowLimit, highLimit, minPeriod, stored, values, time, parity>>

res_SetMinPeriod(v) ==
    /\ minPeriod' = v
    /\ Mark
    /\ UNCHANGED <<lowLimit, highLimit, changeBy, stored, values, time, parity>>

\* The buffer is emptied and the pushed value is dropped; the current value stays.
\* Mutant: the buffer is kept.
SetTransformOnly(f) ==
    /\ transform' = f
    /\ maxCount' = IF f # "none" /\ maxCount = 0 THEN 1 ELSE maxCount
    /\ pushed' = None
    /\ seen' = {}
    /\ Mark
    /\ UNCHANGED <<limits, buffer, bufferedType, current, override, default, time, parity>>
res_SetTransform(f) ==
    /\ transform' = f
    /\ maxCount' = IF f # "none" /\ maxCount = 0 THEN 1 ELSE maxCount
    /\ buffer' = <<>>
    /\ pushed' = None
    /\ seen' = {}
    /\ Mark
    /\ UNCHANGED <<limits, bufferedType, current, override, default, time, parity>>

\* This one does not hold samples.
res_SetBufferMaxCount(n) ==
    /\ maxCount' = n
    /\ buffer' = TruncateBuffer(buffer, n)
    /\ UNCHANGED <<limits, transform, bufferedType, seen, values, time, update, parity>>

res_SetOverride(x) ==
    /\ override' = x
    /\ current' = x
    /\ UNCHANGED <<limits, stored, pushed, default, time, update, parity>>

res_RemoveOverride ==
    /\ override # None
    /\ override' = None
    /\ current' = IF pushed # None THEN pushed ELSE IF default # None THEN default ELSE current
    /\ UNCHANGED <<limits, stored, pushed, default, time, update, parity>>

res_SetDefault(x) ==
    /\ default' = x
    /\ current' = IF override = None /\ pushed = None THEN x ELSE current
    /\ UNCHANGED <<limits, stored, pushed, override, time, update, parity>>

res_RemoveDefault ==
    /\ default' = None
    /\ UNCHANGED <<limits, stored, current, pushed, override, time, update, parity>>

res_StartUpdate ==
    /\ updating' = TRUE
    /\ UNCHANGED <<limits, stored, values, time, changing, parity>>

res_EndUpdate ==
    /\ updating' = FALSE
    /\ changing' = FALSE
    /\ UNCHANGED <<limits, stored, values, time, parity>>

Next ==
    \/ \E x \in Samples, late \in BOOLEAN : res_Push(x, late)
    \/ Tick
    \/ \E v \in LowLimits \cup {Off} : res_SetLowLimit(v)
    \/ \E v \in HighLimits \cup {Off} : res_SetHighLimit(v)
    \/ \E v \in Changes \cup {Off} : res_SetChangeBy(v)
    \/ \E v \in Periods \cup {Off} : res_SetMinPeriod(v)
    \/ \E f \in Transforms : res_SetTransform(f)
    \/ \E n \in Counts : res_SetBufferMaxCount(n)
    \/ \E x \in Overrides : res_SetOverride(x)
    \/ res_RemoveOverride
    \/ \E x \in Defaults : res_SetDefault(x)
    \/ res_RemoveDefault
    \/ res_StartUpdate
    \/ res_EndUpdate

Spec == Init /\ [][Next]_vars

-----------------------------------------------------------------------------
(* Properties *)

\* Every variable keeps its type; the buffer holds samples of one type, no more than
\* fit (obs_ProcessAccepted, obs_SetBufferMaxCount).
TypeOK ==
    /\ lowLimit \in LowLimits \cup {Off} /\ highLimit \in HighLimits \cup {Off}
    /\ changeBy \in Changes \cup {Off} /\ minPeriod \in Periods \cup {Off}
    /\ transform \in Transforms \cup {"none"}
    /\ maxCount \in Nat
    /\ buffer \in Seq(Samples) /\ Len(buffer) <= maxCount
    /\ bufferedType \in Types
    /\ \A i \in DOMAIN buffer : buffer[i].t = bufferedType
    /\ \A x \in {current, pushed} : x.t \in Types \/ x = None
    /\ override \in Overrides \cup {None} /\ default \in Defaults \cup {None}
    /\ elapsed \in 0 .. (W - 1)
    /\ changing \in BOOLEAN /\ updating \in BOOLEAN
    /\ sinceShown \in 0 .. Forever
    /\ slack \in Int
    /\ seen \subseteq Samples
    /\ parity \in {0, 1}

\* Between two pushed samples that become current passes the minimum period that is
\* set when the second does: through wraps of the clock, changes of the period and
\* samples that are held (obs_ShouldAccept, lastPushTime).
Throttled == slack >= 0

\* What the two limits let pass, said of the numbers: the range between them, or,
\* when they are in the wrong order, what is not between them.
InRange(y) ==
    y.t = "numeric" /\ y.v # Nan =>
        LET above == lowLimit = Off \/ y.v >= lowLimit
            below == highLimit = Off \/ y.v <= highLimit
        IN  IF lowLimit # Off /\ highLimit # Off /\ highLimit < lowLimit
            THEN above \/ below ELSE above /\ below

Near(x, y) ==
    /\ x # None /\ x.t = y.t
    /\ \/ x.v = y.v
       \/ y.t = "numeric" /\ changeBy # Off /\ Less(Distance(y.v, x.v), changeBy)

\* After a push of a sample in range that no update, override or minimum period
\* keeps back, the current value is within changeBy of it: it does not fall behind
\* however slowly samples drift, and catches up on what was held during an update or
\* under an override.  A sample out of range changes nothing (obs_ShouldAccept).
Tracks ==
    [][ \A x \in Samples, late \in BOOLEAN :
          res_Push(x, late) =>
            LET y == ApplyTransform(x, buffer', bufferedType') IN
            /\ ~InRange(y) => UNCHANGED <<current, pushed>>
            /\ InRange(y) /\ ~changing /\ override = None /\ (current = None \/ PeriodOver)
                 => Near(current', y) ]_vars

\* Under the transforms max and min the latest value is a sample that was pushed after
\* the transform was set, whatever was buffered before (obs_SetTransform, TruncateBuffer).
ExtremeIsSample ==
    /\ transform \in {"max", "min"}
    /\ pushed # None /\ pushed.t # "boolean" /\ pushed.v # Nan
    => pushed \in seen

\* The mean lies between two such samples (obs_QueryMean).
MeanBetween ==
    transform = "mean" /\ pushed # None /\ pushed.t = "numeric" /\ pushed.v # Nan
    => \E a, b \in {x \in seen : x.t = "numeric" /\ x.v # Nan} : a.v <= pushed.v /\ pushed.v <= b.v
=============================================================================
