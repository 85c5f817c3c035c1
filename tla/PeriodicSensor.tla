--------------------------- MODULE PeriodicSensor ---------------------------
(***************************************************************************)
(* The periodic sensor scaffold that apps are built on (periodicSensor.c): *)
(* a repeating timer that is to follow two settings kept in the Data Hub,  *)
(* the outputs "enable" and "period", and a "trigger" for one sample.      *)
(*                                                                         *)
(* The Data Hub is another process.  It tells the app of every value that  *)
(* is pushed to an output by a message, in order, and of the value that an *)
(* output has already when the app registers its handler.  The app handles *)
(* its messages and timer expiries one at a time.                          *)
(*                                                                         *)
(* A period is a double, and so it may be no number (Nan).  Every          *)
(* comparison with it is false: it passes both tests that refuse a period, *)
(* differs from itself, and is neither positive nor zero.                  *)
(***************************************************************************)
EXTENDS Naturals, Sequences

CONSTANTS
    Periods,        \* the periods in seconds that the app accepts
    BadPeriods,     \* numbers that it does not: not positive, or too large
    Nan,            \* the double that is no number
    MaxMessages,    \* bound: messages underway to the app
    None            \* the output has no value

ASSUME PeriodAssumption ==
    /\ Periods \subseteq Nat \ {0}
    /\ Periods \cap BadPeriods = {}
    /\ Nan \notin Periods \cup BadPeriods \cup {0}
    /\ None \notin Periods \cup BadPeriods \cup {Nan}
    /\ None \notin BOOLEAN
    /\ MaxMessages \in Nat

VARIABLES
    hubEnable,      \* current value of the output "enable" in the Data Hub
    hubPeriod,      \* current value of the output "period" in the Data Hub
    inbox,          \* messages underway from the Data Hub
    created,        \* the scaffold exists
    isEnabled,      \* as in Sensor_t
    period,         \* as in Sensor_t, 0 when not set
    running,        \* the timer runs
    interval,       \* the timer's interval, Nan for what the conversion of no number gives
    sampled,        \* history: sampleFunc was called in the last step
    missed          \* history: the sensor was enabled while its period was no number

hub == <<hubEnable, hubPeriod>>
timer == <<running, interval>>
sensor == <<created, isEnabled, period>>
vars == <<hub, inbox, sensor, timer, sampled, missed>>

Doubles == Periods \cup BadPeriods \cup {Nan}

Enable(b) == [to |-> "enable", on |-> b]
Period(p) == [to |-> "period", seconds |-> p]
Trigger == [to |-> "trigger"]
Messages == {Enable(b) : b \in BOOLEAN} \cup {Period(p) : p \in Doubles} \cup {Trigger}

Init ==
    /\ hubEnable = None
    /\ hubPeriod = None
    /\ inbox = <<>>
    /\ created = FALSE
    /\ isEnabled = FALSE
    /\ period = 0
    /\ running = FALSE
    /\ interval = 0
    /\ sampled = FALSE
    /\ missed = FALSE

-----------------------------------------------------------------------------
(* The Data Hub: values are pushed to the outputs, whether the app runs or not *)

Send(m) ==
    /\ Len(inbox) < MaxMessages
    /\ inbox' = IF created THEN Append(inbox, m) ELSE inbox
    /\ sampled' = FALSE
    /\ UNCHANGED <<sensor, timer, missed>>

PushEnable(b) == Send(Enable(b)) /\ hubEnable' = b /\ UNCHANGED hubPeriod
PushPeriod(p) == Send(Period(p)) /\ hubPeriod' = p /\ UNCHANGED hubEnable
PushTrigger == Send(Trigger) /\ UNCHANGED hub

-----------------------------------------------------------------------------
(* The app *)

\* The Data Hub answers the registration of a handler with the current value.
\* Mutant: it does not.
NoAnswer(enable, p) == <<>>
Answers(enable, p) ==
    (IF enable = None THEN <<>> ELSE <<Enable(enable)>>) \o
    (IF p = None THEN <<>> ELSE <<Period(p)>>)

psensor_Create ==
    /\ ~created
    /\ created' = TRUE
    /\ isEnabled' = FALSE
    /\ period' = 0
    /\ running' = FALSE
    /\ interval' = 0
    /\ \E trigger \in {<<>>, <<Trigger>>} : inbox' = Answers(hubEnable, hubPeriod) \o trigger
    /\ sampled' = FALSE
    /\ missed' = FALSE
    /\ UNCHANGED hub

\* An output keeps its value only if the administrator has set something on it.
\* What is underway to a handler that was removed is dropped.
psensor_Destroy ==
    /\ created
    /\ created' = FALSE
    /\ isEnabled' = FALSE
    /\ running' = FALSE
    /\ inbox' = <<>>
    /\ sampled' = FALSE
    /\ missed' = FALSE
    /\ hubEnable' \in {hubEnable, None}
    /\ hubPeriod' \in {hubPeriod, None}
    /\ UNCHANGED <<period, interval>>

\* The message at the head of the queue is handled.
Receive(m) ==
    /\ inbox # <<>>
    /\ Head(inbox) = m
    /\ inbox' = Tail(inbox)
    /\ UNCHANGED hub

\* Mutant: the timer is started although no period has been set.
HandleEnableAlways(enable) ==
    /\ Receive(Enable(enable))
    /\ isEnabled' = enable
    /\ running' = enable
    /\ sampled' = (enable /\ ~isEnabled)
    /\ missed' = FALSE
    /\ UNCHANGED <<created, period, interval>>
HandleEnablePush(enable) ==
    /\ Receive(Enable(enable))
    /\ isEnabled' = enable
    /\ IF enable = isEnabled
       THEN sampled' = FALSE /\ UNCHANGED <<running, missed>>
       ELSE /\ running' = (enable /\ period \in Periods)
            /\ sampled' = (enable /\ period \in Periods)
            /\ missed' = (enable /\ period = Nan)
    /\ UNCHANGED <<created, period, interval>>

\* A good period other than the one that is set, or no number: the timer starts if it was
\* the lack of a period (0) that kept it from running.
\* Mutant: the timer is not started.
AcceptPeriodIdle(p) ==
    /\ interval' = p
    /\ period' = p
    /\ sampled' = FALSE
    /\ UNCHANGED <<running, missed>>
AcceptPeriod(p) ==
    /\ interval' = p
    /\ period' = p
    /\ running' = (running \/ (period = 0 /\ isEnabled))
    /\ sampled' = (period = 0 /\ isEnabled)
    /\ UNCHANGED missed

RefusePeriod ==
    /\ period' = 0
    /\ running' = FALSE
    /\ sampled' = FALSE
    /\ missed' = FALSE
    /\ UNCHANGED interval

HandlePeriodPush(p) ==
    /\ Receive(Period(p))
    /\ IF p = period /\ p # Nan THEN sampled' = FALSE /\ UNCHANGED <<period, timer, missed>>
       ELSE IF p \in Periods \cup {Nan} THEN AcceptPeriod(p)
       ELSE RefusePeriod
    /\ UNCHANGED <<created, isEnabled>>

HandleTriggerPush ==
    /\ Receive(Trigger)
    /\ sampled' = isEnabled
    /\ UNCHANGED <<sensor, timer, missed>>

HandleTimerExpiry ==
    /\ running
    /\ sampled' = TRUE
    /\ UNCHANGED <<hub, inbox, sensor, timer, missed>>

-----------------------------------------------------------------------------

Handle ==
    \/ \E b \in BOOLEAN : HandleEnablePush(b)
    \/ \E p \in Doubles : HandlePeriodPush(p)
    \/ HandleTriggerPush

Next ==
    \/ \E b \in BOOLEAN : PushEnable(b)
    \/ \E p \in Doubles : PushPeriod(p)
    \/ PushTrigger
    \/ psensor_Create \/ psensor_Destroy
    \/ Handle
    \/ HandleTimerExpiry

\* The app's event loop serves its messages, and a timer that runs with a period expires.
\* When one expires whose interval was converted from no number is anybody's guess.
Spec ==
    /\ Init /\ [][Next]_vars
    /\ WF_vars(Handle)
    /\ WF_vars(interval # Nan /\ HandleTimerExpiry)

-----------------------------------------------------------------------------

TypeOK ==
    /\ hubEnable \in BOOLEAN \cup {None}
    /\ hubPeriod \in Doubles \cup {None}
    /\ inbox \in Seq(Messages)
    /\ created \in BOOLEAN
    /\ isEnabled \in BOOLEAN
    /\ period \in Periods \cup {Nan, 0}
    /\ running \in BOOLEAN
    /\ interval \in Periods \cup {Nan, 0}
    /\ sampled \in BOOLEAN
    /\ missed \in BOOLEAN

\* The timer runs exactly when the sensor is enabled and has a period, and with
\* that period, in whatever order the two were set, refused and taken back.  There is one
\* exception: a sensor that is enabled while its period is no number is not started, and
\* is not started by a good period either, until it is disabled or a period is refused.
TimerFollows ==
    /\ running <=> (isEnabled /\ period # 0 /\ ~missed)
    /\ running => interval = period

\* What the Data Hub's setting amounts to once no message about it is underway: a bad
\* period to none, and no number to itself.
EnableSettled == \A i \in 1 .. Len(inbox) : inbox[i].to # "enable"
PeriodSettled == \A i \in 1 .. Len(inbox) : inbox[i].to # "period"
Follows ==
    created =>
        /\ EnableSettled => isEnabled = (hubEnable = TRUE)
        /\ PeriodSettled => period = (IF hubPeriod \in Periods \cup {Nan} THEN hubPeriod ELSE 0)

\* A sensor that is disabled pushes nothing.
SilentWhenDisabled == sampled => isEnabled

\* A sensor that is switched on in the Data Hub delivers, unless it is switched
\* off or destroyed first, or was enabled while its period was no number.
On == created /\ hubEnable = TRUE /\ hubPeriod \in Periods
Delivers == On ~> (sampled \/ ~On \/ missed)

=============================================================================
