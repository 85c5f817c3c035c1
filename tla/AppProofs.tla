----------------------------- MODULE AppProofs -----------------------------
(***************************************************************************)
(* Proofs about the two timers of the apps: that of the periodic sensor,   *)
(* for every set of periods and every bound on the messages underway, and  *)
(* the sample timer of the cloud publishers, for any items, intervals and  *)
(* timings.  The two components share nothing.                             *)
(*                                                                         *)
(* That the sensor follows the Data Hub is not inductive: while messages   *)
(* are underway the sensor may lag behind.  What every step keeps is that  *)
(* the last message about a setting carries the Data Hub's value of it.    *)
(***************************************************************************)
EXTENDS PeriodicSensor, Publisher, TLAPS

-----------------------------------------------------------------------------
(* PeriodicSensor *)

\* Position i holds the last message about setting s that is underway.
IsLast(i, s) ==
    /\ i \in 1 .. Len(inbox)
    /\ inbox[i].to = s
    /\ \A j \in 1 .. Len(inbox) : j > i => inbox[j].to # s

LastIsCurrent ==
    created =>
        \A i \in 1 .. Len(inbox) :
            /\ IsLast(i, "enable") => inbox[i].on = hubEnable
            /\ IsLast(i, "period") => inbox[i].seconds = hubPeriod

Underway == created \/ inbox = <<>>

\* A timer that is not running has its interval too: it may be started with it.
IntervalSet == period # 0 => interval = period

\* What keeps the timer from running is lifted by disabling the sensor and by a bad period.
MissedEnabled == missed => isEnabled /\ period # 0

SensorInv ==
    TypeOK /\ TimerFollows /\ IntervalSet /\ MissedEnabled /\ SilentWhenDisabled /\ Underway /\ LastIsCurrent /\ Follows

\* What a message is, by the setting it is about.
LEMMA MessageFacts ==
    /\ \A b \in BOOLEAN : Enable(b) \in Messages /\ Enable(b).to = "enable" /\ Enable(b).on = b
    /\ \A p \in Doubles :
          Period(p) \in Messages /\ Period(p).to = "period" /\ Period(p).seconds = p
    /\ Trigger \in Messages /\ Trigger.to = "trigger"
BY DEF Messages, Enable, Period, Trigger

\* The messages that are left move up by one place when the first is taken.
LEMMA TailFacts ==
    ASSUME NEW q \in Seq(Messages), q # <<>>
    PROVE  /\ Tail(q) \in Seq(Messages)
           /\ Len(q) >= 1 /\ Len(Tail(q)) = Len(q) - 1
           /\ \A i \in 1 .. Len(Tail(q)) : Tail(q)[i] = q[i + 1]
           /\ Head(q) = q[1]
OBVIOUS

\* Three sequences of messages after one another.
LEMMA ConcatFacts ==
    ASSUME NEW q \in Seq(Messages), NEW r \in Seq(Messages), NEW s \in Seq(Messages)
    PROVE  /\ (q \o r) \o s \in Seq(Messages)
           /\ Len((q \o r) \o s) = Len(q) + Len(r) + Len(s)
           /\ \A i \in 1 .. Len((q \o r) \o s) :
                 ((q \o r) \o s)[i] = IF i <= Len(q) THEN q[i]
                                      ELSE IF i <= Len(q) + Len(r) THEN r[i - Len(q)]
                                      ELSE s[i - Len(q) - Len(r)]
<1>1. q \o r \in Seq(Messages) /\ Len(q \o r) = Len(q) + Len(r)
  OBVIOUS
<1>2. \A i \in 1 .. Len(q \o r) : (q \o r)[i] = IF i <= Len(q) THEN q[i] ELSE r[i - Len(q)]
  OBVIOUS
<1> DEFINE qr == q \o r
<1> HIDE DEF qr
<1>3. qr \in Seq(Messages)
  BY <1>1 DEF qr
<1>4. /\ qr \o s \in Seq(Messages) /\ Len(qr \o s) = Len(qr) + Len(s)
      /\ \A i \in 1 .. Len(qr \o s) :
            (qr \o s)[i] = IF i <= Len(qr) THEN qr[i] ELSE s[i - Len(qr)]
  BY <1>3
<1>5. Len(qr) = Len(q) + Len(r) /\ Len(q) \in Nat /\ Len(r) \in Nat /\ Len(s) \in Nat
  BY <1>1 DEF qr
<1>6. \A i \in 1 .. Len(qr) : qr[i] = IF i <= Len(q) THEN q[i] ELSE r[i - Len(q)]
  BY <1>2 DEF qr
<1>7. \A i \in 1 .. Len(qr \o s) :
          (qr \o s)[i] = IF i <= Len(q) THEN q[i]
                         ELSE IF i <= Len(q) + Len(r) THEN r[i - Len(q)]
                         ELSE s[i - Len(q) - Len(r)]
  BY <1>4, <1>5, <1>6
<1> QED  BY <1>4, <1>5, <1>7 DEF qr

\* The answers to a registration hold no message but the current values, each once.
LEMMA AnswerFacts ==
    ASSUME NEW b \in BOOLEAN \cup {None}, NEW p \in Doubles \cup {None},
           NEW t \in {<<>>, <<Trigger>>}, NEW answers, answers = Answers(b, p) \o t
    PROVE  /\ answers \in Seq(Messages)
           /\ \A i \in 1 .. Len(answers) :
                 \/ b # None /\ answers[i] = Enable(b)
                 \/ p # None /\ answers[i] = Period(p)
                 \/ answers[i] = Trigger
           /\ b # None => 1 \in 1 .. Len(answers) /\ answers[1] = Enable(b)
           /\ p # None => \E i \in 1 .. Len(answers) : answers[i] = Period(p)
<1> DEFINE A == IF b = None THEN <<>> ELSE <<Enable(b)>>
           B == IF p = None THEN <<>> ELSE <<Period(p)>>
           q == (A \o B) \o t
<1>1. /\ A \in Seq(Messages) /\ Len(A) = (IF b = None THEN 0 ELSE 1)
      /\ b # None => A[1] = Enable(b)
  <2>1. CASE b = None
    BY <2>1
  <2>2. CASE b # None
    <3>1. Enable(b) \in Messages
      BY <2>2, MessageFacts
    <3> QED  BY <2>2, <3>1
  <2> QED  BY <2>1, <2>2
<1>2. /\ B \in Seq(Messages) /\ Len(B) = (IF p = None THEN 0 ELSE 1)
      /\ p # None => B[1] = Period(p)
  <2>1. CASE p = None
    BY <2>1
  <2>2. CASE p # None
    <3>1. Period(p) \in Messages
      BY <2>2, MessageFacts
    <3> QED  BY <2>2, <3>1
  <2> QED  BY <2>1, <2>2
<1>3. t \in Seq(Messages) /\ (Len(t) = 0 \/ (Len(t) = 1 /\ t[1] = Trigger))
  <2>1. CASE t = <<>>
    BY <2>1
  <2>2. CASE t = <<Trigger>>
    <3>1. Trigger \in Messages
      BY MessageFacts
    <3> QED  BY <2>2, <3>1
  <2> QED  BY <2>1, <2>2
<1> HIDE DEF A, B
<1>4. /\ q \in Seq(Messages) /\ Len(q) = Len(A) + Len(B) + Len(t)
      /\ \A i \in 1 .. Len(q) :
            q[i] = IF i <= Len(A) THEN A[i]
                   ELSE IF i <= Len(A) + Len(B) THEN B[i - Len(A)] ELSE t[i - Len(A) - Len(B)]
  BY <1>1, <1>2, <1>3, ConcatFacts
<1>5. ASSUME NEW i \in 1 .. Len(q)
      PROVE  \/ b # None /\ q[i] = Enable(b)
             \/ p # None /\ q[i] = Period(p)
             \/ q[i] = Trigger
  BY <1>1, <1>2, <1>3, <1>4
<1>6. b # None => 1 \in 1 .. Len(q) /\ q[1] = Enable(b)
  BY <1>1, <1>2, <1>3, <1>4
<1>7. p # None => \E i \in 1 .. Len(q) : q[i] = Period(p)
  <2> SUFFICES ASSUME p # None PROVE q[Len(A) + 1] = Period(p) /\ Len(A) + 1 \in 1 .. Len(q)
    OBVIOUS
  <2> QED  BY <1>1, <1>2, <1>3, <1>4
<1>8. answers = q
  BY DEF Answers, A, B
<1> QED  BY <1>4, <1>5, <1>6, <1>7, <1>8

-----------------------------------------------------------------------------

\* Handling a message leaves the others as current as they were, and the message
\* carries the current value if it was the last one about its setting.
LEMMA ReceiveFacts ==
    ASSUME SensorInv, created, created', NEW m \in Messages, Receive(m)
    PROVE  /\ inbox' \in Seq(Messages)
           /\ LastIsCurrent'
           /\ EnableSettled' => IF m.to = "enable" THEN m.on = hubEnable ELSE EnableSettled
           /\ PeriodSettled' => IF m.to = "period" THEN m.seconds = hubPeriod ELSE PeriodSettled
<1>1. /\ inbox \in Seq(Messages) /\ inbox # <<>> /\ inbox' = Tail(inbox)
      /\ hubEnable' = hubEnable /\ hubPeriod' = hubPeriod
  BY DEF Receive, SensorInv, TypeOK, hub
<1>2. /\ inbox' \in Seq(Messages)
      /\ Len(inbox) \in Nat /\ Len(inbox) >= 1 /\ Len(inbox') = Len(inbox) - 1
      /\ \A i \in 1 .. Len(inbox') : inbox'[i] = inbox[i + 1]
      /\ m = inbox[1]
  BY <1>1, TailFacts DEF Receive
<1>3. ASSUME NEW i \in 1 .. Len(inbox'), NEW s, IsLast(i, s)'
      PROVE  i + 1 \in 1 .. Len(inbox) /\ IsLast(i + 1, s)
  <2>1. i + 1 \in 1 .. Len(inbox) /\ inbox[i + 1].to = s
    BY <1>2, <1>3 DEF IsLast
  <2>2. ASSUME NEW j \in 1 .. Len(inbox), j > i + 1
        PROVE  inbox[j].to # s
    <3>1. j - 1 \in 1 .. Len(inbox') /\ j - 1 > i /\ inbox'[j - 1] = inbox[(j - 1) + 1]
      BY <1>2, <2>2
    <3>2. inbox'[j - 1] = inbox[j]
      BY <3>1
    <3> QED  BY <1>3, <3>1, <3>2 DEF IsLast
  <2> QED  BY <2>1, <2>2 DEF IsLast
<1>4. LastIsCurrent'
  <2>1. ASSUME NEW i \in 1 .. Len(inbox')
        PROVE  /\ IsLast(i, "enable")' => inbox'[i].on = hubEnable'
               /\ IsLast(i, "period")' => inbox'[i].seconds = hubPeriod'
    <3>1. IsLast(i, "enable")' => inbox[i + 1].on = hubEnable
      BY <1>3 DEF SensorInv, LastIsCurrent
    <3>2. IsLast(i, "period")' => inbox[i + 1].seconds = hubPeriod
      BY <1>3 DEF SensorInv, LastIsCurrent
    <3> QED  BY <1>1, <1>2, <3>1, <3>2
  <2> QED  BY <2>1 DEF LastIsCurrent
<1>5. ASSUME NEW s, \A i \in 1 .. Len(inbox') : inbox'[i].to # s
      PROVE  \A j \in 1 .. Len(inbox) : j > 1 => inbox[j].to # s
  <2>1. ASSUME NEW j \in 1 .. Len(inbox), j > 1
        PROVE  inbox[j].to # s
    <3>1. j - 1 \in 1 .. Len(inbox') /\ inbox'[j - 1] = inbox[(j - 1) + 1]
      BY <1>2, <2>1
    <3>2. inbox'[j - 1] = inbox[j]
      BY <3>1
    <3> QED  BY <1>5, <3>1, <3>2
  <2> QED  BY <2>1
<1>6. EnableSettled' => IF m.to = "enable" THEN m.on = hubEnable ELSE EnableSettled
  <2> SUFFICES ASSUME EnableSettled'
               PROVE  IF m.to = "enable" THEN m.on = hubEnable ELSE EnableSettled
    OBVIOUS
  <2>1. \A j \in 1 .. Len(inbox) : j > 1 => inbox[j].to # "enable"
    BY <1>5 DEF EnableSettled
  <2>2. CASE m.to = "enable"
    BY <1>2, <2>1, <2>2 DEF IsLast, SensorInv, LastIsCurrent
  <2>3. CASE m.to # "enable"
    BY <1>2, <2>1, <2>3 DEF EnableSettled
  <2> QED  BY <2>2, <2>3
<1>7. PeriodSettled' => IF m.to = "period" THEN m.seconds = hubPeriod ELSE PeriodSettled
  <2> SUFFICES ASSUME PeriodSettled'
               PROVE  IF m.to = "period" THEN m.seconds = hubPeriod ELSE PeriodSettled
    OBVIOUS
  <2>1. \A j \in 1 .. Len(inbox) : j > 1 => inbox[j].to # "period"
    BY <1>5 DEF PeriodSettled
  <2>2. CASE m.to = "period"
    BY <1>2, <2>1, <2>2 DEF IsLast, SensorInv, LastIsCurrent
  <2>3. CASE m.to # "period"
    BY <1>2, <2>1, <2>3 DEF PeriodSettled
  <2> QED  BY <2>2, <2>3
<1> QED  BY <1>2, <1>4, <1>6, <1>7

\* A message sent to a live sensor becomes the last one about its setting.
LEMMA SendFacts ==
    ASSUME SensorInv, created, created', NEW m \in Messages, inbox' = Append(inbox, m),
           IF m.to = "enable" THEN m.on = hubEnable' ELSE hubEnable' = hubEnable,
           IF m.to = "period" THEN m.seconds = hubPeriod' ELSE hubPeriod' = hubPeriod
    PROVE  /\ inbox' \in Seq(Messages)
           /\ LastIsCurrent'
           /\ EnableSettled' => m.to # "enable" /\ EnableSettled
           /\ PeriodSettled' => m.to # "period" /\ PeriodSettled
<1> DEFINE n == Len(inbox)
<1>1. /\ inbox' \in Seq(Messages) /\ n \in Nat /\ Len(inbox') = n + 1
      /\ \A i \in 1 .. n : inbox'[i] = inbox[i]
      /\ inbox'[n + 1] = m
  BY DEF SensorInv, TypeOK
<1>2. ASSUME NEW s, NEW i \in 1 .. n, IsLast(i, s)'
      PROVE  IsLast(i, s) /\ m.to # s
  <2>1. n + 1 \in 1 .. Len(inbox') /\ n + 1 > i
    BY <1>1
  <2>2. m.to # s
    BY <1>1, <1>2, <2>1 DEF IsLast
  <2>3. \A j \in 1 .. n : j \in 1 .. Len(inbox') /\ inbox'[j] = inbox[j]
    BY <1>1
  <2>4. IsLast(i, s)
    BY <1>2, <2>3 DEF IsLast
  <2> QED  BY <2>2, <2>4
<1>3. LastIsCurrent'
  <2>1. ASSUME NEW i \in 1 .. Len(inbox')
        PROVE  /\ IsLast(i, "enable")' => inbox'[i].on = hubEnable'
               /\ IsLast(i, "period")' => inbox'[i].seconds = hubPeriod'
    <3>1. CASE i = n + 1
      <4>1. inbox'[i] = m
        BY <1>1, <3>1
      <4>2. IsLast(i, "enable")' => m.to = "enable"
        BY <4>1 DEF IsLast
      <4>3. IsLast(i, "period")' => m.to = "period"
        BY <4>1 DEF IsLast
      <4> QED  BY <4>1, <4>2, <4>3
    <3>2. CASE i \in 1 .. n
      <4>1. /\ IsLast(i, "enable")' => inbox[i].on = hubEnable /\ m.to # "enable"
            /\ IsLast(i, "period")' => inbox[i].seconds = hubPeriod /\ m.to # "period"
        BY <1>2, <3>2 DEF SensorInv, LastIsCurrent
      <4> QED  BY <1>1, <3>2, <4>1
    <3> QED  BY <1>1, <3>1, <3>2
  <2> QED  BY <2>1 DEF LastIsCurrent
<1>4. EnableSettled' => m.to # "enable" /\ EnableSettled
  <2>1. n + 1 \in 1 .. Len(inbox') /\ \A j \in 1 .. n : j \in 1 .. Len(inbox')
    BY <1>1
  <2> QED  BY <1>1, <2>1 DEF EnableSettled
<1>5. PeriodSettled' => m.to # "period" /\ PeriodSettled
  <2>1. n + 1 \in 1 .. Len(inbox') /\ \A j \in 1 .. n : j \in 1 .. Len(inbox')
    BY <1>1
  <2> QED  BY <1>1, <2>1 DEF PeriodSettled
<1> QED  BY <1>1, <1>3, <1>4, <1>5

-----------------------------------------------------------------------------

\* A push to an output that the app has heard of, or not.
LEMMA PushStep ==
    ASSUME SensorInv, NEW m \in Messages, Send(m),
           hubEnable' \in BOOLEAN \cup {None}, hubPeriod' \in Doubles \cup {None},
           IF m.to = "enable" THEN m.on = hubEnable' ELSE hubEnable' = hubEnable,
           IF m.to = "period" THEN m.seconds = hubPeriod' ELSE hubPeriod' = hubPeriod
    PROVE  SensorInv'
<1>1. /\ sampled' = FALSE /\ created' = created /\ isEnabled' = isEnabled /\ period' = period
      /\ running' = running /\ interval' = interval /\ missed' = missed
      /\ inbox' = IF created THEN Append(inbox, m) ELSE inbox
  BY DEF Send, sensor, timer
<1>2. CASE created
  <2>1. /\ inbox' \in Seq(Messages)
        /\ LastIsCurrent'
        /\ EnableSettled' => m.to # "enable" /\ EnableSettled
        /\ PeriodSettled' => m.to # "period" /\ PeriodSettled
    BY <1>1, <1>2, SendFacts
  <2>2. Follows'
    BY <1>1, <1>2, <2>1 DEF SensorInv, Follows
  <2> QED
    BY <1>1, <1>2, <2>1, <2>2 DEF SensorInv, TypeOK, TimerFollows, IntervalSet, MissedEnabled, SilentWhenDisabled, Underway
<1>3. CASE ~created
  BY <1>1, <1>3
  DEF SensorInv, TypeOK, TimerFollows, IntervalSet, MissedEnabled, SilentWhenDisabled, Underway, LastIsCurrent, Follows
<1> QED  BY <1>2, <1>3

LEMMA SensorStep == SensorInv /\ [Next]_vars => SensorInv'
<1> SUFFICES ASSUME SensorInv, [Next]_vars PROVE SensorInv'
  OBVIOUS
<1> USE PeriodAssumption
<1>1. ASSUME NEW b \in BOOLEAN, PushEnable(b) PROVE SensorInv'
  <2>1. Send(Enable(b)) /\ hubEnable' = b /\ hubPeriod' = hubPeriod
    BY <1>1 DEF PushEnable
  <2>2. hubPeriod' \in Doubles \cup {None}
    BY <2>1 DEF SensorInv, TypeOK
  <2> QED  BY <2>1, <2>2, MessageFacts, PushStep
<1>2. ASSUME NEW p \in Doubles, PushPeriod(p) PROVE SensorInv'
  <2>1. Send(Period(p)) /\ hubPeriod' = p /\ hubEnable' = hubEnable
    BY <1>2 DEF PushPeriod
  <2>2. hubEnable' \in BOOLEAN \cup {None}
    BY <2>1 DEF SensorInv, TypeOK
  <2> QED  BY <2>1, <2>2, MessageFacts, PushStep
<1>3. CASE PushTrigger
  <2>1. Send(Trigger) /\ hubPeriod' = hubPeriod /\ hubEnable' = hubEnable
    BY <1>3 DEF PushTrigger, hub
  <2>2. hubEnable' \in BOOLEAN \cup {None} /\ hubPeriod' \in Doubles \cup {None}
    BY <2>1 DEF SensorInv, TypeOK
  <2> QED  BY <2>1, <2>2, MessageFacts, PushStep
<1>4. CASE psensor_Create
  <2>1. PICK t \in {<<>>, <<Trigger>>} : inbox' = Answers(hubEnable, hubPeriod) \o t
    BY <1>4 DEF psensor_Create
  <2>2. hubEnable \in BOOLEAN \cup {None} /\ hubPeriod \in Doubles \cup {None}
    BY DEF SensorInv, TypeOK
  <2>3. /\ created' /\ isEnabled' = FALSE /\ period' = 0 /\ running' = FALSE /\ interval' = 0
        /\ sampled' = FALSE /\ missed' = FALSE /\ hubEnable' = hubEnable /\ hubPeriod' = hubPeriod
    BY <1>4 DEF psensor_Create, hub
  <2>4. inbox' \in Seq(Messages)
    BY <2>1, <2>2, AnswerFacts
  <2>5. ASSUME NEW i \in 1 .. Len(inbox')
        PROVE  \/ hubEnable # None /\ inbox'[i] = Enable(hubEnable)
               \/ hubPeriod # None /\ inbox'[i] = Period(hubPeriod)
               \/ inbox'[i] = Trigger
    <3>1. \A j \in 1 .. Len(inbox') :
             \/ hubEnable # None /\ inbox'[j] = Enable(hubEnable)
             \/ hubPeriod # None /\ inbox'[j] = Period(hubPeriod)
             \/ inbox'[j] = Trigger
      BY <2>1, <2>2, AnswerFacts
    <3> QED  BY <3>1
  <2>6. LastIsCurrent'
    <3>1. ASSUME NEW i \in 1 .. Len(inbox')
          PROVE  /\ inbox'[i].to = "enable" => inbox'[i].on = hubEnable
                 /\ inbox'[i].to = "period" => inbox'[i].seconds = hubPeriod
      BY <2>2, <2>5, MessageFacts
    <3> QED  BY <2>3, <3>1 DEF LastIsCurrent, IsLast
  <2>7. EnableSettled' => hubEnable = None
    <3> SUFFICES ASSUME hubEnable # None PROVE ~EnableSettled'
      OBVIOUS
    <3>1. 1 \in 1 .. Len(inbox') /\ inbox'[1] = Enable(hubEnable)
      BY <2>1, <2>2, AnswerFacts
    <3>2. inbox'[1].to = "enable"
      BY <2>2, <3>1, MessageFacts
    <3> QED  BY <3>1, <3>2 DEF EnableSettled
  <2>8. PeriodSettled' => hubPeriod = None
    <3> SUFFICES ASSUME hubPeriod # None PROVE ~PeriodSettled'
      OBVIOUS
    <3>1. PICK i \in 1 .. Len(inbox') : inbox'[i] = Period(hubPeriod)
      BY <2>1, <2>2, AnswerFacts
    <3>2. inbox'[i].to = "period"
      BY <2>2, <3>1, MessageFacts
    <3> QED  BY <3>1, <3>2 DEF PeriodSettled
  <2>9. Follows'
    <3>1. None # TRUE /\ None \notin Periods
      OBVIOUS
    <3> QED  BY <2>3, <2>7, <2>8, <3>1 DEF Follows
  <2> QED
    BY <2>2, <2>3, <2>4, <2>6, <2>9
    DEF SensorInv, TypeOK, TimerFollows, IntervalSet, MissedEnabled, SilentWhenDisabled, Underway
<1>5. CASE psensor_Destroy
  <2>1. /\ created' = FALSE /\ isEnabled' = FALSE /\ running' = FALSE /\ inbox' = <<>>
        /\ sampled' = FALSE /\ missed' = FALSE /\ period' = period /\ interval' = interval
        /\ hubEnable' \in {hubEnable, None} /\ hubPeriod' \in {hubPeriod, None}
    BY <1>5 DEF psensor_Destroy, SensorInv, TypeOK
  <2>2. hubEnable' \in BOOLEAN \cup {None} /\ hubPeriod' \in Doubles \cup {None}
    <3>1. hubEnable \in BOOLEAN \cup {None} /\ hubPeriod \in Doubles \cup {None}
      BY DEF SensorInv, TypeOK
    <3> QED  BY <2>1, <3>1, Zenon
  <2>3. inbox' \in Seq(Messages)
    BY <2>1
  <2>4. TypeOK'
    BY <2>1, <2>2, <2>3 DEF SensorInv, TypeOK
  <2> QED
    BY <2>1, <2>4
    DEF SensorInv, TimerFollows, IntervalSet, MissedEnabled, SilentWhenDisabled, Underway, LastIsCurrent, Follows
<1>6. ASSUME NEW m, Receive(m) PROVE created
  BY <1>6 DEF Receive, SensorInv, Underway
<1>7. ASSUME NEW b \in BOOLEAN, HandleEnablePush(b) PROVE SensorInv'
  <2>1. /\ Receive(Enable(b)) /\ isEnabled' = b /\ created' = created /\ period' = period
        /\ interval' = interval
        /\ running' = IF b = isEnabled THEN running ELSE b /\ period \in Periods
        /\ sampled' = IF b = isEnabled THEN FALSE ELSE b /\ period \in Periods
        /\ missed' = IF b = isEnabled THEN missed ELSE b /\ period = Nan
    BY <1>7 DEF HandleEnablePush
  <2>2. created /\ created' /\ hubEnable' = hubEnable /\ hubPeriod' = hubPeriod
    BY <1>6, <2>1 DEF Receive, hub
  <2>3. /\ inbox' \in Seq(Messages)
        /\ LastIsCurrent'
        /\ EnableSettled' => b = hubEnable
        /\ PeriodSettled' => PeriodSettled
    BY <2>1, <2>2, MessageFacts, ReceiveFacts
  <2>4. Follows'
    BY <2>1, <2>2, <2>3 DEF SensorInv, Follows
  <2>5. /\ TimerFollows' /\ IntervalSet' /\ MissedEnabled' /\ SilentWhenDisabled'
        /\ running' \in BOOLEAN /\ sampled' \in BOOLEAN /\ missed' \in BOOLEAN
    <3>0. /\ period \in Periods \cup {Nan, 0} /\ interval \in Periods \cup {Nan, 0}
          /\ running \in BOOLEAN /\ isEnabled \in BOOLEAN /\ missed \in BOOLEAN
          /\ running <=> (isEnabled /\ period # 0 /\ ~missed)
          /\ period # 0 => interval = period
          /\ missed => isEnabled /\ period # 0
          /\ Nan # 0 /\ Nan \notin Periods /\ 0 \notin Periods
      BY DEF SensorInv, TypeOK, TimerFollows, IntervalSet, MissedEnabled
    <3>1. CASE b = isEnabled
      <4>1. running' = running /\ ~sampled' /\ missed' = missed
        BY <2>1, <3>1
      <4> QED
        BY <2>1, <3>0, <3>1, <4>1
        DEF TimerFollows, IntervalSet, MissedEnabled, SilentWhenDisabled
    <3>2. CASE b # isEnabled /\ b = TRUE
      <4>1. CASE period \in Periods
        <5>1. running' = TRUE /\ sampled' = TRUE /\ missed' = FALSE
          BY <2>1, <3>0, <3>2, <4>1
        <5> QED
          BY <2>1, <3>0, <3>2, <4>1, <5>1
          DEF TimerFollows, IntervalSet, MissedEnabled, SilentWhenDisabled
      <4>2. CASE period = Nan
        <5>1. running' = FALSE /\ sampled' = FALSE /\ missed' = TRUE
          BY <2>1, <3>0, <3>2, <4>2
        <5> QED
          BY <2>1, <3>0, <3>2, <4>2, <5>1
          DEF TimerFollows, IntervalSet, MissedEnabled, SilentWhenDisabled
      <4>3. CASE period = 0
        <5>1. running' = FALSE /\ sampled' = FALSE /\ missed' = FALSE
          BY <2>1, <3>0, <3>2, <4>3
        <5> QED
          BY <2>1, <3>0, <3>2, <4>3, <5>1
          DEF TimerFollows, IntervalSet, MissedEnabled, SilentWhenDisabled
      <4> QED  BY <3>0, <4>1, <4>2, <4>3
    <3>3. CASE b # isEnabled /\ b = FALSE
      <4>1. running' = FALSE /\ sampled' = FALSE /\ missed' = FALSE
        BY <2>1, <3>3
      <4> QED
        BY <2>1, <3>0, <3>3, <4>1
        DEF TimerFollows, IntervalSet, MissedEnabled, SilentWhenDisabled
    <3> QED  BY <3>1, <3>2, <3>3
  <2> QED
    BY <2>1, <2>2, <2>3, <2>4, <2>5 DEF SensorInv, TypeOK, Underway
<1>8. ASSUME NEW p \in Doubles, HandlePeriodPush(p) PROVE SensorInv'
  <2>1. Receive(Period(p)) /\ created' = created /\ isEnabled' = isEnabled
    BY <1>8 DEF HandlePeriodPush
  <2>2. created /\ created' /\ hubEnable' = hubEnable /\ hubPeriod' = hubPeriod
    BY <1>6, <2>1 DEF Receive, hub
  <2>3. /\ inbox' \in Seq(Messages)
        /\ LastIsCurrent'
        /\ EnableSettled' => EnableSettled
        /\ PeriodSettled' => p = hubPeriod
    BY <2>1, <2>2, MessageFacts, ReceiveFacts
  <2>4. /\ period' = IF p \in Periods \cup {Nan} THEN p ELSE 0
        /\ period' \in Periods \cup {Nan, 0} /\ interval' \in Periods \cup {Nan, 0}
        /\ running' \in BOOLEAN /\ sampled' \in BOOLEAN /\ missed' \in BOOLEAN
        /\ TimerFollows' /\ IntervalSet' /\ MissedEnabled' /\ SilentWhenDisabled'
    <3>0. /\ period \in Periods \cup {Nan, 0} /\ interval \in Periods \cup {Nan, 0}
          /\ running \in BOOLEAN /\ isEnabled \in BOOLEAN /\ missed \in BOOLEAN
          /\ running <=> (isEnabled /\ period # 0 /\ ~missed)
          /\ period # 0 => interval = period
          /\ missed => isEnabled /\ period # 0
          /\ Nan # 0 /\ Nan \notin Periods /\ 0 \notin Periods
      BY DEF SensorInv, TypeOK, TimerFollows, IntervalSet, MissedEnabled
    <3>1. CASE p = period /\ p # Nan
      <4>1. /\ sampled' = FALSE /\ period' = period /\ running' = running /\ interval' = interval
            /\ missed' = missed
        BY <1>8, <3>1 DEF HandlePeriodPush, timer
      <4>2. period = IF p \in Periods \cup {Nan} THEN p ELSE 0
        BY <3>0, <3>1
      <4>3. running => interval = period
        BY <3>0
      <4> QED
        BY <2>1, <3>0, <4>1, <4>2, <4>3
        DEF TimerFollows, IntervalSet, MissedEnabled, SilentWhenDisabled
    <3>2. CASE (p # period \/ p = Nan) /\ p \in Periods \cup {Nan}
      <4>1. AcceptPeriod(p)
        BY <1>8, <3>2 DEF HandlePeriodPush
      <4>2. p # 0 /\ missed' = missed /\ interval' = p /\ period' = p
        BY <3>0, <3>2, <4>1 DEF AcceptPeriod
      <4>3. CASE isEnabled
        <5>1. running' = ~missed /\ sampled' \in BOOLEAN
          BY <3>0, <4>1, <4>3 DEF AcceptPeriod
        <5> QED
          BY <2>1, <3>0, <3>2, <4>2, <4>3, <5>1
          DEF TimerFollows, IntervalSet, MissedEnabled, SilentWhenDisabled
      <4>4. CASE ~isEnabled
        <5>1. running' = FALSE /\ sampled' = FALSE
          BY <3>0, <4>1, <4>4 DEF AcceptPeriod
        <5> QED
          BY <2>1, <3>0, <3>2, <4>2, <4>4, <5>1
          DEF TimerFollows, IntervalSet, MissedEnabled, SilentWhenDisabled
      <4> QED  BY <4>3, <4>4
    <3>3. CASE p # period /\ p \notin Periods \cup {Nan}
      <4>1. /\ sampled' = FALSE /\ period' = 0 /\ running' = FALSE /\ interval' = interval
            /\ missed' = FALSE
        BY <1>8, <3>3 DEF HandlePeriodPush, RefusePeriod
      <4>2. TimerFollows' /\ IntervalSet' /\ MissedEnabled' /\ SilentWhenDisabled'
        BY <4>1 DEF TimerFollows, IntervalSet, MissedEnabled, SilentWhenDisabled
      <4>3. running' \in BOOLEAN /\ sampled' \in BOOLEAN /\ missed' \in BOOLEAN
        BY <4>1
      <4> QED  BY <3>0, <3>3, <4>1, <4>2, <4>3
    <3> QED  BY <3>1, <3>2, <3>3
  <2>5. Follows'
    BY <2>1, <2>2, <2>3, <2>4 DEF SensorInv, Follows
  <2> QED
    BY <2>1, <2>2, <2>3, <2>4, <2>5 DEF SensorInv, TypeOK, Underway
<1>9. CASE HandleTriggerPush
  <2>1. /\ Receive(Trigger) /\ sampled' = isEnabled /\ created' = created
        /\ isEnabled' = isEnabled /\ period' = period /\ running' = running /\ interval' = interval /\ missed' = missed
    BY <1>9 DEF HandleTriggerPush, sensor, timer
  <2>2. created /\ created' /\ hubEnable' = hubEnable /\ hubPeriod' = hubPeriod
    BY <1>6, <2>1 DEF Receive, hub
  <2>3. /\ inbox' \in Seq(Messages)
        /\ LastIsCurrent'
        /\ EnableSettled' => EnableSettled
        /\ PeriodSettled' => PeriodSettled
    BY <2>1, <2>2, MessageFacts, ReceiveFacts
  <2> QED
    BY <2>1, <2>2, <2>3
    DEF SensorInv, TypeOK, TimerFollows, IntervalSet, MissedEnabled, SilentWhenDisabled, Underway, Follows
<1>10. CASE HandleTimerExpiry
  <2>1. /\ running /\ sampled' = TRUE /\ UNCHANGED <<created, isEnabled, period, running, interval, missed>>
        /\ UNCHANGED <<hubEnable, hubPeriod, inbox>>
    BY <1>10 DEF HandleTimerExpiry, hub, sensor, timer
  <2> QED
    BY <2>1
    DEF SensorInv, TypeOK, TimerFollows, IntervalSet, MissedEnabled, SilentWhenDisabled, Underway, LastIsCurrent, IsLast,
        Follows, EnableSettled, PeriodSettled
<1>11. CASE UNCHANGED vars
  <2>1. /\ UNCHANGED <<created, isEnabled, period, running, interval, sampled, missed>>
        /\ UNCHANGED <<hubEnable, hubPeriod, inbox>>
    BY <1>11 DEF vars, hub, sensor, timer
  <2> QED
    BY <2>1
    DEF SensorInv, TypeOK, TimerFollows, IntervalSet, MissedEnabled, SilentWhenDisabled, Underway, LastIsCurrent, IsLast,
        Follows, EnableSettled, PeriodSettled
<1> QED
  BY <1>1, <1>2, <1>3, <1>4, <1>5, <1>7, <1>8, <1>9, <1>10, <1>11 DEF Next, Handle

LEMMA SensorInvariant == Spec => []SensorInv
<1>1. Init => SensorInv
  <2> SUFFICES ASSUME Init PROVE SensorInv
    OBVIOUS
  <2>1. None # TRUE /\ None \notin Periods
    BY PeriodAssumption
  <2>2. inbox = <<>> /\ inbox \in Seq(Messages)
    BY DEF Init
  <2> QED
    BY <2>1, <2>2 DEF Init, SensorInv, TypeOK, TimerFollows, IntervalSet, MissedEnabled, SilentWhenDisabled, Underway,
                      LastIsCurrent, Follows
<1> QED  BY <1>1, SensorStep, PTL DEF Spec

\* Every variable of the sensor has its type, whatever it is sent.
THEOREM SensorTypes == Spec => []TypeOK
<1>1. SensorInv => TypeOK
  BY DEF SensorInv
<1> QED  BY <1>1, SensorInvariant, PTL

\* The timer runs exactly when the sensor is enabled and has a period
\* (HandleEnablePush(), HandlePeriodPush(), psensor_Destroy()).
THEOREM TimerAlwaysFollows == Spec => []TimerFollows
<1>1. SensorInv => TimerFollows
  BY DEF SensorInv
<1> QED  BY <1>1, SensorInvariant, PTL

\* Once nothing about a setting is underway, the sensor has the Data Hub's value
\* of it (psensor_Create() and the handlers of the two outputs).
THEOREM SensorFollows == Spec => []Follows
<1>1. SensorInv => Follows
  BY DEF SensorInv
<1> QED  BY <1>1, SensorInvariant, PTL

\* A sensor that is disabled takes no sample, from its timer or a trigger.
THEOREM SilenceKept == Spec => []SilentWhenDisabled
<1>1. SensorInv => SilentWhenDisabled
  BY DEF SensorInv
<1> QED  BY <1>1, SensorInvariant, PTL

-----------------------------------------------------------------------------
(* Publisher: time *)

LEMMA LaterInRange ==
    /\ \A a \in 0 .. Forever, d \in Nat : Later(a, d) \in 0 .. Forever
    /\ \A a \in 0 .. Never, d \in Nat : Later(a, d) \in 0 .. Never
BY PublisherAssumption DEF Later, Never

\* What was longer ago still is.
LEMMA LaterKeepsOrder ==
    ASSUME NEW a \in 0 .. Never, NEW b \in 0 .. Forever, NEW d \in Nat, a >= b
    PROVE  Later(a, d) >= Later(b, d)
BY PublisherAssumption DEF Later, Never

-----------------------------------------------------------------------------
(* Publisher: the inductive invariant.  An item is marked as recorded only when a publish *)
(* goes ahead, so none was recorded after the last publish, and when the last  *)
(* publish is too long ago, so is the last recording of every item; unless a   *)
(* push failed after its items had been marked.                                *)

NotRecordedSince == ~failed => \A i \in Items : sinceRecorded[i] >= sincePublished
PubInv == PubTypeOK /\ NotRecordedSince /\ PublishForced /\ RecordedIsScheduled

LEMMA PubInitially == PubInit => PubInv
<1> SUFFICES ASSUME PubInit PROVE PubInv
    OBVIOUS
<1>1. Never \in Nat /\ Never \in 0 .. Never /\ Never >= Forever /\ Forever \in 0 .. Forever
    BY PublisherAssumption DEF Never
<1>2. PubTypeOK
  <2>1. sinceRecorded \in [Items -> 0 .. Never]
      BY <1>1 DEF PubInit
  <2>2. timerOn \in BOOLEAN /\ DeferredPublish \in BOOLEAN /\ unsent \in BOOLEAN /\ failed \in BOOLEAN
      BY DEF PubInit
  <2>3. sincePublished \in 0 .. Forever /\ outcome \in {"none", "quiet", "deferred", "pushed", "failed"}
      BY <1>1 DEF PubInit
  <2> QED
      BY <2>1, <2>2, <2>3 DEF PubTypeOK
<1>3. NotRecordedSince
    BY <1>1 DEF PubInit, NotRecordedSince
<1> QED
    BY <1>2, <1>3 DEF PubInit, PubInv, PublishForced, RecordedIsScheduled

LEMMA SessionKeeps ==
    ASSUME PubInv, NEW started \in BOOLEAN, AvSessionStateHandler(started)
    PROVE  PubInv'
BY DEF PubInv, AvSessionStateHandler, PubTypeOK, NotRecordedSince, PublishForced, RecordedIsScheduled

LEMMA WaitKeeps ==
    ASSUME PubInv, NEW d \in Elapsed, Wait(d)
    PROVE  PubInv'
<1>1. d \in Nat
    BY PublisherAssumption
<1>2. PubTypeOK'
    BY <1>1, LaterInRange DEF PubInv, Wait, PubTypeOK
<1>3. NotRecordedSince'
    BY <1>1, LaterKeepsOrder DEF PubInv, Wait, PubTypeOK, NotRecordedSince
<1> QED
    BY <1>2, <1>3 DEF PubInv, Wait, PublishForced, RecordedIsScheduled

LEMMA SampleKeeps ==
    ASSUME PubInv, Sample
    PROVE  PubInv'
<1>1. PICK d \in Elapsed, recorded \in SUBSET Items, refused \in SUBSET Items, pushed \in BOOLEAN :
          SampleTimerHandler(d, recorded, refused, pushed)
    BY DEF Sample
<1> DEFINE rec == [i \in Items |-> Later(sinceRecorded[i], d)]
           pub == Later(sincePublished, d)
<1>2. /\ timerOn' = timerOn
      /\ IF Due(recorded, rec, pub) \/ DeferredPublish
         THEN IF TooSoon(pub) THEN Defer(rec, pub, recorded)
              ELSE Publish(rec, pub, recorded, refused, pushed)
         ELSE /\ sinceRecorded' = rec
              /\ sincePublished' = pub
              /\ outcome' = "quiet"
              /\ UNCHANGED <<DeferredPublish, unsent, failed>>
    BY <1>1 DEF SampleTimerHandler
<1>3. /\ rec \in [Items -> 0 .. Never]
      /\ pub \in 0 .. Forever
      /\ ~failed => \A i \in Items : rec[i] >= pub
    BY PublisherAssumption, LaterInRange, LaterKeepsOrder DEF PubInv, PubTypeOK, NotRecordedSince
<1> HIDE DEF rec, pub
<1>4. CASE Defer(rec, pub, recorded)
  <2>1. PubTypeOK'
    <3>1. /\ sinceRecorded' \in [Items -> 0 .. Never]
          /\ sincePublished' \in 0 .. Forever
        BY <1>3, <1>4 DEF Defer
    <3>2. DeferredPublish' = TRUE /\ outcome' = "deferred" /\ unsent' \in BOOLEAN /\ failed' = failed
        BY <1>4 DEF Defer, PubInv, PubTypeOK
    <3> QED
        BY <1>2, <3>1, <3>2 DEF PubInv, PubTypeOK
  <2>2. NotRecordedSince'
      BY <1>3, <1>4 DEF Defer, NotRecordedSince
  <2> QED
      BY <1>4, <2>1, <2>2 DEF Defer, PubInv, PublishForced, RecordedIsScheduled
<1>5. CASE Publish(rec, pub, recorded, refused, pushed)
  <2> DEFINE stale == Stale(rec) \ refused
  <2>1. sinceRecorded' = [i \in Items |-> IF i \in stale THEN 0 ELSE rec[i]]
      BY <1>5 DEF Publish
  <2>2. \/ /\ sincePublished' = 0
           /\ DeferredPublish' = FALSE
           /\ unsent' = FALSE
           /\ failed' = FALSE
           /\ outcome' = "pushed"
        \/ /\ sincePublished' = pub
           /\ unsent' = (unsent \/ recorded # {} \/ stale # {})
           /\ failed' = TRUE
           /\ outcome' = "failed"
           /\ DeferredPublish' = DeferredPublish
      BY <1>5 DEF Publish
  <2> HIDE DEF stale
  <2>3. /\ sinceRecorded' \in [Items -> 0 .. Never]
        /\ sincePublished' \in 0 .. Forever
      BY <1>3, <2>1, <2>2, PublisherAssumption DEF Never
  <2>4. unsent' \in BOOLEAN /\ DeferredPublish' \in BOOLEAN
      BY <2>2 DEF PubInv, PubTypeOK
  <2>5. PubTypeOK'
      BY <1>2, <2>2, <2>3, <2>4 DEF PubInv, PubTypeOK
  \* After a push nothing is longer ago than the publish; after a failure nothing is claimed.
  <2>6. NotRecordedSince'
      BY <2>2, <2>3 DEF NotRecordedSince
  <2> QED
      BY <2>2, <2>5, <2>6 DEF PubInv, PublishForced, RecordedIsScheduled
<1>6. CASE /\ ~Due(recorded, rec, pub)
           /\ sinceRecorded' = rec
           /\ sincePublished' = pub
           /\ outcome' = "quiet"
           /\ UNCHANGED <<DeferredPublish, unsent, failed>>
  <2>1. PubTypeOK'
      BY <1>2, <1>3, <1>6 DEF PubInv, PubTypeOK
  <2>2. NotRecordedSince'
      BY <1>3, <1>6 DEF NotRecordedSince
  <2>3. ~failed => pub <= MaxIntervalBetweenPublish * Second
    <3> SUFFICES ASSUME ~failed PROVE pub <= MaxIntervalBetweenPublish * Second
        OBVIOUS
    <3> DEFINE longest == MaxIntervalBetweenPublish * Second
    <3>1. longest \in Nat
        BY PublisherAssumption
    <3>2. PICK i \in Items : TRUE
        BY PublisherAssumption
    <3>3. ~(rec[i] > longest /\ pub > 0)
        BY <1>6 DEF Due
    <3>4. rec[i] >= pub /\ rec[i] \in Nat /\ pub \in Nat
        BY <1>3, PublisherAssumption DEF Never
    <3> HIDE DEF longest
    <3>5. pub <= longest
        BY <3>1, <3>3, <3>4
    <3> QED
        BY <3>5 DEF longest
  <2> QED
      BY <1>6, <2>1, <2>2, <2>3 DEF PubInv, PublishForced, RecordedIsScheduled
<1> QED
    BY <1>2, <1>4, <1>5, <1>6

LEMMA PubStep ==
    ASSUME PubInv, [PubNext]_pubVars
    PROVE  PubInv'
<1>1. CASE UNCHANGED pubVars
    BY <1>1 DEF pubVars, PubInv, PubTypeOK, NotRecordedSince, PublishForced, RecordedIsScheduled
<1> QED
    BY <1>1, SessionKeeps, WaitKeeps, SampleKeeps DEF PubNext

\* Every variable of the sample timer's handler keeps its type (avPublisher.c:594-676).
THEOREM PublisherTypes == PubSpec => []PubTypeOK
<1>1. PubInv /\ [PubNext]_pubVars => PubInv'
    BY PubStep
<1>2. PubInv => PubTypeOK
    BY DEF PubInv
<1> QED
    BY <1>1, <1>2, PubInitially, PTL DEF PubSpec

\* As long as no push has failed since the last publish, no expiry of the timer is
\* quiet when the longest interval has passed (avPublisher.c:629-638).
THEOREM PublishesInTime == PubSpec => []PublishForced
<1>1. PubInv /\ [PubNext]_pubVars => PubInv'
    BY PubStep
<1>2. PubInv => PublishForced
    BY DEF PubInv
<1> QED
    BY <1>1, <1>2, PubInitially, PTL DEF PubSpec

\* The other half: a reading that was recorded is pushed, waits for a publish that
\* was deferred, or was in a record that was refused (avPublisher.c:636-674).
THEOREM RecordedStaysScheduled == PubSpec => []RecordedIsScheduled
<1>1. PubInv /\ [PubNext]_pubVars => PubInv'
    BY PubStep
<1>2. PubInv => RecordedIsScheduled
    BY DEF PubInv
<1> QED
    BY <1>1, <1>2, PubInitially, PTL DEF PubSpec
=============================================================================
