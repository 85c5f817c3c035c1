----------------------------- MODULE Publisher -----------------------------
(***************************************************************************)
(* How the apps that take readings to the cloud decide what to record and  *)
(* when to publish it: the handler of the sample timer, which is the same  *)
(* in HM3301/avPubComponent/avPublisher.c, in GroveRelayToCloud and in     *)
(* RelayDataHubToCloud, and the AirVantage session that starts and stops   *)
(* the timer.                                                              *)
(*                                                                         *)
(* The code keeps times in milliseconds since 1970; kept here is how long  *)
(* ago they were, up to Forever, as the code only ever takes differences.  *)
(* The clock is taken to go forwards.                                      *)
(***************************************************************************)
EXTENDS Naturals

CONSTANTS
    Items,
    Second,                     \* milliseconds in a second
    MinIntervalBetweenPublish,
    MaxIntervalBetweenPublish,
    TimeToStale,
    Elapsed,        \* milliseconds from one expiry of the timer to the next:
                    \* one that comes late is followed by one that comes soon
    Forever         \* bound: longer ago than any of the intervals

ASSUME PublisherAssumption ==
    /\ Items # {}
    /\ Second \in Nat \ {0}
    /\ MinIntervalBetweenPublish \in Nat
    /\ MaxIntervalBetweenPublish \in Nat
    /\ TimeToStale \in Nat
    /\ Elapsed \subseteq Nat \ {0}
    /\ Forever \in Nat
    /\ Forever > MaxIntervalBetweenPublish * Second
    /\ Forever > TimeToStale * Second
    /\ Forever > MinIntervalBetweenPublish * Second

VARIABLES
    timerOn,            \* the sample timer runs
    sinceRecorded,      \* of each item, by its lastTimeRecorded
    sincePublished,     \* by LastTimePublished
    DeferredPublish,
    unsent,             \* the record holds readings that were not pushed
    failed,             \* history: a push has failed since the last publish
    outcome             \* history: what came of the last expiry

pubVars == <<timerOn, sinceRecorded, sincePublished, DeferredPublish, unsent, failed, outcome>>

\* Never recorded: lastTimeRecorded is zero, and that is longer ago than anything.
Never == Forever + 1

PubInit ==
    /\ timerOn = FALSE
    /\ sinceRecorded = [i \in Items |-> Never]
    /\ sincePublished = Forever
    /\ DeferredPublish = FALSE
    /\ unsent = FALSE
    /\ failed = FALSE
    /\ outcome = "none"

-----------------------------------------------------------------------------

Later(a, d) == IF a = Never THEN Never ELSE IF a + d > Forever THEN Forever ELSE a + d

\* The session is started or stopped, and maybe was before.
AvSessionStateHandler(started) ==
    /\ timerOn' = started
    /\ outcome' = "none"
    /\ UNCHANGED <<sinceRecorded, sincePublished, DeferredPublish, unsent, failed>>

\* Time passes while there is no session.
Wait(d) ==
    /\ ~timerOn
    /\ sinceRecorded' = [i \in Items |-> Later(sinceRecorded[i], d)]
    /\ sincePublished' = Later(sincePublished, d)
    /\ outcome' = "none"
    /\ UNCHANGED <<timerOn, DeferredPublish, unsent, failed>>

\* A publish is due: something was recorded, or an item has waited long enough.
\* Mutant: only readings that are recorded are published.
DueWhenRecorded(recorded, rec, pub) == recorded # {}
Due(recorded, rec, pub) ==
    \/ recorded # {}
    \/ \E i \in Items : rec[i] > MaxIntervalBetweenPublish * Second /\ pub > 0

\* The publish comes too soon: milliseconds are compared with seconds, so two
\* publishes may follow sooner than the comment at avPublisher.c:585-588 says.
\* Mutant: one that was due is too soon as well.
TooSoonAlways(pub) == pub <= Forever
TooSoon(pub) == pub < MinIntervalBetweenPublish

\* Mutant: the publish is forgotten.
DropPublish(rec, pub, recorded) ==
    /\ sinceRecorded' = rec
    /\ sincePublished' = pub
    /\ unsent' = (unsent \/ recorded # {})
    /\ outcome' = "deferred"
    /\ UNCHANGED <<DeferredPublish, failed>>
Defer(rec, pub, recorded) ==
    /\ sinceRecorded' = rec
    /\ sincePublished' = pub
    /\ DeferredPublish' = TRUE
    /\ unsent' = (unsent \/ recorded # {})
    /\ outcome' = "deferred"
    /\ UNCHANGED failed

Stale(rec) == {i \in Items : rec[i] > TimeToStale * Second}

\* Stale items are recorded as well, those that can be, and the record is pushed.
Publish(rec, pub, recorded, refused, pushed) ==
    LET stale == Stale(rec) \ refused IN
    /\ sinceRecorded' = [i \in Items |-> IF i \in stale THEN 0 ELSE rec[i]]
    /\ \/ /\ pushed
          /\ sincePublished' = 0
          /\ DeferredPublish' = FALSE
          /\ unsent' = FALSE
          /\ failed' = FALSE
          /\ outcome' = "pushed"
       \/ /\ ~pushed
          /\ sincePublished' = pub
          /\ unsent' = (unsent \/ recorded # {} \/ stale # {})
          /\ failed' = TRUE
          /\ outcome' = "failed"
          /\ UNCHANGED DeferredPublish

\* Every item is read, and recorded when its reading goes beyond its threshold or
\* it never was, and the record takes it.  The threshold compares two bytes of the
\* readings as if they were Booleans, so it may go either way, and with a record
\* that may refuse an item those recorded can be any.
SampleTimerHandler(d, recorded, refused, pushed) ==
    LET rec == [i \in Items |-> Later(sinceRecorded[i], d)]
        pub == Later(sincePublished, d)
    IN
    /\ timerOn
    /\ IF Due(recorded, rec, pub) \/ DeferredPublish
       THEN IF TooSoon(pub) THEN Defer(rec, pub, recorded)
            ELSE Publish(rec, pub, recorded, refused, pushed)
       ELSE /\ sinceRecorded' = rec
            /\ sincePublished' = pub
            /\ outcome' = "quiet"
            /\ UNCHANGED <<DeferredPublish, unsent, failed>>
    /\ UNCHANGED timerOn

\* The items recorded, those the record refuses in the second pass, and whether
\* the push is accepted are up to the readings and to AirVantage.
Sample ==
    \E d \in Elapsed, recorded, refused \in SUBSET Items, pushed \in BOOLEAN :
        SampleTimerHandler(d, recorded, refused, pushed)

PubNext ==
    \/ \E started \in BOOLEAN : AvSessionStateHandler(started)
    \/ \E d \in Elapsed : Wait(d)
    \/ Sample

\* While the session lasts the timer expires again and again.
PubSpec == PubInit /\ [][PubNext]_pubVars /\ WF_pubVars(Sample)

-----------------------------------------------------------------------------

PubTypeOK ==
    /\ timerOn \in BOOLEAN
    /\ sinceRecorded \in [Items -> 0 .. Never]
    /\ sincePublished \in 0 .. Forever
    /\ DeferredPublish \in BOOLEAN
    /\ unsent \in BOOLEAN
    /\ failed \in BOOLEAN
    /\ outcome \in {"none", "quiet", "deferred", "pushed", "failed"}

\* No expiry of the timer is quiet once the longest interval has passed since the
\* last publish (avPublisher.c:588-589), unless a push has failed meanwhile: the
\* times of the items recorded for it have been set by then.
PublishForced ==
    outcome = "quiet" /\ ~failed => sincePublished <= MaxIntervalBetweenPublish * Second

\* A reading that was recorded is on its way: pushed, or its publish is deferred,
\* or a push has failed.
RecordedIsScheduled == unsent /\ ~failed => DeferredPublish

\* A deferred publish is made or tried, if the session lasts.
DeferredIsPublished == DeferredPublish ~> (outcome \in {"pushed", "failed"} \/ ~timerOn)

=============================================================================
