------------------------------ MODULE MCFilter ------------------------------
(***************************************************************************)
(* An instance of Filter for TLC: two numbers, a NaN and a Boolean; two    *)
(* limits that exclude the second number and what is between them when     *)
(* both are set; a change that is just the distance of the two.            *)
(***************************************************************************)
EXTENDS Filter

Num(v) == [v |-> v, t |-> "numeric"]
Bool(v) == [v |-> v, t |-> "boolean"]

PushedSamples == {Num(0), Num(2), Num(Nan), Bool(2)}
OneLow == {3}
OneHigh == {1}
OneChange == {2}
OnePeriod == {2}
ThreeTransforms == {"none", "mean", "max"}
NoneOrTwo == {0, 2}
OneOverride == {Num(4)}
OneDefault == {Num(0)}

\* Bounds: settings that are in use at a time; either samples are buffered or time matters.
Settings == Cardinality({s \in {1, 2, 3, 4} : <<lowLimit, highLimit, changeBy, minPeriod>>[s] # Off})
          + (IF transform = "none" THEN 0 ELSE 1) + (IF maxCount > 0 THEN 1 ELSE 0)
          + (IF override = None THEN 0 ELSE 1) + (IF default = None THEN 0 ELSE 1)
Bounded ==
    /\ Settings <= 2
    /\ maxCount > 0 => elapsed = 0 /\ sinceShown \in {0, Forever} /\ slack = Forever
=============================================================================
