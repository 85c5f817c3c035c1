--------------------------- MODULE MCObservation ---------------------------
(* An instance of Observation for TLC: samples of two types beside triggers, *)
(* of which one can be older than another, and two backup periods.           *)
EXTENDS Observation

CONSTANTS trigger, boolean, numeric

TwoTypes == {trigger, boolean, numeric}
TwoStamps == {0, 1}
TwoPeriods == {1, 2}
=============================================================================
