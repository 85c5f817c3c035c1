-------------------------- MODULE MCPeriodicSensor --------------------------
(* An instance of PeriodicSensor for TLC: two good periods, two bad ones and NaN. *)
EXTENDS PeriodicSensor

CONSTANT tooLarge

ShortAndLong == {1, 5}
ZeroAndTooLarge == {0, tooLarge}
=============================================================================
