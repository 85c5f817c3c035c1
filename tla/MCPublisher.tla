---------------------------- MODULE MCPublisher ----------------------------
(* An instance of Publisher for TLC: two items, a second of three            *)
(* milliseconds, and a timer that is on time, or late and then early.         *)
EXTENDS Publisher

CONSTANTS pm1, pm25

TwoItems == {pm1, pm25}
EarlyAndLate == {1, 3, 5}
=============================================================================
