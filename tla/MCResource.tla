----------------------------- MODULE MCResource -----------------------------
(***************************************************************************)
(* Instances of Resource for TLC: a sensor app's Input, an Observation of  *)
(* it and an actuator app's Output.                                        *)
(***************************************************************************)
EXTENDS Resource

CONSTANTS in, obs, out, C, F

Bool(v) == [t |-> "bool", v |-> v]
Num(v) == [t |-> "num", v |-> v]

InNum == [path |-> in, dir |-> "input", type |-> "num", units |-> C]
InBool == [path |-> in, dir |-> "input", type |-> "bool", units |-> None]
OutNum == [path |-> out, dir |-> "output", type |-> "num", units |-> F]
OutBool == [path |-> out, dir |-> "output", type |-> "bool", units |-> None]

\* Types: one actuator that is declared with either type, by one app or another.
PairDeclarations == {InNum, OutNum, OutBool}
PairPushes == {Num(0), Bool(1)}
PairDefaults == {<<out, Bool(0)>>}
PairOverrides == {<<out, Num(1)>>}
PairRoutes == {<<out, in>>}

\* Routes: a chain and a fan of three resources, and attempts at a loop.
ChainDeclarations == {InBool}
ChainPushes == {Bool(1)}
ChainDefaults == {}
ChainOverrides == {<<obs, Bool(0)>>}
ChainRoutes == {<<obs, in>>, <<out, in>>, <<out, obs>>, <<in, out>>}
=============================================================================
