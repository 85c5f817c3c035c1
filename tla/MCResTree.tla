----------------------------- MODULE MCResTree ------------------------------
(***************************************************************************)
(* Instances of ResTree for TLC.  In the flat tree every resource is a     *)
(* leaf, as admin.api describes it.  In the nested one an app creates a    *)
(* resource below another and one with an empty path, in the place of its  *)
(* own namespace, an Observation is nested below another, and the          *)
(* administrator names the root.                                           *)
(***************************************************************************)
EXTENDS ResTree

App == <<"app", "a">>
Temp == <<"app", "a", "temp">>
Fan == <<"app", "b", "fan">>
Obs == <<"obs">>
Avg == <<"obs", "avg">>

FlatIo == {Temp, Fan}
FlatObs == {Avg}
FlatAdmin == {}
FlatRoutes == {<<Avg, Temp>>, <<Fan, Avg>>, <<Temp, Fan>>, <<Avg, Fan>>}

NestedIo == {App, Temp}
NestedObs == {Obs, Avg}
NestedAdmin == {Root}
NestedRoutes == {<<Avg, Temp>>}

=============================================================================
