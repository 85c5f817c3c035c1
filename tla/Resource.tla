------------------------------ MODULE Resource ------------------------------
(***************************************************************************)
(* The data flow of the Data Hub (resource.c): what a push, a default and  *)
(* an override do to the current value of a resource and of everything     *)
(* routed from it, and how a configuration update suspends that.           *)
(*                                                                         *)
(* res_Push() calls itself for every destination of the resource it was    *)
(* called for.  The calls not yet made are the set pending; the daemon is  *)
(* one thread, so nothing else happens until the set is empty.  Resources  *)
(* have one source each, so the order of the calls makes no difference.    *)
(*                                                                         *)
(* Samples are a type and a value, 0 or 1; the two types stand for all     *)
(* that an app can declare and that ioPoint_DoTypeCoercion() converts.     *)
(* Whether an Observation's filter accepts a sample is left open here.     *)
(***************************************************************************)
EXTENDS Naturals, FiniteSets, Routes

CONSTANTS
    Resources,      \* paths of resources
    ObsResources,   \* those of them below /obs
    Declarations,   \* the I/O resources apps declare: [path, dir, type, units]
    Pushes,         \* samples that apps push
    Defaults,       \* <<resource, sample>> pairs that are set as defaults
    Overrides,      \* <<resource, sample>> pairs that are set as overrides
    RoutePairs,     \* <<destination, source>> pairs that are routed
    Units,          \* units of measurement
    None            \* no sample, no units

Types == {"bool", "num"}
NoType == "bool"    \* ioType of a resource that is not an Input or an Output
Samples == [t : Types, v : {0, 1}]
Kinds == {"none", "placeholder", "observation", "input", "output"}
IoKinds == {"input", "output"}

ASSUME ConstantsAssumption ==
    /\ ObsResources \subseteq Resources
    /\ Declarations \subseteq
         [path : Resources \ ObsResources, dir : IoKinds, type : Types, units : Units \cup {None}]
    /\ Pushes \subseteq Samples
    /\ Defaults \subseteq Resources \X Samples
    /\ Overrides \subseteq Resources \X Samples
    /\ RoutePairs \subseteq Resources \X Resources
    /\ NoSource \notin Resources
    /\ None \notin Samples \cup Units

VARIABLES
    kind,       \* entry type, "none" when there is no resource
    ioType,     \* data type declared by the app, of an Input or an Output
    units,      \* units of each resource
    current,    \* current value
    pushed,     \* the last value pushed, before overriding and coercion
    default,    \* default value
    override,   \* override value
    source,     \* source of each resource
    changing,   \* resources whose isConfigChanging flag is set
    updating,   \* IsUpdateInProgress
    pending     \* calls of res_Push() still to be made

vars == <<kind, ioType, units, current, pushed, default, override, source,
          changing, updating, pending>>
settings == <<default, override, source>>

Sample == Samples \cup {None}
Calls == [dest : Resources, from : Resources \cup {NoSource},
          sample : Samples, units : Units \cup {None}]

-----------------------------------------------------------------------------
(* Values *)

\* ioPoint_DoTypeCoercion().
Coerce(s, t) == [s EXCEPT !.t = t]

\* The type tests of IsAcceptable(), given the kind of the resource.
Accepts(k, t, s) == k \in IoKinds => s.t = t
IsAcceptable(r, s) == s # None /\ Accepts(kind[r], ioType[r], s)
IsOverridden(r) == IsAcceptable(r, override[r])

\* UpdateCurrentValue(): the value is stored, then pushed to every destination.
Fanout(src, r, s, u) ==
    {[dest |-> d, from |-> r, sample |-> s, units |-> u] : d \in DestsOf(src, r)}
Show(r, s) ==
    /\ current' = [current EXCEPT ![r] = s]
    /\ pending' = pending \cup Fanout(source, r, s, units[r])

\* Nothing is shown.
Keep == UNCHANGED <<current, pending>>

\* resTree_GetResource() makes a placeholder where there is no resource.
WithResource(r) == [kind EXCEPT ![r] = IF @ = "none" THEN "placeholder" ELSE @]

Idle == pending = {}

HasAdminSettings(r) ==
    \/ source[r] # NoSource
    \/ DestsOf(source, r) # {}
    \/ override[r] # None
    \/ default[r] # None

-----------------------------------------------------------------------------
(* Pushing *)

\* io_Push...() by the app or admin_Push...(): units are not given.
Push(r, s) ==
    /\ Idle
    /\ kind[r] # "none"
    /\ pending' = {[dest |-> r, from |-> NoSource, sample |-> s, units |-> None]}
    /\ UNCHANGED <<kind, ioType, units, current, pushed, settings, changing, updating>>

\* The isConfigChanging flag keeps samples out.
Suspended(r) == r \in changing

\* The units test for Inputs and Outputs: units not given, or a resource without
\* units, match anything.
UnitsAgree(r, u) == u = None \/ units[r] = None \/ u = units[r]

\* One call of res_Push() whose sample is recorded but goes no further: during
\* an update of the resource, or for disagreeing units.
PushRefused(c) ==
    LET r == c.dest
    IN  /\ c \in pending
        /\ \/ Suspended(r)
           \/ kind[r] \in IoKinds /\ ~IsOverridden(r) /\ ~UnitsAgree(r, c.units)
        /\ pushed' = [pushed EXCEPT ![r] = c.sample]
        /\ pending' = pending \ {c}
        /\ UNCHANGED <<kind, ioType, units, current, settings, changing, updating>>

\* An Observation's filter rejects the sample; it is not even recorded.
PushFiltered(c) ==
    /\ c \in pending
    /\ kind[c.dest] = "observation"
    /\ pending' = pending \ {c}
    /\ UNCHANGED <<kind, ioType, units, current, pushed, settings, changing, updating>>

\* The units of Observations and placeholders are those of what is pushed to them.
NewUnits(c) ==
    IF kind[c.dest] \in IoKinds \/ IsOverridden(c.dest) \/ c.units = None
    THEN units[c.dest]
    ELSE c.units

\* An override replaces the sample; what is left is coerced to the declared type.
\* Mutant: the override is forgotten.
ReplacedNever(r, s) == s
Replaced(r, s) == IF IsOverridden(r) THEN override[r] ELSE s
Shown(r, s) == IF kind[r] \in IoKinds THEN Coerce(Replaced(r, s), ioType[r]) ELSE Replaced(r, s)

PushTaken(c) ==
    LET r == c.dest
        s == Shown(r, c.sample)
    IN  /\ c \in pending
        /\ ~Suspended(r)
        /\ kind[r] \in IoKinds => IsOverridden(r) \/ UnitsAgree(r, c.units)
        /\ pushed' = [pushed EXCEPT ![r] = c.sample]
        /\ units' = [units EXCEPT ![r] = NewUnits(c)]
        /\ current' = [current EXCEPT ![r] = s]
        /\ pending' = (pending \ {c}) \cup Fanout(source, r, s, NewUnits(c))
        /\ UNCHANGED <<kind, ioType, settings, changing, updating>>

res_Push(c) == PushRefused(c) \/ PushFiltered(c) \/ PushTaken(c)

-----------------------------------------------------------------------------
(* Apps *)

\* res_MoveAdminSettings() moves a placeholder's current value only if it has the
\* declared type.  Mutant: it is moved as it is.
InheritedAny(r, t) == current[r]
Inherited(r, t) == IF current[r] # None /\ current[r].t = t THEN current[r] ELSE None

\* io_CreateInput(), io_CreateOutput(): a placeholder's settings move as they are.
io_Create(d) ==
    LET r == d.path
    IN  /\ Idle
        /\ kind[r] \in {"none", "placeholder"}
        /\ kind' = [kind EXCEPT ![r] = d.dir]
        /\ ioType' = [ioType EXCEPT ![r] = d.type]
        /\ units' = [units EXCEPT ![r] = d.units]
        /\ current' = [current EXCEPT ![r] = Inherited(r, d.type)]
        /\ UNCHANGED <<pushed, settings, changing, updating, pending>>

\* io_DeleteResource(): everything moves to a placeholder, or goes.
io_Delete(r) ==
    /\ Idle
    /\ kind[r] \in IoKinds
    /\ IF HasAdminSettings(r)
       THEN /\ kind' = [kind EXCEPT ![r] = "placeholder"]
            /\ UNCHANGED <<units, current, pushed, changing>>
       ELSE /\ kind' = [kind EXCEPT ![r] = "none"]
            /\ units' = [units EXCEPT ![r] = None]
            /\ current' = [current EXCEPT ![r] = None]
            /\ pushed' = [pushed EXCEPT ![r] = None]
            /\ changing' = changing \ {r}
    /\ ioType' = [ioType EXCEPT ![r] = NoType]
    /\ UNCHANGED <<settings, updating, pending>>

-----------------------------------------------------------------------------
(* The administrator, and apps setting defaults of their own *)

\* res_SetDefault() does not touch the current value of a resource that is
\* overridden or has been pushed an acceptable value.
SetDefault(r, s) ==
    /\ default' = [default EXCEPT ![r] = s]
    /\ IF IsAcceptable(r, s) /\ ~IsOverridden(r) /\ ~IsAcceptable(r, pushed[r])
       THEN Show(r, s)
       ELSE Keep

admin_SetDefault(r, s) ==
    /\ Idle
    /\ kind' = WithResource(r)
    /\ SetDefault(r, s)
    /\ UNCHANGED <<ioType, units, pushed, override, source, changing, updating>>

\* io_Set...Default(): only the declared type, and only if there is no default.
io_SetDefault(r, s) ==
    /\ Idle
    /\ kind[r] \in IoKinds
    /\ s.t = ioType[r]
    /\ default[r] = None
    /\ SetDefault(r, s)
    /\ UNCHANGED <<kind, ioType, units, pushed, override, source, changing, updating>>

admin_RemoveDefault(r) ==
    /\ Idle
    /\ default[r] # None
    /\ default' = [default EXCEPT ![r] = None]
    /\ UNCHANGED <<kind, ioType, units, current, pushed, override, source,
                   changing, updating, pending>>

admin_SetOverride(r, s) ==
    /\ Idle
    /\ kind' = WithResource(r)
    /\ override' = [override EXCEPT ![r] = s]
    /\ IF IsAcceptable(r, s) THEN Show(r, s) ELSE Keep
    /\ UNCHANGED <<ioType, units, pushed, default, source, changing, updating>>

\* res_RemoveOverride() falls back on the last value pushed, then on the default.
admin_RemoveOverride(r) ==
    /\ Idle
    /\ override[r] # None
    /\ override' = [override EXCEPT ![r] = None]
    /\ IF IsAcceptable(r, pushed[r]) THEN Show(r, pushed[r])
       ELSE IF IsAcceptable(r, default[r]) THEN Show(r, default[r])
       ELSE Keep
    /\ UNCHANGED <<kind, ioType, units, pushed, default, source, changing, updating>>

\* During an update both ends of a new route are marked.
admin_SetSource(dest, src) ==
    /\ Idle
    /\ kind' = [r \in Resources |->
                   IF r \in {dest, src} /\ kind[r] = "none" THEN "placeholder" ELSE kind[r]]
    /\ source' = SetSource(source, dest, src)
    /\ changing' = IF updating /\ source[dest] # src /\ ~IsDuplicate(source, dest, src)
                   THEN changing \cup {dest, src}
                   ELSE changing
    /\ UNCHANGED <<ioType, units, current, pushed, default, override, updating, pending>>

\* The units that Observations and placeholders had from their source go with it.
UnitsWithout(S) ==
    [r \in Resources |->
        IF r \in S /\ kind[r] \in {"observation", "placeholder"} THEN None ELSE units[r]]

admin_RemoveSource(dest) ==
    /\ Idle
    /\ source[dest] # NoSource
    /\ source' = RemoveSource(source, dest)
    /\ units' = UnitsWithout({dest})
    /\ UNCHANGED <<kind, ioType, current, pushed, default, override, changing, updating, pending>>

\* admin_CreateObs(), or the first setter of a filter: a placeholder's settings and
\* values move to the Observation.
admin_CreateObs(r) ==
    /\ Idle
    /\ r \in ObsResources
    /\ kind[r] \in {"none", "placeholder"}
    /\ kind' = [kind EXCEPT ![r] = "observation"]
    /\ UNCHANGED <<ioType, units, current, pushed, settings, changing, updating, pending>>

\* admin_SetMinPeriod(), ...Limit(), ...ChangeBy(), ...Transform().
admin_SetFilter(r) ==
    /\ Idle
    /\ kind[r] = "observation"
    /\ updating
    /\ changing' = changing \cup {r}
    /\ UNCHANGED <<kind, ioType, units, current, pushed, settings, updating, pending>>

\* admin_DeleteObs() of an Observation or of a placeholder below /obs.
admin_DeleteObs(r) ==
    /\ Idle
    /\ r \in ObsResources
    /\ kind[r] # "none"
    /\ kind' = [kind EXCEPT ![r] = "none"]
    /\ units' = [UnitsWithout(DestsOf(source, r)) EXCEPT ![r] = None]
    /\ current' = [current EXCEPT ![r] = None]
    /\ pushed' = [pushed EXCEPT ![r] = None]
    /\ default' = [default EXCEPT ![r] = None]
    /\ override' = [override EXCEPT ![r] = None]
    /\ source' = DropRoutes(source, r)
    /\ changing' = changing \ {r}
    /\ UNCHANGED <<ioType, updating, pending>>

admin_StartUpdate ==
    /\ Idle
    /\ ~updating
    /\ updating' = TRUE
    /\ UNCHANGED <<kind, ioType, units, current, pushed, settings, changing, pending>>

\* res_EndUpdate().  Mutant: resTree_ForEachResource(ClearConfigChangingFlag) is left out.
admin_EndUpdateEarly ==
    /\ Idle
    /\ updating
    /\ updating' = FALSE
    /\ UNCHANGED <<kind, ioType, units, current, pushed, settings, changing, pending>>

admin_EndUpdate ==
    /\ Idle
    /\ updating
    /\ updating' = FALSE
    /\ changing' = {}
    /\ UNCHANGED <<kind, ioType, units, current, pushed, settings, pending>>

-----------------------------------------------------------------------------

Init ==
    /\ kind = [r \in Resources |-> "none"]
    /\ ioType = [r \in Resources |-> NoType]
    /\ units = [r \in Resources |-> None]
    /\ current = [r \in Resources |-> None]
    /\ pushed = [r \in Resources |-> None]
    /\ default = [r \in Resources |-> None]
    /\ override = [r \in Resources |-> None]
    /\ source = [r \in Resources |-> NoSource]
    /\ changing = {}
    /\ updating = FALSE
    /\ pending = {}

Flow == \E c \in pending : res_Push(c)

Next ==
    \/ Flow
    \/ \E r \in Resources, s \in Pushes : Push(r, s)
    \/ \E d \in Declarations : io_Create(d)
    \/ \E r \in Resources :
        \/ io_Delete(r)
        \/ admin_RemoveDefault(r) \/ admin_RemoveOverride(r) \/ admin_RemoveSource(r)
        \/ admin_CreateObs(r) \/ admin_SetFilter(r) \/ admin_DeleteObs(r)
    \/ \E p \in Defaults : admin_SetDefault(p[1], p[2]) \/ io_SetDefault(p[1], p[2])
    \/ \E p \in Overrides : admin_SetOverride(p[1], p[2])
    \/ \E p \in RoutePairs : admin_SetSource(p[1], p[2])
    \/ admin_StartUpdate \/ admin_EndUpdate

\* The recursion goes on: the calls of res_Push() are made.
Spec == Init /\ [][Next]_vars /\ WF_vars(Flow)

-----------------------------------------------------------------------------
(* What the data flow promises *)

TypeOK ==
    /\ kind \in [Resources -> Kinds]
    /\ ioType \in [Resources -> Types]
    /\ units \in [Resources -> Units \cup {None}]
    /\ current \in [Resources -> Sample]
    /\ pushed \in [Resources -> Sample]
    /\ default \in [Resources -> Sample]
    /\ override \in [Resources -> Sample]
    /\ source \in [Resources -> Resources \cup {NoSource}]
    /\ changing \subseteq Resources
    /\ updating \in BOOLEAN
    /\ pending \subseteq Calls

\* An app only ever gets values of the type it declared: through routes from
\* resources of other types, defaults and overrides of other types, and when it
\* takes over a placeholder that has a value already.
TypesMatch ==
    \A r \in Resources :
        kind[r] \in IoKinds /\ current[r] # None => current[r].t = ioType[r]

\* While an override is in effect neither a push nor a default nor a value that came with
\* a placeholder gets past it, with one exception: an Input or Output that goes while its
\* override has another type than its own leaves its value to the placeholder.  There the
\* override is in effect (res_IsOverridden()) and the old value is shown beside it, until
\* the next push.
OverrideHolds ==
    \A r \in Resources :
        IsOverridden(r) /\ current[r] \notin {None, override[r]}
        => /\ kind[r] \notin IoKinds \cup {"observation"}
           /\ r \notin ObsResources
           /\ current[r].t # override[r].t

\* No resource stays blocked once the update is over, whichever resources were
\* deleted, created or replaced while it went on.
FlagsCleared == ~updating => changing = {}

\* The calls outstanding have nothing to do with each other, whatever was routed
\* before: the order of a destList never decides which value a resource ends with.
CallsIndependent ==
    \A c, d \in pending :
        c # d => c.dest # d.dest /\ c.dest \notin Downstream(source, d.dest)

\* A push comes to an end: the recursion visits no resource for ever.
PushesEnd == ~Idle ~> Idle

=============================================================================
