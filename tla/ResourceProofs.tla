--------------------------- MODULE ResourceProofs ---------------------------
(***************************************************************************)
(* What is true of the values of resources whatever apps declare, push,    *)
(* route and delete: the type that was declared, the override that is in   *)
(* effect, the flags of an update, and the calls a push leads to.          *)
(***************************************************************************)
EXTENDS Resource, RoutesProofs

\* An override that could be shown next to the value that is shown: in a
\* placeholder the type that will be declared decides later, and an Observation
\* takes any type.
OverrideCovers ==
    \A r \in Resources :
        /\ override[r] # None /\ current[r] # None
        /\ r \in ObsResources \/ current[r].t = override[r].t
        => current[r] = override[r]

\* Inputs and Outputs are never below /obs, Observations always.
KindsApart ==
    \A r \in Resources :
        /\ kind[r] \in IoKinds => r \notin ObsResources
        /\ kind[r] = "observation" => r \in ObsResources

FlowInv == TypeOK /\ KindsApart /\ TypesMatch /\ OverrideCovers

-----------------------------------------------------------------------------
(* Lemmas about values and calls.                                          *)

LEMMA CoerceFacts ==
    ASSUME NEW s \in Samples, NEW t \in Types
    PROVE  Coerce(s, t) \in Samples /\ Coerce(s, t).t = t
BY DEF Coerce, Samples

LEMMA NoneIsNoSample == None \notin Samples /\ None \notin Units
BY ConstantsAssumption

\* What a push shows is of the declared type, and the override if there is one.
LEMMA ShownFacts ==
    ASSUME FlowInv, NEW r \in Resources, NEW s \in Samples
    PROVE  /\ Shown(r, s) \in Samples
           /\ kind[r] \in IoKinds => Shown(r, s).t = ioType[r]
           /\ override[r] # None /\ (r \in ObsResources \/ Shown(r, s).t = override[r].t)
                 => Shown(r, s) = override[r]
<1>1. override[r] \in Samples \cup {None} /\ ioType[r] \in Types
  BY DEF FlowInv, TypeOK, Sample
<1>2. Replaced(r, s) \in Samples
  BY <1>1 DEF Replaced, IsOverridden, IsAcceptable
<1>3. CASE kind[r] \in IoKinds
  <2>1. /\ Shown(r, s) = Coerce(Replaced(r, s), ioType[r])
        /\ Shown(r, s) \in Samples /\ Shown(r, s).t = ioType[r]
    BY <1>1, <1>2, <1>3, CoerceFacts DEF Shown
  <2>2. r \notin ObsResources
    BY <1>3 DEF FlowInv, KindsApart
  <2>3. ASSUME override[r] # None, ioType[r] = override[r].t PROVE Shown(r, s) = override[r]
    <3>1. Replaced(r, s) = override[r]
      BY <1>3, <2>3 DEF Replaced, IsOverridden, IsAcceptable, Accepts
    <3>2. override[r] \in Samples
      BY <1>1, <2>3
    <3> QED BY <2>1, <2>3, <3>1, <3>2 DEF Coerce, Samples
  <2> QED BY <1>3, <2>1, <2>2, <2>3
<1>4. CASE kind[r] \notin IoKinds
  <2>1. Shown(r, s) = Replaced(r, s)
    BY <1>4 DEF Shown
  <2>2. override[r] # None => Replaced(r, s) = override[r]
    BY <1>4 DEF Replaced, IsOverridden, IsAcceptable, Accepts
  <2> QED BY <1>2, <1>4, <2>1, <2>2
<1> QED BY <1>3, <1>4

\* The calls that UpdateCurrentValue() leads to.
LEMMA FanoutCalls ==
    ASSUME NEW src \in [Resources -> Resources \cup {NoSource}], NEW r \in Resources,
           NEW s \in Samples, NEW u \in Units \cup {None}
    PROVE  Fanout(src, r, s, u) \subseteq Calls
BY DEF Fanout, Calls, DestsOf

-----------------------------------------------------------------------------
(* Types.                                                                  *)

LEMMA InitFlow == Init => FlowInv
BY NoneIsNoSample DEF Init, FlowInv, TypeOK, KindsApart, TypesMatch, OverrideCovers, Kinds, IoKinds, Types,
   NoType, Sample

LEMMA SetSourceType ==
    ASSUME NEW src \in [Resources -> Resources \cup {NoSource}],
           NEW dest \in Resources, NEW s \in Resources
    PROVE  SetSource(src, dest, s) \in [Resources -> Resources \cup {NoSource}]
BY DEF SetSource, RemoveSource


LEMMA ShowType ==
    ASSUME TypeOK, NEW r \in Resources, NEW s \in Samples, Show(r, s) \/ Keep
    PROVE  current' \in [Resources -> Sample] /\ pending' \subseteq Calls
<1>1. CASE Keep
  BY <1>1 DEF Keep, TypeOK
<1>2. CASE Show(r, s)
  <2>1. Fanout(source, r, s, units[r]) \subseteq Calls
    BY FanoutCalls DEF TypeOK
  <2>2. s \in Sample
    BY DEF Sample
  <2> QED BY <1>2, <2>1, <2>2 DEF Show, TypeOK
<1> QED BY <1>1, <1>2

\* All that has to be looked at when one resource changes.
LEMMA OneResource ==
    ASSUME FlowInv, TypeOK', NEW r \in Resources,
           \A x \in Resources : x # r =>
               /\ kind'[x] = kind[x] /\ ioType'[x] = ioType[x]
               /\ current'[x] = current[x] /\ override'[x] = override[x],
           kind'[r] \in IoKinds => r \notin ObsResources,
           kind'[r] = "observation" => r \in ObsResources,
           kind'[r] \in IoKinds /\ current'[r] # None => current'[r].t = ioType'[r],
           /\ override'[r] # None /\ current'[r] # None
           /\ r \in ObsResources \/ current'[r].t = override'[r].t
           => current'[r] = override'[r]
    PROVE  FlowInv'
<1>1. KindsApart'
  BY DEF FlowInv, KindsApart
<1>2. TypesMatch'
  BY DEF FlowInv, TypesMatch
<1>3. OverrideCovers'
  BY DEF FlowInv, OverrideCovers
<1> QED BY <1>1, <1>2, <1>3 DEF FlowInv

\* Nothing to look at when no value and no declaration changes.
LEMMA NoResource ==
    ASSUME FlowInv, TypeOK', UNCHANGED <<ioType, current, override>>,
           \A x \in Resources : kind'[x] = kind[x] \/ kind'[x] = "placeholder"
    PROVE  FlowInv'
<1>1. \A x \in Resources : /\ kind'[x] \in IoKinds => kind[x] \in IoKinds
                           /\ kind'[x] = "observation" => kind[x] = "observation"
  BY DEF IoKinds
<1>2. KindsApart'
  BY <1>1 DEF FlowInv, KindsApart
<1>3. TypesMatch'
  BY <1>1 DEF FlowInv, TypesMatch
<1>4. OverrideCovers'
  BY DEF FlowInv, OverrideCovers
<1> QED BY <1>2, <1>3, <1>4 DEF FlowInv

-----------------------------------------------------------------------------
(* One lemma for each group of actions.                                    *)

LEMMA PushKeeps ==
    ASSUME FlowInv, NEW c, res_Push(c)
    PROVE  FlowInv'
<1> DEFINE r == c.dest
           s == Shown(r, c.sample)
<1>1. c \in pending
  BY DEF res_Push, PushRefused, PushFiltered, PushTaken
<1>2. c \in Calls
  BY <1>1 DEF FlowInv, TypeOK
<1>3. r \in Resources /\ c.sample \in Samples /\ c.units \in Units \cup {None}
  BY <1>2 DEF Calls
<1>4. CASE PushRefused(c)
  <2>1. TypeOK'
    BY <1>3, <1>4 DEF PushRefused, FlowInv, TypeOK, settings, Sample
  <2> QED BY <2>1, <1>4, NoResource DEF PushRefused, settings
<1>5. CASE PushFiltered(c)
  <2>1. TypeOK'
    BY <1>5 DEF PushFiltered, FlowInv, TypeOK, settings
  <2> QED BY <2>1, <1>5, NoResource DEF PushFiltered, settings
<1>6. CASE PushTaken(c)
  <2>1. s \in Samples /\ s # None
    BY <1>3, ShownFacts, NoneIsNoSample
  <2>2. NewUnits(c) \in Units \cup {None}
    BY <1>3 DEF NewUnits, FlowInv, TypeOK
  <2>3. Fanout(source, r, s, NewUnits(c)) \subseteq Calls
    BY <1>3, <2>1, <2>2, FanoutCalls DEF FlowInv, TypeOK
  <2>4. /\ pushed' = [pushed EXCEPT ![r] = c.sample]
        /\ units' = [units EXCEPT ![r] = NewUnits(c)]
        /\ current' = [current EXCEPT ![r] = s]
        /\ pending' = (pending \ {c}) \cup Fanout(source, r, s, NewUnits(c))
        /\ UNCHANGED <<kind, ioType, settings, changing, updating>>
    BY <1>6 DEF PushTaken
  <2>5. TypeOK'
    <3> HIDE DEF r, s
    <3> QED BY <1>3, <2>1, <2>2, <2>3, <2>4 DEF FlowInv, TypeOK, settings, Sample
  <2>6. /\ kind[r] \in IoKinds => s.t = ioType[r] /\ r \notin ObsResources
        /\ kind[r] = "observation" => r \in ObsResources
        /\ override[r] # None /\ (r \in ObsResources \/ s.t = override[r].t) => s = override[r]
    BY <1>3, ShownFacts DEF FlowInv, KindsApart
  <2>7. current'[r] = s /\ \A x \in Resources : x # r => current'[x] = current[x]
    BY <1>3, <2>4 DEF FlowInv, TypeOK
  <2> HIDE DEF r, s
  <2> QED BY <1>3, <2>4, <2>5, <2>6, <2>7, OneResource DEF settings
<1> QED BY <1>4, <1>5, <1>6 DEF res_Push

LEMMA AppKeeps ==
    ASSUME FlowInv
    PROVE  /\ \A d \in Declarations : io_Create(d) => FlowInv'
           /\ \A r \in Resources : io_Delete(r) => FlowInv'
<1>1. ASSUME NEW d \in Declarations, io_Create(d)
      PROVE  FlowInv'
  <2> DEFINE r == d.path
  <2>1. /\ r \in Resources /\ r \notin ObsResources /\ d.dir \in IoKinds /\ d.type \in Types
        /\ d.units \in Units \cup {None}
    BY ConstantsAssumption
  <2>2. Inherited(r, d.type) \in Sample
    BY <2>1 DEF Inherited, FlowInv, TypeOK, Sample
  <2>3. /\ kind' = [kind EXCEPT ![r] = d.dir] /\ ioType' = [ioType EXCEPT ![r] = d.type]
        /\ units' = [units EXCEPT ![r] = d.units]
        /\ current' = [current EXCEPT ![r] = Inherited(r, d.type)]
        /\ UNCHANGED <<pushed, settings, changing, updating, pending>>
    BY <1>1 DEF io_Create
  <2>4. IoKinds \subseteq Kinds /\ "observation" \notin IoKinds
    BY DEF IoKinds, Kinds
  <2> HIDE DEF r
  <2>5. TypeOK'
    BY <2>1, <2>2, <2>3, <2>4 DEF FlowInv, TypeOK, settings
  <2>6. /\ kind'[r] = d.dir /\ ioType'[r] = d.type /\ current'[r] = Inherited(r, d.type)
        /\ \A x \in Resources : x # r =>
               kind'[x] = kind[x] /\ ioType'[x] = ioType[x] /\ current'[x] = current[x]
    BY <2>1, <2>3 DEF FlowInv, TypeOK
  <2>7. current'[r] # None => current'[r] = current[r] /\ current[r].t = d.type
    BY <2>6 DEF Inherited
  <2>8. override' = override
    BY <2>3 DEF settings
  <2>9. /\ override'[r] # None /\ current'[r] # None
        /\ r \in ObsResources \/ current'[r].t = override'[r].t
        => current'[r] = override'[r]
    BY <2>1, <2>7, <2>8 DEF FlowInv, OverrideCovers
  <2> QED BY <2>1, <2>4, <2>5, <2>6, <2>7, <2>8, <2>9, OneResource
<1>2. ASSUME NEW r \in Resources, io_Delete(r)
      PROVE  FlowInv'
  <2>1. /\ kind' = [kind EXCEPT ![r] = kind'[r]] /\ kind'[r] \in {"placeholder", "none"}
        /\ ioType' = [ioType EXCEPT ![r] = NoType] /\ override' = override
        /\ current' = current \/ current' = [current EXCEPT ![r] = None]
    BY <1>2 DEF io_Delete, FlowInv, TypeOK, settings
  <2>2. TypeOK'
    BY <1>2 DEF io_Delete, FlowInv, TypeOK, settings, Kinds, Types, NoType, Sample
  <2>3. /\ kind'[r] \notin IoKinds /\ kind'[r] # "observation"
        /\ \A x \in Resources : x # r =>
               kind'[x] = kind[x] /\ ioType'[x] = ioType[x] /\ current'[x] = current[x]
        /\ current'[r] \in {current[r], None}
    BY <2>1 DEF FlowInv, TypeOK, IoKinds
  <2>4. /\ override'[r] # None /\ current'[r] # None
        /\ r \in ObsResources \/ current'[r].t = override'[r].t
        => current'[r] = override'[r]
    BY <2>1, <2>3 DEF FlowInv, OverrideCovers
  <2> QED BY <2>1, <2>2, <2>3, <2>4, OneResource
<1> QED BY <1>1, <1>2

LEMMA WithResourceFacts ==
    ASSUME FlowInv, NEW r \in Resources
    PROVE  /\ WithResource(r) \in [Resources -> Kinds]
           /\ \A x \in Resources : x # r => WithResource(r)[x] = kind[x]
           /\ WithResource(r)[r] \in IoKinds <=> kind[r] \in IoKinds
           /\ WithResource(r)[r] = "observation" <=> kind[r] = "observation"
BY DEF FlowInv, TypeOK, WithResource, Kinds, IoKinds

\* A default is shown only where no override is in effect.
LEMMA SetDefaultKeeps ==
    ASSUME FlowInv, NEW r \in Resources, NEW s \in Samples, SetDefault(r, s),
           kind' = kind \/ kind' = WithResource(r),
           UNCHANGED <<ioType, units, pushed, override, source, changing, updating>>
    PROVE  FlowInv'
<1>1. /\ kind' \in [Resources -> Kinds]
      /\ \A x \in Resources : x # r => kind'[x] = kind[x]
      /\ kind'[r] \in IoKinds <=> kind[r] \in IoKinds
      /\ kind'[r] = "observation" <=> kind[r] = "observation"
  BY WithResourceFacts DEF FlowInv, TypeOK
<1>2. Show(r, s) \/ Keep
  BY DEF SetDefault
<1>3. current' \in [Resources -> Sample] /\ pending' \subseteq Calls
  BY <1>2, ShowType DEF FlowInv
<1>4. default' \in [Resources -> Sample]
  BY DEF SetDefault, FlowInv, TypeOK, Sample
<1>5. TypeOK'
  BY <1>1, <1>3, <1>4 DEF FlowInv, TypeOK
<1>6. CASE Keep
  BY <1>1, <1>5, <1>6, OneResource DEF Keep, FlowInv, KindsApart, TypesMatch, OverrideCovers
<1>7. CASE ~Keep
  <2>1. IsAcceptable(r, s) /\ ~IsOverridden(r) /\ Show(r, s)
    BY <1>7 DEF SetDefault
  <2>2. current'[r] = s /\ \A x \in Resources : x # r => current'[x] = current[x]
    BY <2>1 DEF Show, FlowInv, TypeOK
  <2>3. kind[r] \in IoKinds => s.t = ioType[r] /\ r \notin ObsResources
    BY <2>1 DEF IsAcceptable, Accepts, FlowInv, KindsApart
  <2>4. override[r] # None => kind[r] \in IoKinds /\ override[r].t # ioType[r]
    BY <2>1 DEF IsOverridden, IsAcceptable, Accepts
  <2>5. kind[r] = "observation" => r \in ObsResources
    BY DEF FlowInv, KindsApart
  <2> QED BY <1>1, <1>5, <2>2, <2>3, <2>4, <2>5, OneResource
<1> QED BY <1>6, <1>7

LEMMA SetOverrideKeeps ==
    ASSUME FlowInv, NEW r \in Resources, NEW s \in Samples, admin_SetOverride(r, s)
    PROVE  FlowInv'
<1>1. /\ kind' \in [Resources -> Kinds]
      /\ \A x \in Resources : x # r => kind'[x] = kind[x]
      /\ kind'[r] \in IoKinds <=> kind[r] \in IoKinds
      /\ kind'[r] = "observation" <=> kind[r] = "observation"
  BY WithResourceFacts DEF admin_SetOverride
<1>2. /\ override' = [override EXCEPT ![r] = s]
      /\ UNCHANGED <<ioType, units, pushed, default, source, changing, updating>>
      /\ IF IsAcceptable(r, s) THEN Show(r, s) ELSE Keep
  BY DEF admin_SetOverride
<1>3. current' \in [Resources -> Sample] /\ pending' \subseteq Calls
  BY <1>2, ShowType DEF FlowInv
<1>4. /\ override' \in [Resources -> Sample] /\ override'[r] = s
      /\ \A x \in Resources : x # r => override'[x] = override[x]
  BY <1>2 DEF FlowInv, TypeOK, Sample
<1>5. TypeOK'
  BY <1>1, <1>2, <1>3, <1>4 DEF FlowInv, TypeOK
<1>6. /\ kind[r] \in IoKinds => r \notin ObsResources
      /\ kind[r] = "observation" => r \in ObsResources
      /\ kind[r] \in IoKinds /\ current[r] # None => current[r].t = ioType[r]
  BY DEF FlowInv, KindsApart, TypesMatch
<1>7. CASE IsAcceptable(r, s)
  <2>1. current'[r] = s /\ \A x \in Resources : x # r => current'[x] = current[x]
    BY <1>2, <1>7 DEF Show, FlowInv, TypeOK
  <2>2. kind[r] \in IoKinds => s.t = ioType[r]
    BY <1>7 DEF IsAcceptable, Accepts
  <2> QED BY <1>1, <1>2, <1>4, <1>5, <1>6, <2>1, <2>2, OneResource
<1>8. CASE ~IsAcceptable(r, s)
  <2>1. current' = current
    BY <1>2, <1>8 DEF Keep
  <2>2. kind[r] \in IoKinds /\ s.t # ioType[r]
    BY <1>8, NoneIsNoSample DEF IsAcceptable, Accepts
  <2>3. current[r] # None => current[r].t # s.t /\ r \notin ObsResources
    BY <1>6, <2>2
  <2> QED BY <1>1, <1>2, <1>4, <1>5, <1>6, <2>1, <2>3, OneResource
<1> QED BY <1>7, <1>8

\* What is fallen back on has the declared type.
LEMMA RemoveOverrideKeeps ==
    ASSUME FlowInv, NEW r \in Resources, admin_RemoveOverride(r)
    PROVE  FlowInv'
<1>1. /\ override' = [override EXCEPT ![r] = None]
      /\ UNCHANGED <<kind, ioType, units, pushed, default, source, changing, updating>>
  BY DEF admin_RemoveOverride
<1>2. PICK s \in {pushed[r], default[r]} : Keep \/ (IsAcceptable(r, s) /\ Show(r, s))
  <2>1. \/ IsAcceptable(r, pushed[r]) /\ Show(r, pushed[r])
        \/ IsAcceptable(r, default[r]) /\ Show(r, default[r])
        \/ Keep
    BY DEF admin_RemoveOverride
  <2> QED BY <2>1
<1>3. Keep \/ s \in Samples
  BY <1>2 DEF IsAcceptable, FlowInv, TypeOK, Sample
<1>4. current' \in [Resources -> Sample] /\ pending' \subseteq Calls
  BY <1>2, <1>3, ShowType DEF FlowInv, TypeOK, Keep
<1>5. /\ override' \in [Resources -> Sample] /\ override'[r] = None
      /\ \A x \in Resources : x # r => override'[x] = override[x]
  BY <1>1 DEF FlowInv, TypeOK, Sample
<1>6. TypeOK'
  BY <1>1, <1>4, <1>5 DEF FlowInv, TypeOK
<1>7. /\ kind[r] \in IoKinds => r \notin ObsResources
      /\ kind[r] = "observation" => r \in ObsResources
      /\ kind[r] \in IoKinds /\ current[r] # None => current[r].t = ioType[r]
  BY DEF FlowInv, KindsApart, TypesMatch
<1>8. /\ \A x \in Resources : x # r => current'[x] = current[x]
      /\ kind[r] \in IoKinds /\ current'[r] # None => current'[r].t = ioType[r]
  BY <1>2, <1>7 DEF Show, Keep, IsAcceptable, Accepts, FlowInv, TypeOK
<1> QED BY <1>1, <1>5, <1>6, <1>7, <1>8, OneResource

-----------------------------------------------------------------------------
(* Routes, Observations and updates.                                       *)

LEMMA DropRoutesType ==
    ASSUME NEW src \in [Resources -> Resources \cup {NoSource}], NEW r \in Resources
    PROVE  DropRoutes(src, r) \in [Resources -> Resources \cup {NoSource}]
BY DEF DropRoutes

LEMMA UnitsWithoutType ==
    ASSUME TypeOK, NEW S
    PROVE  UnitsWithout(S) \in [Resources -> Units \cup {None}]
BY DEF TypeOK, UnitsWithout

LEMMA RouteKeeps ==
    ASSUME FlowInv
    PROVE  /\ \A p \in RoutePairs : admin_SetSource(p[1], p[2]) => FlowInv'
           /\ \A r \in Resources : admin_RemoveSource(r) => FlowInv'
<1>1. ASSUME NEW p \in RoutePairs, admin_SetSource(p[1], p[2])
      PROVE  FlowInv'
  <2>1. p[1] \in Resources /\ p[2] \in Resources
    BY ConstantsAssumption
  <2>2. source' \in [Resources -> Resources \cup {NoSource}]
    BY <1>1, <2>1, SetSourceType DEF admin_SetSource, FlowInv, TypeOK
  <2>3. TypeOK'
    BY <1>1, <2>1, <2>2 DEF admin_SetSource, FlowInv, TypeOK, Kinds
  <2>4. \A x \in Resources : kind'[x] = kind[x] \/ kind'[x] = "placeholder"
    BY <1>1 DEF admin_SetSource
  <2> QED BY <1>1, <2>3, <2>4, NoResource DEF admin_SetSource
<1>2. ASSUME NEW r \in Resources, admin_RemoveSource(r)
      PROVE  FlowInv'
  <2>1. source' \in [Resources -> Resources \cup {NoSource}]
    BY <1>2 DEF admin_RemoveSource, RemoveSource, FlowInv, TypeOK
  <2>2. TypeOK'
    BY <1>2, <2>1, UnitsWithoutType DEF admin_RemoveSource, FlowInv, TypeOK
  <2> QED BY <1>2, <2>2, NoResource DEF admin_RemoveSource
<1> QED BY <1>1, <1>2

LEMMA ObsKeeps ==
    ASSUME FlowInv, NEW r \in Resources
    PROVE  /\ admin_CreateObs(r) => FlowInv'
           /\ admin_DeleteObs(r) => FlowInv'
<1>1. ASSUME admin_CreateObs(r)
      PROVE  FlowInv'
  <2>1. /\ r \in ObsResources /\ kind' = [kind EXCEPT ![r] = "observation"]
        /\ UNCHANGED <<ioType, units, current, pushed, settings, changing, updating, pending>>
    BY <1>1 DEF admin_CreateObs
  <2>2. TypeOK'
    BY <2>1 DEF FlowInv, TypeOK, settings, Kinds
  <2>3. kind'[r] = "observation" /\ \A x \in Resources : x # r => kind'[x] = kind[x]
    BY <2>1 DEF FlowInv, TypeOK
  <2> QED BY <2>1, <2>2, <2>3, OneResource DEF settings, IoKinds, FlowInv, OverrideCovers
<1>2. ASSUME admin_DeleteObs(r)
      PROVE  FlowInv'
  <2>1. /\ kind' = [kind EXCEPT ![r] = "none"]
        /\ current' = [current EXCEPT ![r] = None]
        /\ override' = [override EXCEPT ![r] = None]
        /\ ioType' = ioType
    BY <1>2 DEF admin_DeleteObs
  <2>2. source' \in [Resources -> Resources \cup {NoSource}]
    BY <1>2, DropRoutesType DEF admin_DeleteObs, FlowInv, TypeOK
  <2>3. units' \in [Resources -> Units \cup {None}]
    BY <1>2, UnitsWithoutType DEF admin_DeleteObs, FlowInv
  <2>4. TypeOK'
    BY <1>2, <2>2, <2>3 DEF admin_DeleteObs, FlowInv, TypeOK, Kinds, Sample
  <2>5. /\ kind'[r] = "none" /\ current'[r] = None
        /\ \A x \in Resources : x # r =>
               kind'[x] = kind[x] /\ current'[x] = current[x] /\ override'[x] = override[x]
    BY <2>1 DEF FlowInv, TypeOK
  <2> QED BY <2>1, <2>4, <2>5, OneResource DEF IoKinds
<1> QED BY <1>1, <1>2

\* The actions that change neither a value nor a kind.
LEMMA OtherKeeps ==
    ASSUME FlowInv,
           \/ \E r \in Resources, s \in Pushes : Push(r, s)
           \/ \E r \in Resources : admin_RemoveDefault(r) \/ admin_SetFilter(r)
           \/ admin_StartUpdate \/ admin_EndUpdate
           \/ UNCHANGED vars
    PROVE  FlowInv'
<1>1. ASSUME NEW r \in Resources, NEW s \in Pushes, Push(r, s)
      PROVE  TypeOK'
  <2>1. [dest |-> r, from |-> NoSource, sample |-> s, units |-> None] \in Calls
    BY ConstantsAssumption DEF Calls
  <2> QED BY <1>1, <2>1 DEF Push, FlowInv, TypeOK, settings
<1>2. ASSUME NEW r \in Resources, admin_RemoveDefault(r) \/ admin_SetFilter(r)
      PROVE  TypeOK'
  BY <1>2 DEF admin_RemoveDefault, admin_SetFilter, FlowInv, TypeOK, settings, Sample
<1>3. ASSUME admin_StartUpdate \/ admin_EndUpdate \/ UNCHANGED vars
      PROVE  TypeOK'
  BY <1>3 DEF admin_StartUpdate, admin_EndUpdate, FlowInv, TypeOK, settings, vars
<1>4. TypeOK'
  BY <1>1, <1>2, <1>3
<1>5. UNCHANGED <<kind, ioType, current, override>>
  BY DEF Push, admin_RemoveDefault, admin_SetFilter, admin_StartUpdate, admin_EndUpdate,
         settings, vars
<1> QED BY <1>4, <1>5, NoResource

LEMMA NextFlow == FlowInv /\ [Next]_vars => FlowInv'
<1> SUFFICES ASSUME FlowInv, [Next]_vars PROVE FlowInv'
  OBVIOUS
<1>1. CASE Flow
  BY <1>1, PushKeeps DEF Flow
<1>2. CASE \E d \in Declarations : io_Create(d)
  BY <1>2, AppKeeps
<1>3. ASSUME NEW r \in Resources, io_Delete(r) PROVE FlowInv'
  BY <1>3, AppKeeps
<1>4. ASSUME NEW r \in Resources, admin_RemoveOverride(r) PROVE FlowInv'
  BY <1>4, RemoveOverrideKeeps
<1>5. ASSUME NEW r \in Resources, admin_RemoveSource(r) PROVE FlowInv'
  BY <1>5, RouteKeeps
<1>6. ASSUME NEW r \in Resources, admin_CreateObs(r) \/ admin_DeleteObs(r) PROVE FlowInv'
  BY <1>6, ObsKeeps
<1>7. ASSUME NEW p \in Defaults, admin_SetDefault(p[1], p[2]) \/ io_SetDefault(p[1], p[2])
      PROVE  FlowInv'
  <2>1. p[1] \in Resources /\ p[2] \in Samples
    BY ConstantsAssumption
  <2> QED BY <1>7, <2>1, SetDefaultKeeps DEF admin_SetDefault, io_SetDefault
<1>8. ASSUME NEW p \in Overrides, admin_SetOverride(p[1], p[2])
      PROVE  FlowInv'
  <2>1. p[1] \in Resources /\ p[2] \in Samples
    BY ConstantsAssumption
  <2> QED BY <1>8, <2>1, SetOverrideKeeps
<1>9. ASSUME NEW p \in RoutePairs, admin_SetSource(p[1], p[2]) PROVE FlowInv'
  BY <1>9, RouteKeeps
<1>10. ASSUME \/ \E r \in Resources, s \in Pushes : Push(r, s)
              \/ \E r \in Resources : admin_RemoveDefault(r) \/ admin_SetFilter(r)
              \/ admin_StartUpdate \/ admin_EndUpdate
              \/ UNCHANGED vars
       PROVE  FlowInv'
  BY <1>10, OtherKeeps
<1> QED BY <1>1, <1>2, <1>3, <1>4, <1>5, <1>6, <1>7, <1>8, <1>9, <1>10 DEF Next

LEMMA FlowInvariant == Spec => []FlowInv
BY InitFlow, NextFlow, PTL DEF Spec

\* Whatever apps declare, push and delete and the administrator sets, the state
\* of the data flow is well formed: every call of res_Push() still to be made is
\* for a resource of the tree, with a sample and units.
THEOREM FlowTyped == Spec => []TypeOK
<1>1. FlowInv => TypeOK
  BY DEF FlowInv
<1> QED BY <1>1, FlowInvariant, PTL

\* The current value of an Input or an Output has the type its app declared,
\* through routes, defaults and overrides of any type and any taking over of a
\* placeholder by res_MoveAdminSettings().
THEOREM DeclaredTypes == Spec => []TypesMatch
<1>1. FlowInv => TypesMatch
  BY DEF FlowInv
<1> QED BY <1>1, FlowInvariant, PTL

\* UpdateCurrentValue() is never reached with anything but the override while one
\* of an acceptable type is set.  What else is shown beside an override is a value of
\* another type that an Input or Output has left to a placeholder.
THEOREM OverrideInEffect == Spec => []OverrideHolds
<1>1. FlowInv => OverrideHolds
  <2> SUFFICES ASSUME FlowInv, NEW r \in Resources,
                      IsOverridden(r), current[r] \notin {None, override[r]}
               PROVE  /\ kind[r] \notin IoKinds \cup {"observation"}
                      /\ r \notin ObsResources
                      /\ current[r].t # override[r].t
    BY DEF OverrideHolds
  <2>1. override[r] # None /\ (kind[r] \in IoKinds => override[r].t = ioType[r])
    BY DEF IsOverridden, IsAcceptable, Accepts
  <2>2. kind[r] \in IoKinds => current[r].t = ioType[r]
    BY DEF FlowInv, TypesMatch
  <2>3. kind[r] = "observation" => r \in ObsResources
    BY DEF FlowInv, KindsApart
  <2> QED BY <2>1, <2>2, <2>3 DEF FlowInv, OverrideCovers
<1> QED BY <1>1, FlowInvariant, PTL

\* admin_EndUpdate() leaves no resource suspended, and nothing suspends one
\* outside an update.
THEOREM NothingStaysSuspended == Spec => []FlagsCleared
<1>1. Init => FlagsCleared
  BY DEF Init, FlagsCleared
<1>2. ASSUME FlagsCleared, [Next]_vars PROVE FlagsCleared'
  <2>1. CASE UNCHANGED <<changing, updating>>
    BY <1>2, <2>1 DEF FlagsCleared
  <2>2. CASE updating'
    BY <2>2 DEF FlagsCleared
  <2>3. CASE changing' = {}
    BY <2>3 DEF FlagsCleared
  <2>4. ASSUME \/ \E r \in Resources : io_Delete(r) \/ admin_SetFilter(r) \/ admin_DeleteObs(r)
               \/ \E p \in RoutePairs : admin_SetSource(p[1], p[2])
        PROVE  updating' = updating /\ (changing' \subseteq changing \/ updating)
    BY <2>4 DEF io_Delete, admin_SetFilter, admin_DeleteObs, admin_SetSource
  <2>5. ASSUME updating' = updating, changing' \subseteq changing \/ updating
        PROVE  FlagsCleared'
    BY <1>2, <2>5 DEF FlagsCleared
  <2>6. CASE Next
    <3>1. CASE Flow
      BY <2>1, <3>1 DEF Flow, res_Push, PushRefused, PushFiltered, PushTaken
    <3>2. CASE \E r \in Resources, s \in Pushes : Push(r, s)
      BY <2>1, <3>2 DEF Push
    <3>3. CASE \E d \in Declarations : io_Create(d)
      BY <2>1, <3>3 DEF io_Create
    <3>4. CASE \E r \in Resources : \/ admin_RemoveDefault(r) \/ admin_RemoveOverride(r)
                                    \/ admin_RemoveSource(r) \/ admin_CreateObs(r)
      BY <2>1, <3>4 DEF admin_RemoveDefault, admin_RemoveOverride, admin_RemoveSource,
                        admin_CreateObs
    <3>5. CASE \E p \in Defaults : admin_SetDefault(p[1], p[2]) \/ io_SetDefault(p[1], p[2])
      BY <2>1, <3>5 DEF admin_SetDefault, io_SetDefault
    <3>6. CASE \E p \in Overrides : admin_SetOverride(p[1], p[2])
      BY <2>1, <3>6 DEF admin_SetOverride
    <3>7. CASE admin_StartUpdate \/ admin_EndUpdate
      BY <2>2, <2>3, <3>7 DEF admin_StartUpdate, admin_EndUpdate
    <3> QED BY <2>4, <2>5, <2>6, <3>1, <3>2, <3>3, <3>4, <3>5, <3>6, <3>7 DEF Next
  <2> QED BY <1>2, <2>1, <2>6 DEF vars
<1> QED BY <1>1, <1>2, PTL DEF Spec

-----------------------------------------------------------------------------
(* Pushes do not meet.                                                     *)

\* res_SetSource() accepts a route from a resource to itself.
NoSelfRoutes == \A pair \in RoutePairs : pair[1] # pair[2]

\* Two sets of calls that have nothing to do with each other.
Apart(src, c, d) == c.dest # d.dest /\ c.dest \notin Downstream(src, d.dest)

LEMMA DownstreamPred ==
    ASSUME NEW src, NEW here, NEW d \in Downstream(src, here)
    PROVE  src[d] \in Downstream(src, here) \cup {here}
<1> DEFINE D == Downstream(src, here)
           S == {x \in D : src[x] \in D \cup {here}}
<1>1. D \subseteq DOMAIN src
  BY DEF Downstream
<1>2. \A e \in DOMAIN src : src[e] \in D \cup {here} => e \in D
  BY DownstreamClosed
<1>3. \A e \in DOMAIN src : src[e] \in S \cup {here} => e \in S
  <2> HIDE DEF D
  <2> QED BY <1>2
<1>4. S \in SUBSET DOMAIN src
  BY <1>1
<1>5. d \in S
  <2> HIDE DEF S
  <2> QED BY <1>3, <1>4 DEF Downstream
<1> QED BY <1>5

LEMMA DownstreamTrans ==
    ASSUME NEW src, NEW here, NEW d, d = here \/ d \in Downstream(src, here)
    PROVE  Downstream(src, d) \subseteq Downstream(src, here)
<1> DEFINE D == Downstream(src, here)
<1>1. D \in SUBSET DOMAIN src
  BY DEF Downstream
<1>2. \A e \in DOMAIN src : src[e] \in D \cup {d} => e \in D
  BY DownstreamClosed
<1> HIDE DEF D
<1>3. Downstream(src, d) \subseteq D
  BY <1>1, <1>2 DEF Downstream
<1> QED BY <1>3 DEF D

\* The destinations of one resource are apart from each other, and from whatever
\* the resource itself is apart from.
LEMMA FanoutApart ==
    ASSUME TypeOK, NoLoop(source), NEW r \in Resources, NEW s \in Samples,
           NEW u \in Units \cup {None}, NEW e \in Fanout(source, r, s, u)
    PROVE  /\ \A f \in Fanout(source, r, s, u) : e # f => Apart(source, e, f)
           /\ \A d \in Calls : /\ d.dest # r
                               /\ d.dest \notin Downstream(source, r)
                               /\ r \notin Downstream(source, d.dest)
                               => Apart(source, e, d) /\ Apart(source, d, e)
<1>1. DOMAIN source = Resources
  BY DEF TypeOK
<1>2. \A f \in Fanout(source, r, s, u) :
          /\ f.dest \in Resources /\ source[f.dest] = r
          /\ f = [dest |-> f.dest, from |-> r, sample |-> s, units |-> u]
  BY <1>1 DEF Fanout, DestsOf
<1>3. \A f \in Fanout(source, r, s, u) : f.dest \in Downstream(source, r)
  BY <1>1, <1>2, DownstreamClosed
<1>4. r \notin Downstream(source, r)
  BY <1>1 DEF NoLoop
<1>5. ASSUME NEW f \in Fanout(source, r, s, u), e # f
      PROVE  Apart(source, e, f)
  <2>1. e.dest # f.dest
    BY <1>2, <1>5
  <2>2. ASSUME e.dest \in Downstream(source, f.dest) PROVE FALSE
    <3>1. r \in Downstream(source, f.dest) \cup {f.dest}
      BY <1>2, <2>2, DownstreamPred
    <3>2. Downstream(source, f.dest) \subseteq Downstream(source, r)
      BY <1>3, DownstreamTrans
    <3> QED BY <1>3, <1>4, <3>1, <3>2
  <2> QED BY <2>1, <2>2 DEF Apart
<1>6. ASSUME NEW d \in Calls, d.dest # r, d.dest \notin Downstream(source, r),
             r \notin Downstream(source, d.dest)
      PROVE  Apart(source, e, d) /\ Apart(source, d, e)
  <2>1. e.dest # d.dest
    BY <1>3, <1>6
  <2>2. e.dest \notin Downstream(source, d.dest)
    BY <1>2, <1>6, DownstreamPred
  <2>3. d.dest \notin Downstream(source, e.dest)
    BY <1>3, <1>6, DownstreamTrans
  <2> QED BY <2>1, <2>2, <2>3 DEF Apart
<1> QED BY <1>5, <1>6

LEMMA InitRanked == ASSUME Init PROVE Ranked(source)
<1>1. source = [r \in Resources |-> NoSource]
  BY DEF Init
<1>2. RankedBy(source, [r \in Resources |-> 0])
  BY <1>1 DEF RankedBy
<1> QED BY <1>1, <1>2 DEF Ranked

\* Routes change, and a new push begins, only when nothing is pending.
LEMMA RanksKept ==
    ASSUME NoSelfRoutes, TypeOK, Ranked(source), [Next]_vars
    PROVE  Ranked(source')
<1> USE DEF TypeOK
<1>1. CASE source' = source
  BY <1>1
<1>2. ASSUME NEW p \in RoutePairs, admin_SetSource(p[1], p[2])
      PROVE  Ranked(source')
  <2>1. p[1] \in Resources /\ p[2] \in Resources /\ p[1] # p[2] /\ NoSource \notin Resources
    BY ConstantsAssumption DEF NoSelfRoutes
  <2>2. source' = SetSource(source, p[1], p[2])
    BY <1>2 DEF admin_SetSource
  <2>3. Ranked(SetSource(source, p[1], p[2]))
    BY <2>1, RankedSet
  <2> QED BY <2>2, <2>3
<1>3. ASSUME NEW r \in Resources, admin_RemoveSource(r) \/ admin_DeleteObs(r)
      PROVE  Ranked(source')
  <2>1. source' = RemoveSource(source, r) \/ source' = DropRoutes(source, r)
    BY <1>3 DEF admin_RemoveSource, admin_DeleteObs
  <2>2. source' \in [Resources -> Resources \cup {NoSource}]
    <3>1. RemoveSource(source, r) \in [Resources -> Resources \cup {NoSource}]
      BY DEF RemoveSource
    <3> QED BY <2>1, <3>1, DropRoutesType
  <2>3. \A d \in Resources : source'[d] = source[d] \/ source'[d] = NoSource
    BY <2>1 DEF RemoveSource, DropRoutes
  <2> QED BY <2>2, <2>3, RankedRemove
<1>4. \/ source' = source
      \/ \E p \in RoutePairs : admin_SetSource(p[1], p[2])
      \/ \E r \in Resources : admin_RemoveSource(r) \/ admin_DeleteObs(r)
  BY DEF Next, vars, settings, Flow, res_Push, PushRefused, PushFiltered, PushTaken, Push,
         io_Create, io_Delete, admin_SetDefault, io_SetDefault, admin_RemoveDefault,
         admin_SetOverride, admin_RemoveOverride, admin_CreateObs, admin_SetFilter,
         admin_StartUpdate, admin_EndUpdate
<1> QED BY <1>1, <1>2, <1>3, <1>4

\* A set of calls any two of which are apart.
AllApart(src, P) == \A c, d \in P : c # d => Apart(src, c, d)

\* UpdateCurrentValue() of a resource that no other pending call has to do with.
LEMMA FanoutAllApart ==
    ASSUME TypeOK, NoLoop(source), NEW r \in Resources, NEW s \in Samples,
           NEW u \in Units \cup {None}, NEW P \in SUBSET Calls, AllApart(source, P),
           \A d \in P : /\ d.dest # r
                        /\ d.dest \notin Downstream(source, r)
                        /\ r \notin Downstream(source, d.dest)
    PROVE  AllApart(source, P \cup Fanout(source, r, s, u))
<1> DEFINE N == Fanout(source, r, s, u)
<1>1. \A e, f \in N : e # f => Apart(source, e, f)
  BY FanoutApart
<1>2. \A e \in N, d \in P : Apart(source, e, d) /\ Apart(source, d, e)
  BY FanoutApart
<1> HIDE DEF N
<1>3. AllApart(source, P \cup N)
  BY <1>1, <1>2 DEF AllApart
<1> QED BY <1>3 DEF N

LEMMA ShowApart ==
    ASSUME TypeOK, NoLoop(source), Idle, NEW r \in Resources, NEW s \in Samples,
           Show(r, s) \/ Keep
    PROVE  AllApart(source, pending')
<1>1. units[r] \in Units \cup {None}
  BY DEF TypeOK
<1>2. AllApart(source, {} \cup Fanout(source, r, s, units[r]))
  <2>1. {} \in SUBSET Calls /\ AllApart(source, {})
    BY DEF AllApart
  <2> QED BY <1>1, <2>1, FanoutAllApart
<1>3. pending' = {} \/ pending' = {} \cup Fanout(source, r, s, units[r])
  BY DEF Show, Keep, Idle
<1> QED BY <1>2, <1>3 DEF AllApart

LEMMA TakenApart ==
    ASSUME FlowInv, NoLoop(source), AllApart(source, pending), NEW c, res_Push(c)
    PROVE  AllApart(source, pending')
<1> DEFINE r == c.dest
           s == Shown(r, c.sample)
           rest == pending \ {c}
<1>1. c \in pending
  BY DEF res_Push, PushRefused, PushFiltered, PushTaken
<1>2. c \in Calls /\ rest \in SUBSET Calls
  BY <1>1 DEF FlowInv, TypeOK
<1>3. r \in Resources /\ c.sample \in Samples /\ c.units \in Units \cup {None}
  BY <1>2 DEF Calls
<1>4. AllApart(source, rest)
  BY DEF AllApart
<1>5. CASE PushRefused(c) \/ PushFiltered(c)
  BY <1>4, <1>5 DEF PushRefused, PushFiltered
<1>6. CASE PushTaken(c)
  <2>1. s \in Samples /\ NewUnits(c) \in Units \cup {None}
    BY <1>3, ShownFacts DEF NewUnits, FlowInv, TypeOK
  <2>2. \A d \in rest : Apart(source, c, d) /\ Apart(source, d, c)
    BY <1>1 DEF AllApart
  <2>3. \A d \in rest : /\ d.dest # r
                        /\ d.dest \notin Downstream(source, r)
                        /\ r \notin Downstream(source, d.dest)
    BY <2>2 DEF Apart
  <2>4. pending' = rest \cup Fanout(source, r, s, NewUnits(c))
    BY <1>6 DEF PushTaken
  <2> HIDE DEF r, s, rest
  <2>5. AllApart(source, rest \cup Fanout(source, r, s, NewUnits(c)))
    BY <1>2, <1>3, <1>4, <2>1, <2>3, FanoutAllApart DEF FlowInv
  <2> QED BY <2>4, <2>5
<1> QED BY <1>5, <1>6 DEF res_Push

LEMMA NextCalls ==
    ASSUME FlowInv, NoLoop(source), AllApart(source, pending), [Next]_vars
    PROVE  AllApart(source', pending')
<1> USE DEF FlowInv
<1>1. CASE Flow
  <2>1. source' = source
    BY <1>1 DEF Flow, res_Push, PushRefused, PushFiltered, PushTaken, settings
  <2> QED BY <1>1, <2>1, TakenApart DEF Flow
<1>2. ASSUME NEW r \in Resources, NEW s \in Pushes, Push(r, s)
      PROVE  AllApart(source', pending')
  BY <1>2 DEF Push, AllApart
<1>3. ASSUME NEW r \in Resources, admin_RemoveOverride(r)
      PROVE  AllApart(source', pending')
  <2>1. \/ IsAcceptable(r, pushed[r]) /\ Show(r, pushed[r])
        \/ IsAcceptable(r, default[r]) /\ Show(r, default[r])
        \/ Keep
    BY <1>3 DEF admin_RemoveOverride
  <2>2. Idle /\ source' = source
    BY <1>3 DEF admin_RemoveOverride
  <2>3. CASE Keep
    BY <2>2, <2>3 DEF Keep, Idle, AllApart
  <2>4. ASSUME NEW s \in {pushed[r], default[r]}, IsAcceptable(r, s), Show(r, s)
        PROVE  AllApart(source', pending')
    <3>1. s \in Samples
      BY <2>4 DEF IsAcceptable, TypeOK, Sample
    <3> QED BY <2>2, <2>4, <3>1, ShowApart
  <2> QED BY <2>1, <2>3, <2>4
<1>4. ASSUME NEW p \in Defaults, admin_SetDefault(p[1], p[2]) \/ io_SetDefault(p[1], p[2])
      PROVE  AllApart(source', pending')
  <2>1. p[1] \in Resources /\ p[2] \in Samples
    BY ConstantsAssumption
  <2>2. Idle /\ source' = source /\ (Show(p[1], p[2]) \/ Keep)
    BY <1>4 DEF admin_SetDefault, io_SetDefault, SetDefault
  <2> QED BY <2>1, <2>2, ShowApart
<1>5. ASSUME NEW p \in Overrides, admin_SetOverride(p[1], p[2])
      PROVE  AllApart(source', pending')
  <2>1. p[1] \in Resources /\ p[2] \in Samples
    BY ConstantsAssumption
  <2>2. Idle /\ source' = source /\ (Show(p[1], p[2]) \/ Keep)
    BY <1>5 DEF admin_SetOverride
  <2> QED BY <2>1, <2>2, ShowApart
<1>6. CASE \/ \E d \in Declarations : io_Create(d)
           \/ \E r \in Resources : \/ io_Delete(r) \/ admin_RemoveDefault(r)
                                   \/ admin_RemoveSource(r)
                                   \/ admin_CreateObs(r) \/ admin_SetFilter(r)
                                   \/ admin_DeleteObs(r)
           \/ \E p \in RoutePairs : admin_SetSource(p[1], p[2])
           \/ admin_StartUpdate \/ admin_EndUpdate
  <2>1. pending' = {}
    BY <1>6 DEF Idle, io_Create, io_Delete, admin_RemoveDefault, admin_RemoveSource,
                admin_CreateObs, admin_SetFilter, admin_DeleteObs, admin_SetSource,
                admin_StartUpdate, admin_EndUpdate
  <2> QED BY <2>1 DEF AllApart
<1>7. CASE UNCHANGED vars
  BY <1>7 DEF vars
<1> QED BY <1>1, <1>2, <1>3, <1>4, <1>5, <1>6, <1>7 DEF Next

\* The order in which res_Push() goes through a destList never decides which value
\* a resource ends with, as long as nobody routes a resource to itself: no two of
\* the calls it still has to make concern the same resource, now or further down.
THEOREM PushesNeverMeet == ASSUME NoSelfRoutes PROVE Spec => []CallsIndependent
<1> DEFINE Inv == FlowInv /\ Ranked(source) /\ AllApart(source, pending)
<1>1. Init => Inv
  BY InitFlow, InitRanked DEF Init, AllApart
<1>2. Inv /\ [Next]_vars => Inv'
  <2> SUFFICES ASSUME Inv, [Next]_vars PROVE Inv'
    OBVIOUS
  <2>1. FlowInv'
    BY NextFlow
  <2>2. Ranked(source')
    BY RanksKept DEF FlowInv
  <2>3. NoLoop(source)
    BY RankedNoLoop, ConstantsAssumption DEF FlowInv, TypeOK
  <2>4. AllApart(source', pending')
    BY <2>3, NextCalls
  <2> QED BY <2>1, <2>2, <2>4
<1>3. Inv => CallsIndependent
  BY DEF AllApart, Apart, CallsIndependent
<1> QED BY <1>1, <1>2, <1>3, PTL DEF Spec

=============================================================================
