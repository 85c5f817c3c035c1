------------------------------ MODULE ResTree -------------------------------
(***************************************************************************)
(* The Data Hub's resource tree (resTree.c) and the operations of the I/O  *)
(* and Admin services that add entries to it and take them away.           *)
(*                                                                         *)
(* The daemon is one thread serving one call at a time, so every call is   *)
(* one action.  Entries are reference counted: an entry is created with    *)
(* one reference and each child holds one more on its parent.  An entry    *)
(* whose count reaches zero is destroyed and releases its parent in turn;  *)
(* the destructor asserts that it has no child and no resource left.       *)
(*                                                                         *)
(* An entry is named by its path, the sequence of names from the root.     *)
(* Of a resource the model keeps what decides whether its entry stays:     *)
(* its type, its routes and which kinds of administrative settings it has. *)
(***************************************************************************)
EXTENDS Integers, Sequences, FiniteSets, Routes

CONSTANTS
    IoPaths,      \* paths clients create Inputs and Outputs at: <<"app", a, ...>>
    ObsPaths,     \* paths of Observations: <<"obs", ...>>
    AdminPaths,   \* other paths the administrator names, the root's among them
    RoutePairs,   \* the <<destination, source>> pairs the administrator asks for
    Settings      \* kinds of settings: a default, an override, a push handler

ResPaths == IoPaths \cup ObsPaths \cup AdminPaths

\* An empty path names the base it is relative to: a client's own namespace, or
\* /obs.  What the administrator names below /obs is in ObsPaths.
ASSUME PathAssumption ==
    /\ \A p \in IoPaths : p \in Seq(STRING) /\ Len(p) >= 2 /\ p[1] = "app"
    /\ \A p \in ObsPaths : p \in Seq(STRING) /\ Len(p) >= 1 /\ p[1] = "obs"
    /\ \A p \in AdminPaths : p \in Seq(STRING) /\ (p = <<>> \/ p[1] # "obs")

ASSUME RouteAssumption ==
    /\ RoutePairs \subseteq ResPaths \X ResPaths
    /\ NoSource \notin ResPaths

Root == <<>>
Prefix(p, n) == SubSeq(p, 1, n)
Parent(e) == Prefix(e, Len(e) - 1)
PathTo(p) == {Prefix(p, n) : n \in 0 .. Len(p)}
Entries == {Root} \cup UNION {PathTo(p) : p \in ResPaths}

\* The namespace of the client app that owns an I/O resource.
Namespace(p) == Prefix(p, 2)
Namespaces == {Namespace(p) : p \in IoPaths}

\* admin.api:22-25: resources are the leaves of the tree.  Nothing enforces it.
Flat == \A p, q \in ResPaths : p \in PathTo(q) => p = q

\* res_SetSource() does not refuse to route a resource to itself; without such a
\* request there is no loop.
NoSelfRoutes == \A pair \in RoutePairs : pair[1] # pair[2]

IoTypes == {"input", "output"}
ResourceTypes == IoTypes \cup {"placeholder", "observation"}
EntryTypes == {"none", "namespace"} \cup ResourceTypes
Faults == {"none", "assertion", "null", "stale"}

VARIABLES
    refs,        \* reference count of each entry, 0 when there is no such entry
    type,        \* entry type, "none" when there is no such entry
    settings,    \* kinds of administrative settings on each resource
    source,      \* the source of each resource
    sessions,    \* namespaces whose entry is cached in the context of an open session
    stale,       \* namespaces whose freed entry is still cached there
    announced,   \* resources present according to the change notifications
    fault,       \* "assertion", "null" or "stale" once the daemon has died
    short        \* history: entries that outlived a resource deleted from them

vars == <<refs, type, settings, source, sessions, stale, announced, fault, short>>

-----------------------------------------------------------------------------
(* Entries and their references *)

Live(r) == {e \in DOMAIN r : r[e] > 0}
Children(r, e) == {c \in Live(r) : c # Root /\ Parent(c) = e}

\* GoToEntry() adds every missing entry on the way to p with AddChild(): each
\* comes with one reference, and its parent gets one more.
Missing(r, p) == {e \in PathTo(p) : r[e] = 0}
AddRefs(r, p) ==
    LET added == Missing(r, p)
        gain(e) == IF \E c \in added : c # Root /\ Parent(c) = e THEN 1 ELSE 0
    IN  [e \in DOMAIN r |-> (IF e \in added THEN 1 ELSE r[e]) + gain(e)]
AddTypes(r, t, p) ==
    [e \in DOMAIN t |-> IF e \in Missing(r, p) THEN "namespace" ELSE t[e]]

\* ReplaceResource(): the entry at p gets a resource of the given type.
Place(r, t, p, resType) == [AddTypes(r, t, p) EXCEPT ![p] = resType]

\* resTree_GetResource(): the entry at p, with a placeholder if it has no resource.
PlaceAny(r, t, p) ==
    Place(r, t, p, IF t[p] \in ResourceTypes THEN t[p] ELSE "placeholder")

\* Releasing p destroys the entries of the longest stretch of its path, from p
\* up, whose counts are all 1; the next one up only loses a reference.
\* Mutant: namespaces above p go with their last child, as admin.api:470 has it.
DestroyedIfEmpty(r, p) ==
    {Prefix(p, n) : n \in {k \in 1 .. Len(p) :
        r[p] = 1 /\ \A m \in k .. Len(p) - 1 : r[Prefix(p, m)] = 2}}
Destroyed(r, p) ==
    {Prefix(p, n) : n \in {k \in 0 .. Len(p) : \A m \in k .. Len(p) : r[Prefix(p, m)] = 1}}
\* Mutant: the parent keeps the reference of a destroyed child.
ReleaseRefsLeak(r, p) == [e \in DOMAIN r |-> IF e \in Destroyed(r, p) THEN 0 ELSE r[e]]
ReleaseRefs(r, p) ==
    LET gone == Destroyed(r, p)
        loss(e) == IF e = p \/ \E c \in gone : c # Root /\ Parent(c) = e THEN 1 ELSE 0
    IN  [e \in DOMAIN r |-> r[e] - loss(e)]
ReleaseTypes(r, t, p) ==
    [e \in DOMAIN t |-> IF e \in Destroyed(r, p) THEN "none" ELSE t[e]]

\* An assertion of EntryDestructor() fails for one of the destroyed entries.
ReleaseFails(r, t, p) ==
    \E e \in Destroyed(r, p) :
        \/ e = Root
        \/ t[e] \in ResourceTypes
        \/ ~(Children(r, e) \subseteq Destroyed(r, p))

\* res_HasAdminSettings()
\* Mutant: an override or default is overlooked.
HasRoutesOnly(p) == source[p] # NoSource \/ DestsOf(source, p) # {}
HasAdminSettings(p) ==
    \/ source[p] # NoSource
    \/ DestsOf(source, p) # {}
    \/ settings[p] # {}

\* A call with a path that goes on past e with an empty or an overlong name is
\* refused once GoToEntry() has added the entries as far as e.
BadPath(e) ==
    /\ fault = "none"
    /\ refs' = AddRefs(refs, e)
    /\ type' = AddTypes(refs, type, e)
    /\ UNCHANGED <<settings, source, sessions, stale, announced, fault, short>>

-----------------------------------------------------------------------------
(* The I/O service, called by a client app on a resource in its namespace *)

\* hub_GetClientNamespace(): found or created at a session's first call, then
\* cached, with no reference taken.  A call about a resource that is not there or
\* that is left alone does no more.
io_Call(ns) ==
    /\ fault = "none"
    /\ refs' = AddRefs(refs, ns)
    /\ type' = AddTypes(refs, type, ns)
    /\ sessions' = sessions \cup {ns}
    /\ UNCHANGED <<settings, source, stale, announced, fault, short>>

\* io_CreateInput(), io_CreateOutput() of something not yet an I/O resource: a
\* placeholder's settings move to the new resource (res_MoveAdminSettings()).
io_Create(p, ioType) ==
    /\ fault = "none"
    /\ type[p] \in {"none", "namespace", "placeholder"}
    /\ refs' = AddRefs(refs, p)
    /\ type' = Place(refs, type, p, ioType)
    /\ sessions' = sessions \cup {Namespace(p)}
    /\ announced' = announced \cup {p}
    /\ UNCHANGED <<settings, source, stale, fault, short>>

\* io_DeleteResource() of a resource with settings leaves a placeholder.
\* Mutant: the change handlers are not called for a resource turned placeholder.
io_DeleteSilently(p) ==
    /\ fault = "none"
    /\ type[p] \in IoTypes
    /\ HasAdminSettings(p)
    /\ type' = [type EXCEPT ![p] = "placeholder"]
    /\ sessions' = sessions \cup {Namespace(p)}
    /\ UNCHANGED <<refs, settings, source, stale, announced, fault, short>>
io_DeleteKeepingSettings(p) ==
    /\ fault = "none"
    /\ type[p] \in IoTypes
    /\ HasAdminSettings(p)
    /\ type' = [type EXCEPT ![p] = "placeholder"]
    /\ sessions' = sessions \cup {Namespace(p)}
    /\ announced' = announced \ {p}
    /\ UNCHANGED <<refs, settings, source, stale, fault, short>>

\* The resource object's last reference is dropped, and with it all it holds, then
\* its entry is released, whether or not others are below it.  A namespace that is
\* destroyed stays in the context of the sessions that have cached it.
\* Mutant: the entry still points to the resource when it is released.
DeletedLate(p) == type
Deleted(p) == [type EXCEPT ![p] = "namespace"]
Discard(p, cached) ==
    LET gone == Destroyed(refs, p)
    IN  /\ ~ReleaseFails(refs, Deleted(p), p)
        /\ refs' = ReleaseRefs(refs, p)
        /\ type' = ReleaseTypes(refs, Deleted(p), p)
        /\ settings' = [settings EXCEPT ![p] = {}]
        /\ announced' = announced \ {p}
        /\ sessions' = cached \ gone
        /\ stale' = stale \cup (cached \cap gone)
        /\ short' = (short \cup {p}) \ gone

io_Delete(p) ==
    /\ fault = "none"
    /\ type[p] \in IoTypes
    /\ ~HasAdminSettings(p)
    /\ Discard(p, sessions \cup {Namespace(p)})
    /\ UNCHANGED <<source, fault>>

\* The last clients that have cached an entry for ns go away, and with them
\* their sessions' context pointers to it.
CloseSession(ns) ==
    /\ fault = "none"
    /\ \/ ns \in sessions /\ sessions' = sessions \ {ns} /\ UNCHANGED stale
       \/ ns \in stale /\ stale' = stale \ {ns} /\ UNCHANGED sessions
    /\ UNCHANGED <<refs, type, settings, source, announced, fault, short>>

\* A session whose namespace was freed makes a call.  What the code then does to
\* the freed entry, or to what has taken its place in the pool, is undefined; the
\* model follows it no further than to the daemon's next start.
StaleCall(ns) ==
    /\ fault = "none"
    /\ ns \in stale
    /\ fault' = "stale"
    /\ UNCHANGED <<refs, type, settings, source, sessions, stale, announced, short>>

-----------------------------------------------------------------------------
(* The Admin service *)

\* admin_Set...Default(), admin_Set...Override(), admin_Add...PushHandler()
admin_Set(p, kind) ==
    /\ fault = "none"
    /\ refs' = AddRefs(refs, p)
    /\ type' = PlaceAny(refs, type, p)
    /\ settings' = [settings EXCEPT ![p] = @ \cup {kind}]
    /\ UNCHANGED <<source, sessions, stale, announced, fault, short>>

\* admin_RemoveDefault(), admin_RemoveOverride(), admin_Remove...PushHandler()
admin_Remove(p, kind) ==
    /\ fault = "none"
    /\ kind \in settings[p]
    /\ settings' = [settings EXCEPT ![p] = @ \ {kind}]
    /\ UNCHANGED <<refs, type, source, sessions, stale, announced, fault, short>>

admin_SetSource(dest, src) ==
    LET destRefs == AddRefs(refs, dest)
    IN  /\ fault = "none"
        /\ refs' = AddRefs(destRefs, src)
        /\ type' = PlaceAny(destRefs, PlaceAny(refs, type, dest), src)
        /\ source' = SetSource(source, dest, src)
        /\ UNCHANGED <<settings, sessions, stale, announced, fault, short>>

admin_RemoveSource(dest) ==
    /\ fault = "none"
    /\ source[dest] # NoSource
    /\ source' = RemoveSource(source, dest)
    /\ UNCHANGED <<refs, type, settings, sessions, stale, announced, fault, short>>

\* admin_CreateObs() and every setter of an Observation's filter or buffer.
admin_CreateObs(p) ==
    /\ fault = "none"
    /\ type[p] \in {"none", "namespace", "placeholder"}
    /\ refs' = AddRefs(refs, p)
    /\ type' = Place(refs, type, p, "observation")
    /\ announced' = announced \cup {p}
    /\ UNCHANGED <<settings, source, sessions, stale, fault, short>>

\* admin_DeleteObs() does not look at the type of the entry it finds.  The
\* resource drops the routes at both of its ends before it is released.
admin_DeleteObs(p) ==
    /\ fault = "none"
    /\ type[p] \in ResourceTypes
    /\ source' = DropRoutes(source, p)
    /\ Discard(p, sessions)
    /\ UNCHANGED fault

\* Either way of deleting a resource can trip over EntryDestructor()'s assertions.
DestructorAsserts(p) ==
    /\ fault = "none"
    /\ \/ p \in IoPaths /\ type[p] \in IoTypes /\ ~HasAdminSettings(p)
       \/ p \in ObsPaths /\ type[p] \in ResourceTypes
    /\ ReleaseFails(refs, Deleted(p), p)
    /\ fault' = "assertion"
    /\ UNCHANGED <<refs, type, settings, source, sessions, stale, announced, short>>

\* A namespace below /obs, or that one itself, has no resource:
\* resTree_DeleteObservation() passes NULL on.
admin_DeleteNamespace(e) ==
    /\ fault = "none"
    /\ e # Root
    /\ e[1] = "obs"
    /\ type[e] = "namespace"
    /\ fault' = "null"
    /\ UNCHANGED <<refs, type, settings, source, sessions, stale, announced, short>>

-----------------------------------------------------------------------------

EmptyRefs == [e \in Entries |-> IF e = Root THEN 1 ELSE 0]
EmptyTypes == [e \in Entries |-> IF e = Root THEN "namespace" ELSE "none"]

\* resTree_Init() creates the root.
Init ==
    /\ refs = EmptyRefs
    /\ type = EmptyTypes
    /\ settings = [p \in ResPaths |-> {}]
    /\ source = [p \in ResPaths |-> NoSource]
    /\ sessions = {}
    /\ stale = {}
    /\ announced = {}
    /\ fault = "none"
    /\ short = {}

\* The supervisor restarts a daemon that died; it starts from an empty tree.
Restart ==
    /\ fault # "none"
    /\ refs' = EmptyRefs
    /\ type' = EmptyTypes
    /\ settings' = [p \in ResPaths |-> {}]
    /\ source' = [p \in ResPaths |-> NoSource]
    /\ sessions' = {}
    /\ stale' = {}
    /\ announced' = {}
    /\ fault' = "none"
    /\ short' = {}

Next ==
    \/ \E ns \in Namespaces : io_Call(ns) \/ CloseSession(ns) \/ StaleCall(ns)
    \/ \E p \in IoPaths :
        \/ \E ioType \in IoTypes : io_Create(p, ioType)
        \/ io_DeleteKeepingSettings(p)
        \/ io_Delete(p)
    \/ \E p \in ResPaths : \E kind \in Settings : admin_Set(p, kind) \/ admin_Remove(p, kind)
    \/ \E pair \in RoutePairs : admin_SetSource(pair[1], pair[2])
    \/ \E p \in ResPaths : \E n \in 0 .. Len(p) - 1 : BadPath(Prefix(p, n))
    \/ \E p \in ResPaths : admin_RemoveSource(p) \/ DestructorAsserts(p)
    \/ \E p \in ObsPaths : admin_CreateObs(p) \/ admin_DeleteObs(p)
    \/ \E e \in Entries : admin_DeleteNamespace(e)
    \/ Restart

Spec == Init /\ [][Next]_vars

-----------------------------------------------------------------------------
(* What the tree promises *)

\* Every variable has its type.
TypeOK ==
    /\ refs \in [Entries -> Nat]
    /\ type \in [Entries -> EntryTypes]
    /\ settings \in [ResPaths -> SUBSET Settings]
    /\ source \in [ResPaths -> ResPaths \cup {NoSource}]
    /\ sessions \subseteq Namespaces
    /\ stale \subseteq Namespaces
    /\ announced \subseteq ResPaths
    /\ fault \in Faults
    /\ short \subseteq IoPaths \cup ObsPaths

\* Entries form a tree: an entry is there as long as something refers to it, and
\* the parentPtr of an entry that is there points to one that is there too, and so
\* does a session's context pointer that is not stale.
ParentsLive(r) == r[Root] > 0 /\ \A e \in Live(r) \ {Root} : Parent(e) \in Live(r)
TreeShape ==
    /\ ParentsLive(refs)
    /\ \A e \in Entries : type[e] = "none" <=> refs[e] = 0
    /\ \A ns \in sessions : refs[ns] > 0

\* The books balance: one reference for the entry itself and one per child.  A
\* lost reference frees a namespace under its children, a spare one leaks it.  The
\* one exception is an entry that has outlived a resource deleted from it, because
\* others are below: it has given up its own reference and gets no new one.
RefsBalance ==
    \A e \in Live(refs) \ short : refs[e] = 1 + Cardinality(Children(refs, e))

\* resTree.c:101-103: an entry that is destroyed has no child and no resource.  No
\* sequence of calls trips the assertions while no entry has outlived a resource
\* deleted from it, whatever else is created, deleted or named.
AssertionsHold == fault = "assertion" => short # {}

\* No srcPtr and no destList link dangles: both ends of a route are resources
\* of the tree, whichever of them was deleted, replaced or created again since.
RoutesLive ==
    \A d \in ResPaths :
        source[d] # NoSource =>
            type[d] \in ResourceTypes /\ type[source[d]] \in ResourceTypes

\* A push follows the routes recursively: it ends only if they form no loop.
RoutesAcyclic == NoLoop(source)

\* hub_GetClientNamespace() caches an entry without taking a reference on it.  The
\* deletion of what is in the namespace never frees it: that takes the deletion of
\* an I/O resource that a client has created, with an empty path, in the place of
\* its namespace, then or (when others were below it) earlier.
SessionsLive ==
    [][\A ns \in stale' \ stale : type[ns] \in IoTypes \/ ns \in short]_vars

\* A client of the change notifications knows the Inputs, Outputs and
\* Observations of the tree, although a resource can turn into a placeholder,
\* a placeholder into a resource, and either can vanish with its entry.
AnnouncedExactly ==
    announced = {p \in ResPaths : type[p] \in IoTypes \cup {"observation"}}

\* A client that deletes its resource takes nothing of the administrator's:
\* the settings and the routes at both ends stay for the next incarnation.
DeleteKeepsSettings ==
    [][\A p \in IoPaths :
          /\ fault = "none"
          /\ type[p] \in IoTypes
          /\ type'[p] \notin IoTypes
          => settings' = settings /\ source' = source]_vars

=============================================================================
