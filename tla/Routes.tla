------------------------------- MODULE Routes -------------------------------
(***************************************************************************)
(* The data flow routes between resources of the Data Hub (resource.c).    *)
(*                                                                         *)
(* A route is stored twice in the C code: the destination's srcPtr, and    *)
(* its link in the source's destList.  Both are changed together, so one   *)
(* function from each resource to its source, or to NoSource, stands for   *)
(* the two.  The module holds no state: the operators below take such a    *)
(* function and return the one that the C function leaves behind.          *)
(***************************************************************************)

CONSTANT NoSource    \* srcPtr = NULL

\* The resources that have an entry in resource r's destList.
DestsOf(src, r) == {d \in DOMAIN src : src[d] = r}

\* Every resource that the recursion over destList reaches from resource here:
\* the least set that holds here's destinations and those of its own members.
Downstream(src, here) ==
    {x \in DOMAIN src :
        \A S \in SUBSET DOMAIN src :
            (\A d \in DOMAIN src : src[d] \in S \cup {here} => d \in S) => x \in S}

\* Mutant: only the direct destinations are looked at.
IsDirectDest(src, there, here) == there \in DestsOf(src, here)
CanGetThereFromHere(src, there, here) == there \in Downstream(src, here)

\* res_SetSource(dest, NULL).
RemoveSource(src, dest) == [src EXCEPT ![dest] = NoSource]

\* res_SetSource() refuses the new source with LE_DUPLICATE.
\* Mutant: the way back is looked for from the wrong end.
IsDuplicateSwapped(src, dest, s) ==
    /\ src[dest] # s
    /\ CanGetThereFromHere(RemoveSource(src, dest), dest, s)
IsDuplicate(src, dest, s) ==
    /\ src[dest] # s
    /\ CanGetThereFromHere(RemoveSource(src, dest), s, dest)

\* res_SetSource(dest, s).  The old route is removed before the new one is
\* checked, so a refused call still leaves the destination without a source.
SetSource(src, dest, s) ==
    IF IsDuplicate(src, dest, s) THEN RemoveSource(src, dest)
                                 ELSE [src EXCEPT ![dest] = s]

\* Both ends of every route of a resource that is going away.
\* Mutant: the destinations of the resource keep their srcPtr.
DropOwnRoute(src, r) == RemoveSource(src, r)
DropRoutes(src, r) ==
    [d \in DOMAIN src |-> IF d = r \/ src[d] = r THEN NoSource ELSE src[d]]

\* No chain of routes leads from a resource back to itself.
NoLoop(src) == \A r \in DOMAIN src : r \notin Downstream(src, r)

=============================================================================
