------------------------------ MODULE Handlers ------------------------------
(***************************************************************************)
(* Push handlers of the Data Hub (handler.c): callbacks that clients have  *)
(* registered on resources, each on the list of a resource object.         *)
(*                                                                         *)
(* A resource keeps its path while its object changes: an Input that is    *)
(* deleted but still has settings becomes a placeholder, a placeholder an  *)
(* Output.  The handlers move from the old object's list to the new one's, *)
(* and the old object goes back to the pool that objects come from.        *)
(*                                                                         *)
(* A moved handler still has the address of the old list, and is taken off *)
(* a list it is not on.  What that leaves behind goes on being used: a     *)
(* list that begins with a released handler (dangling), and rings of       *)
(* handlers that no list leads to (cycles).                                *)
(***************************************************************************)
EXTENDS Naturals, SequencesExt

CONSTANTS
    Paths,      \* paths of resources
    Objects,    \* the pool of resource objects
    Handlers,   \* registrations: callback and context
    Wants,      \* the data type each handler is registered for
    None

Types == {"trigger", "numeric", "string"}

ASSUME HandlersAssumption ==
    /\ Wants \in [Handlers -> Types]
    /\ None \notin Objects \cup Paths

VARIABLES
    object,      \* the object of the resource at each path
    list,        \* pushHandlerList of each object
    listPtr,     \* as in Handler_t: the list a handler is on
    path,        \* history: where a handler has been registered
    earlier,     \* history: the pairs of handlers there are, the older one first
    dangling,   \* objects whose list begins with a handler that has been released
    cycles,     \* rings of linked handlers that no list leads to
    lost,       \* a list has been changed through the links of a released handler
    moved,      \* history: handlers have changed lists
    last         \* history: the last push, its path, type and the handlers called

hooks == <<dangling, cycles, lost>>
handlersVars == <<object, list, listPtr, path, earlier, hooks, moved, last>>

InUse == {object[p] : p \in Paths} \ {None}
Free == Objects \ InUse
Registered == {h \in Handlers : path[h] # None}
Adrift == UNION cycles
NoPush == [path |-> None, type |-> "trigger", called |-> <<>>]

\* The handlers of s that are in hs, in their order.
Kept(s, hs) ==
    LET kept[i \in 0 .. Len(s)] ==
            IF i = 0 THEN <<>>
            ELSE IF s[i] \in hs THEN Append(kept[i - 1], s[i]) ELSE kept[i - 1]
    IN  kept[Len(s)]

Without(hs) == {e \in earlier : e[1] \notin hs /\ e[2] \notin hs}

\* CallPushHandler(): a handler is called for samples of its own data type, and a
\* handler for strings (or JSON) for all.
\* Mutant: the list is called from the tail.
Notifies(h, t) == Wants[h] = t \/ Wants[h] = "string"
CallAllBackwards(s, t) == Reverse(Kept(s, {h \in Handlers : Notifies(h, t)}))
CallAll(s, t) == Kept(s, {h \in Handlers : Notifies(h, t)})

HandlersInit ==
    /\ object = [p \in Paths |-> None]
    /\ list = [o \in Objects |-> <<>>]
    /\ listPtr = [h \in Handlers |-> None]
    /\ path = [h \in Handlers |-> None]
    /\ earlier = {}
    /\ dangling = {}
    /\ cycles = {}
    /\ lost = FALSE
    /\ moved = FALSE
    /\ last = NoPush

-----------------------------------------------------------------------------
(* Resources *)

\* A list that begins with a released handler cannot be added to, moved or emptied: le_dls
\* goes through that handler's links, which lead nowhere, or into another list once its
\* memory is used again.
Intact(o) == o \notin dangling
ThroughReleased(o) ==
    /\ o \in dangling
    /\ lost' = TRUE
    /\ UNCHANGED <<object, list, listPtr, path, earlier, dangling, cycles, moved>>

CreateResource(p) ==
    /\ ~lost
    /\ object[p] = None
    /\ \E o \in Free : object' = [object EXCEPT ![p] = o]
    /\ last' = NoPush
    /\ UNCHANGED <<list, listPtr, path, earlier, hooks, moved>>

\* handler_MoveAll(), of the handlers on object o to the list of object n.
\* Mutant: the first handler stays behind.
MoveAllButFirst(o, n) == [list EXCEPT ![n] = @ \o Tail(list[o]), ![o] = <<>>]
MoveAll(o, n) == [list EXCEPT ![n] = @ \o list[o], ![o] = <<>>]

\* ReplaceResource(): the settings move, the handlers with them.
ReplaceResource(p) ==
    /\ ~lost
    /\ object[p] # None
    /\ \/ /\ Intact(object[p])
          /\ \E n \in Free :
                /\ object' = [object EXCEPT ![p] = n]
                /\ list' = IF list[object[p]] = <<>> THEN list ELSE MoveAll(object[p], n)
          /\ moved' = (moved \/ list[object[p]] # <<>>)
          /\ UNCHANGED <<listPtr, path, earlier, hooks>>
       \/ ThroughReleased(object[p])
    /\ last' = NoPush

\* res_Destruct() calls handler_RemoveAll(), which reaches the handlers on the list.
DeleteResource(p) ==
    LET gone == ToSet(list[object[p]])
    IN  /\ ~lost
        /\ object[p] # None
        /\ \/ /\ Intact(object[p])
              /\ object' = [object EXCEPT ![p] = None]
              /\ list' = [list EXCEPT ![object[p]] = <<>>]
              /\ listPtr' = [h \in Handlers |-> IF h \in gone THEN None ELSE listPtr[h]]
              /\ path' = [h \in Handlers |-> IF h \in gone THEN None ELSE path[h]]
              /\ earlier' = Without(gone)
              /\ UNCHANGED <<hooks, moved>>
           \/ ThroughReleased(object[p])
        /\ last' = NoPush

\* What is called on a list that begins with a released handler, or on any once lists have
\* been changed through one: nobody, the handler that has its memory now, or that handler
\* and those it is linked to.
Stray == {<<>>} \cup {<<h>> : h \in Handlers} \cup {list[o] : o \in Objects}

\* resTree_Push() to a resource that takes the sample.
Push(p, t) ==
    /\ object[p] # None
    /\ \E s \in IF ~lost /\ Intact(object[p]) THEN {CallAll(list[object[p]], t)} ELSE Stray :
          last' = [path |-> p, type |-> t, called |-> s]
    /\ UNCHANGED <<object, list, listPtr, path, earlier, hooks, moved>>

-----------------------------------------------------------------------------
(* Clients *)

handler_Add(h, o) ==
    /\ list' = [list EXCEPT ![o] = Append(@, h)]
    /\ listPtr' = [listPtr EXCEPT ![h] = o]

\* query_Add...PushHandler() and its twin in the Admin service: a path with no
\* resource gets a placeholder.
AddPushHandler(h, p) ==
    /\ ~lost
    /\ path[h] = None
    /\ \E o \in IF object[p] = None THEN Free ELSE {object[p]} :
        \/ /\ Intact(o)
           /\ object' = [object EXCEPT ![p] = o]
           /\ handler_Add(h, o)
           /\ path' = [path EXCEPT ![h] = p]
           /\ earlier' = earlier \cup {<<g, h>> : g \in Registered}
           /\ UNCHANGED <<hooks, moved>>
        \/ ThroughReleased(o)
    /\ last' = NoPush

\* le_dls_Remove(), given the list that is at object `given`.  It unlinks the handler from
\* its neighbours, wherever it is.  If the handler has none, the given list becomes empty;
\* else the given list moves on from the handler if that is its head.
Unlinked(h, o) == [list EXCEPT ![o] = Kept(@, Handlers \ {h})]
Rings(s) == IF s = <<>> THEN {} ELSE {ToSet(s)}

\* The given list is the handler's, or the handler is not at the head of its own.
RemoveInside(h, o, given) ==
    /\ given = o \/ Head(list[o]) # h
    /\ list' = Unlinked(h, o)
    /\ UNCHANGED <<dangling, cycles>>

\* The handler's own list keeps it as its head; the others are linked to one another.
RemoveHead(h, o, given) ==
    /\ given # o /\ Head(list[o]) = h /\ Len(list[o]) > 1
    /\ list' = [list EXCEPT ![o] = <<>>]
    /\ dangling' = dangling \cup {o}
    /\ cycles' = cycles \cup Rings(Tail(list[o]))

\* The handler's own list keeps it, and the given list loses whatever it has.
RemoveOnly(h, o, given) ==
    /\ given # o /\ list[o] = <<h>>
    /\ list' = [list EXCEPT ![o] = <<>>, ![given] = <<>>]
    /\ dangling' = (dangling \cup {o}) \ {given}
    /\ cycles' = cycles \cup Rings(list[given])

\* No list leads to the handler.
RemoveAdrift(h, given) ==
    LET alone == {h} \in cycles
        rest == {c \ {h} : c \in cycles} \ {{}}
    IN  /\ list' = IF alone THEN [list EXCEPT ![given] = <<>>] ELSE list
        /\ dangling' = IF alone THEN dangling \ {given} ELSE dangling
        /\ cycles' = IF alone THEN rest \cup Rings(list[given]) ELSE rest

\* The list that is given is listPtr, which handler_MoveAll() leaves at the old object.
handler_Remove(h) ==
    /\ \/ /\ h \notin Adrift
          /\ LET o == object[path[h]]
             IN  \/ RemoveInside(h, o, listPtr[h])
                 \/ RemoveHead(h, o, listPtr[h])
                 \/ RemoveOnly(h, o, listPtr[h])
       \/ /\ h \in Adrift
          /\ RemoveAdrift(h, listPtr[h])
    /\ listPtr' = [listPtr EXCEPT ![h] = None]

\* query_Remove...PushHandler(), by the client or when its session closes.
RemovePushHandler(h) ==
    /\ ~lost
    /\ path[h] # None
    /\ handler_Remove(h)
    /\ path' = [path EXCEPT ![h] = None]
    /\ earlier' = Without({h})
    /\ last' = NoPush
    /\ UNCHANGED <<object, lost, moved>>

\* A daemon that has changed lists through the links of a released handler goes on; from
\* there the model follows no more than its pushes, until it has died of that or has been
\* stopped, and the supervisor starts it again.
DaemonRestart ==
    /\ lost
    /\ object' = [p \in Paths |-> None]
    /\ list' = [o \in Objects |-> <<>>]
    /\ listPtr' = [h \in Handlers |-> None]
    /\ path' = [h \in Handlers |-> None]
    /\ earlier' = {}
    /\ dangling' = {}
    /\ cycles' = {}
    /\ lost' = FALSE
    /\ moved' = FALSE
    /\ last' = NoPush

HandlersNext ==
    \/ \E p \in Paths : CreateResource(p) \/ ReplaceResource(p) \/ DeleteResource(p)
    \/ \E p \in Paths, t \in Types : Push(p, t)
    \/ \E h \in Handlers, p \in Paths : AddPushHandler(h, p)
    \/ \E h \in Handlers : RemovePushHandler(h)
    \/ DaemonRestart

HandlersSpec == HandlersInit /\ [][HandlersNext]_handlersVars

-----------------------------------------------------------------------------

HandlersTypeOK ==
    /\ object \in [Paths -> Objects \cup {None}]
    /\ list \in [Objects -> Seq(Handlers)]
    /\ listPtr \in [Handlers -> Objects \cup {None}]
    /\ path \in [Handlers -> Paths \cup {None}]
    /\ earlier \subseteq Handlers \X Handlers
    /\ dangling \subseteq Objects
    /\ cycles \in SUBSET (SUBSET Handlers)
    /\ lost \in BOOLEAN
    /\ moved \in BOOLEAN
    /\ last \in [path: Paths \cup {None}, type: Types, called: Seq(Handlers)]

\* s is hs, each once and in the order of registration.
InOrder(s, hs) ==
    /\ ToSet(s) = hs
    /\ \A i, j \in 1 .. Len(s) : i < j => s[i] # s[j] /\ <<s[i], s[j]>> \in earlier

\* A handler is on the list of the resource it was registered for, once, in the
\* order of registration, and on no other: however often the resource's object was
\* replaced, and whichever object of the pool took its place.  As long as no handlers have
\* been moved this has no exception.  Afterwards it is true of the lists that do not begin
\* with a released handler and of the handlers some list leads to, until the daemon goes
\* through the links of a released one.  Every variable keeps its type.
ListsExact ==
    /\ HandlersTypeOK
    /\ ~moved => dangling = {} /\ cycles = {} /\ ~lost
    /\ ~lost => \A o \in Objects \ dangling :
          InOrder(list[o], {h \in Registered \ Adrift : object[path[h]] = o})

\* A push reaches every handler of its resource that asked for its type, once, in
\* the order of registration, if the resource's list is intact and a list leads to the
\* handler (as in ListsExact: always, as long as no handlers have been moved).
EveryoneCalled ==
    last # NoPush /\ ~lost /\ Intact(object[last.path]) =>
        InOrder(last.called,
                {h \in Handlers \ Adrift : path[h] = last.path /\ Notifies(h, last.type)})

=============================================================================
