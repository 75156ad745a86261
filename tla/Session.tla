------------------------------- MODULE Session -------------------------------
(***************************************************************************)
(* What a session on a bus has registered, and how it comes back when the  *)
(* bus daemon goes away: SessionPrivate (SessionPrivate.cpp), the builder  *)
(* of Session.hpp, VTableRegistrar.cpp, listenSignal and                   *)
(* onRemotePropertyChanged (Method.hpp), reconnectSession (Reconnect.cpp)  *)
(* and LooperPrivate::doReconnect (LooperPrivate.cpp).                     *)
(*                                                                         *)
(* All of it runs on the loop thread, or before run(); the daemon goes and *)
(* comes back at any time, also in the middle of doReconnect, whose calls  *)
(* to the daemon are steps of their own.  doReconnect itself is a task of  *)
(* the looper, posted by the handler of the Disconnected signal.           *)
(*                                                                         *)
(* Signals that are listened to are kept in one vector of the session, and *)
(* watched remote properties in a map by service and path; both are known  *)
(* to sd-bus through a slot of a match rule.                               *)
(***************************************************************************)
EXTENDS Naturals

CONSTANTS
    Objects,        \* (path, interface) keys
    Names,          \* names of methods, signals and properties
    BadEntries,     \* <<object, name>> that sd-bus refuses in a vtable
    Signals,        \* calls of listenSignal()
    Watches,        \* (service, path) keys of watched remote properties
    Named,          \* the session asks for a service name
    MaxVersions,    \* bound: how often one name is registered
    MaxConnects     \* bound: connections made

ASSUME SessionAssumption ==
    /\ BadEntries \subseteq Objects \X Names
    /\ Signals \cap Watches = {}
    /\ Named \in BOOLEAN
    /\ MaxVersions \in Nat
    /\ MaxConnects \in Nat \ {0}

Listeners == Signals \cup Watches

VARIABLES
    daemon,         \* the bus daemon
    bus,            \* mRawBus: none, or what became of its connection
    conn,           \* how many connections were made, the last being mRawBus
    attached,       \* mRawBus is attached to the event loop
    watched,        \* mConnectedSlot: Disconnected is listened to
    owned,          \* the service name is owned
    pc,             \* where the loop thread is in run() or in doReconnect()
    posted,         \* doReconnect() is queued
    todo,           \* what the loops of reconnectSession have not come to
    entry,          \* mRegisteredObjects: the data of each name, by its number
    dirty,          \* history: objects with entries added since the last commit
    context,        \* objects that have a VTableContext
    slot,           \* the connection on which a vtable is published, or 0
    vtable,         \* the data that vtable refers to
    known,          \* mRegisteredSigHandlers and mRegisteredPropHandlers
    match,          \* the connection on which a match rule is held, or 0
    wild,           \* listeners whose slot is an uninitialized pointer
    refused         \* history: listeners whose rule was refused on this connection

vars == <<daemon, bus, conn, attached, watched, owned, pc, posted, todo, entry,
          dirty, context, slot, vtable, known, match, wild, refused>>

busVars == <<daemon, bus, conn, owned>>
loopVars == <<attached, watched, pc, posted, todo>>
objectVars == <<entry, dirty, context, slot, vtable>>
listenerVars == <<known, match, wild, refused>>

Versions == 0 .. MaxVersions

Empty == [n \in Names |-> 0]

TypeOK ==
    /\ daemon \in {"up", "down"}
    /\ bus \in {"none", "open", "lost", "dead"}
    /\ conn \in 0 .. MaxConnects
    /\ attached \in BOOLEAN
    /\ watched \in BOOLEAN
    /\ owned \in BOOLEAN
    /\ pc \in {"created", "returned", "idle", "name", "objects", "signals",
               "properties", "attach", "crashed"}
    /\ posted \in BOOLEAN
    /\ todo \in SUBSET (Objects \cup Listeners)
    /\ entry \in [Objects -> [Names -> Versions]]
    /\ dirty \in SUBSET Objects
    /\ context \in SUBSET Objects
    /\ slot \in [Objects -> 0 .. MaxConnects]
    /\ vtable \in [Objects -> [Names -> Versions]]
    /\ known \in SUBSET Listeners
    /\ match \in [Listeners -> 0 .. MaxConnects]
    /\ wild \in SUBSET Signals
    /\ refused \in SUBSET Listeners

\* A session is created on a bus that can be opened or not; that its name is
\* refused is not looked at.
Init ==
    /\ daemon \in {"up", "down"}
    /\ bus = IF daemon = "up" THEN "open" ELSE "none"
    /\ conn = IF bus = "open" THEN 1 ELSE 0
    /\ attached = FALSE
    /\ watched = FALSE
    /\ owned \in IF Named /\ bus = "open" THEN BOOLEAN ELSE {FALSE}
    /\ pc = "created"
    /\ posted = FALSE
    /\ todo = {}
    /\ entry = [o \in Objects |-> Empty]
    /\ dirty = {}
    /\ context = {}
    /\ slot = [o \in Objects |-> 0]
    /\ vtable = [o \in Objects |-> Empty]
    /\ known = {}
    /\ match = [l \in Listeners |-> 0]
    /\ wild = {}
    /\ refused = {}

-----------------------------------------------------------------------------
\* The keys of mRegisteredObjects.
Registered == {o \in Objects : entry[o] # Empty}

\* sd-bus takes the vtable of an object: the connection need not be alive.
Accepted(o) ==
    bus # "none" /\ \A n \in Names : entry[o][n] # 0 => <<o, n>> \notin BadEntries

\* RawBus::listenSignal(): the connection the match rule is held on, 0 when it
\* could not be set: always on a lost connection, and on one that is alive when
\* the name is invalid or the daemon refuses or does not answer.  A shadowed
\* variable makes each of these failures a success to the caller.
MatchRules == IF bus = "open" THEN {conn, 0} ELSE {0}

SetMatch(l, rule) ==
    /\ match' = [match EXCEPT ![l] = rule]
    /\ refused' = IF rule = 0 /\ bus = "open" THEN refused \cup {l} ELSE refused

\* User code of the session runs before run() and in the tasks of the loop.
UserRuns == pc \in {"created", "idle"}

-----------------------------------------------------------------------------
(* Mutated steps: plausible mistakes in the code, which the properties must *)
(* tell from the steps below.  They are no part of the specification.       *)

\* Mutant of Commit: the old vtable is replaced when the new one was taken.
CommitInPlace(o) ==
    /\ UserRuns
    /\ o \in Registered
    /\ dirty' = dirty \ {o}
    /\ IF Accepted(o)
       THEN /\ slot' = [slot EXCEPT ![o] = conn]
            /\ vtable' = [vtable EXCEPT ![o] = entry[o]]
            /\ context' = context \cup {o}
       ELSE UNCHANGED <<slot, vtable, context>>
    /\ UNCHANGED <<busVars, loopVars, entry, listenerVars>>

\* Mutant of StartReconnect: the slots of the listeners are not released.
ReconnectKeepsSlots ==
    /\ pc = "idle"
    /\ posted
    /\ posted' = FALSE
    /\ attached' = FALSE
    /\ watched' = FALSE
    /\ owned' = FALSE
    /\ IF Registered \subseteq context
       THEN /\ slot' = [o \in Objects |-> 0]
            /\ vtable' = [o \in Objects |-> Empty]
            /\ IF daemon = "up"
               THEN bus' = "open" /\ conn' = conn + 1 /\ pc' = "name"
               ELSE bus' = "none" /\ UNCHANGED conn /\ pc' = "idle"
       ELSE /\ pc' = "crashed"
            /\ UNCHANGED <<slot, vtable, bus, conn>>
    /\ UNCHANGED <<daemon, todo, entry, dirty, context, listenerVars>>

\* Mutant of PublishAgain: an object that is refused is passed over.
PublishPast(o) ==
    /\ pc = "objects"
    /\ o \in todo
    /\ todo' = todo \ {o}
    /\ IF Accepted(o)
       THEN /\ slot' = [slot EXCEPT ![o] = conn]
            /\ vtable' = [vtable EXCEPT ![o] = entry[o]]
       ELSE UNCHANGED <<slot, vtable>>
    /\ UNCHANGED <<busVars, attached, watched, pc, posted, entry, dirty, context,
                   listenerVars>>

\* Mutant of PublishAgain: an object with entries not yet committed is an error.
PublishCommitted(o) ==
    /\ pc = "objects"
    /\ o \in todo
    /\ IF Accepted(o) /\ o \notin dirty
       THEN /\ slot' = [slot EXCEPT ![o] = conn]
            /\ vtable' = [vtable EXCEPT ![o] = entry[o]]
            /\ todo' = todo \ {o}
            /\ UNCHANGED pc
       ELSE /\ pc' = "idle"
            /\ todo' = {}
            /\ UNCHANGED <<slot, vtable>>
    /\ UNCHANGED <<busVars, attached, watched, posted, entry, dirty, context,
                   listenerVars>>

\* Mutant of NextLoop: the watched properties are forgotten.
NextLoopForgets ==
    /\ todo = {}
    /\ \/ pc = "objects" /\ pc' = "signals" /\ todo' = known \cap Signals
       \/ pc = "signals" /\ pc' = "attach" /\ UNCHANGED todo
    /\ UNCHANGED <<busVars, attached, watched, posted, objectVars, listenerVars>>

\* Mutant of Attach: Disconnected is not listened to again.
AttachDeaf ==
    /\ pc = "attach"
    /\ pc' = "idle"
    /\ attached' = TRUE
    /\ UNCHANGED <<busVars, watched, posted, todo, objectVars, listenerVars>>

-----------------------------------------------------------------------------
(* Registration                                                            *)

\* addMethod(), addSignal() or addProperty() of a builder: a name that was
\* there gets new data, and what it had is released.
AddEntry(o, n) ==
    /\ UserRuns
    /\ entry[o][n] < MaxVersions
    /\ entry' = [entry EXCEPT ![o][n] = @ + 1]
    /\ dirty' = dirty \cup {o}
    /\ UNCHANGED <<busVars, loopVars, context, slot, vtable, listenerVars>>

\* commit(): the old vtable is withdrawn before the new one is offered.
Commit(o) ==
    /\ UserRuns
    /\ o \in Registered
    /\ dirty' = dirty \ {o}
    /\ IF Accepted(o)
       THEN /\ slot' = [slot EXCEPT ![o] = conn]
            /\ vtable' = [vtable EXCEPT ![o] = entry[o]]
            /\ context' = context \cup {o}
       ELSE /\ slot' = [slot EXCEPT ![o] = 0]
            /\ vtable' = [vtable EXCEPT ![o] = Empty]
            /\ UNCHANGED context
    /\ UNCHANGED <<busVars, loopVars, entry, listenerVars>>

\* listenSignal(): when the rule cannot be set, the error is lost, and the
\* listener is kept with a slot taken from a pointer that was never set.
ListenSignal(l) ==
    /\ UserRuns
    /\ l \in Signals \ known
    /\ known' = known \cup {l}
    /\ \E rule \in MatchRules :
          /\ SetMatch(l, rule)
          /\ wild' \in IF rule = 0 THEN {wild, wild \cup {l}} ELSE {wild}
    /\ UNCHANGED <<busVars, loopVars, objectVars>>

\* onRemotePropertyChanged() on a key that is not watched yet: the same, with a
\* pointer that is set to null before.
WatchProperty(w) ==
    /\ UserRuns
    /\ w \in Watches \ known
    /\ known' = known \cup {w}
    /\ \E rule \in MatchRules : SetMatch(w, rule)
    /\ UNCHANGED <<busVars, loopVars, objectVars, wild>>

-----------------------------------------------------------------------------
(* The bus daemon                                                          *)

DaemonStops ==
    /\ daemon = "up"
    /\ conn < MaxConnects
    /\ daemon' = "down"
    /\ bus' = IF bus = "open" THEN "lost" ELSE bus
    /\ owned' = FALSE
    /\ UNCHANGED <<conn, loopVars, objectVars, listenerVars>>

DaemonStarts ==
    /\ daemon = "down"
    /\ daemon' = "up"
    /\ UNCHANGED <<bus, conn, owned, loopVars, objectVars, listenerVars>>

-----------------------------------------------------------------------------
(* run(), Disconnected and doReconnect(), on the loop thread               *)

\* run() listens to Disconnected and attaches the bus; the rule of a local signal
\* is never sent to the daemon, so that it is set whatever became of it.
Run ==
    /\ pc = "created"
    /\ IF bus = "none"
       THEN /\ pc' = "returned"
            /\ UNCHANGED <<attached, watched>>
       ELSE /\ pc' = "idle"
            /\ attached' = TRUE
            /\ watched' = TRUE
    /\ UNCHANGED <<busVars, posted, todo, objectVars, listenerVars>>

\* sd-bus finds the connection gone and says so, once.
Disconnected ==
    /\ pc = "idle"
    /\ attached
    /\ bus = "lost"
    /\ bus' = "dead"
    /\ posted' = (posted \/ watched)
    /\ UNCHANGED <<daemon, conn, owned, attached, watched, pc, todo, objectVars,
                   listenerVars>>

\* doReconnect() releases the slots, of which a context that was never made or
\* an uninitialized pointer brings the process down, closes the bus and opens
\* it again.  When that fails it returns, and nothing calls it again.
StartReconnect ==
    /\ pc = "idle"
    /\ posted
    /\ posted' = FALSE
    /\ attached' = FALSE
    /\ watched' = FALSE
    /\ owned' = FALSE
    /\ IF Registered \subseteq context /\ wild = {}
       THEN /\ slot' = [o \in Objects |-> 0]
            /\ vtable' = [o \in Objects |-> Empty]
            /\ match' = [l \in Listeners |-> 0]
            /\ refused' = {}
            /\ IF daemon = "up"
               THEN bus' = "open" /\ conn' = conn + 1 /\ pc' = "name"
               ELSE bus' = "none" /\ UNCHANGED conn /\ pc' = "idle"
       ELSE /\ pc' = "crashed"
            /\ UNCHANGED <<slot, vtable, match, refused, bus, conn>>
    /\ UNCHANGED <<daemon, todo, entry, dirty, context, known, wild>>

\* requestNameToDaemon(), if the session has a name.
RequestName ==
    /\ pc = "name"
    /\ \/ /\ Named => bus = "open"
          /\ owned' = Named
          /\ pc' = "objects"
          /\ todo' = Registered
       \/ /\ Named
          /\ pc' = "idle"
          /\ UNCHANGED <<owned, todo>>
    /\ UNCHANGED <<daemon, bus, conn, attached, watched, posted, objectVars,
                   listenerVars>>

\* The next object of the map, in whatever order it is.  The first that is
\* refused ends doReconnect().
PublishAgain(o) ==
    /\ pc = "objects"
    /\ o \in todo
    /\ IF Accepted(o)
       THEN /\ slot' = [slot EXCEPT ![o] = conn]
            /\ vtable' = [vtable EXCEPT ![o] = entry[o]]
            /\ todo' = todo \ {o}
            /\ UNCHANGED pc
       ELSE /\ pc' = "idle"
            /\ todo' = {}
            /\ UNCHANGED <<slot, vtable>>
    /\ UNCHANGED <<busVars, attached, watched, posted, entry, dirty, context,
                   listenerVars>>

\* The next listener; a match rule that is refused goes unnoticed here as well.
ListenAgain(l) ==
    /\ pc \in {"signals", "properties"}
    /\ l \in todo
    /\ todo' = todo \ {l}
    /\ \E rule \in MatchRules : SetMatch(l, rule)
    /\ UNCHANGED <<busVars, attached, watched, pc, posted, objectVars, known, wild>>

\* One loop of reconnectSession is done, and the next begins.
NextLoop ==
    /\ todo = {}
    /\ \/ pc = "objects" /\ pc' = "signals" /\ todo' = known \cap Signals
       \/ pc = "signals" /\ pc' = "properties" /\ todo' = known \cap Watches
       \/ pc = "properties" /\ pc' = "attach" /\ UNCHANGED todo
    /\ UNCHANGED <<busVars, attached, watched, posted, objectVars, listenerVars>>

\* The bus is attached to the loop, and Disconnected listened to again.
Attach ==
    /\ pc = "attach"
    /\ pc' = "idle"
    /\ attached' = TRUE
    /\ watched' = TRUE
    /\ UNCHANGED <<busVars, posted, todo, objectVars, listenerVars>>

-----------------------------------------------------------------------------
Reconnecting ==
    \/ StartReconnect \/ RequestName
    \/ \E o \in Objects : PublishAgain(o)
    \/ \E l \in Listeners : ListenAgain(l)
    \/ NextLoop \/ Attach

Next ==
    \/ \E o \in Objects : (\E n \in Names : AddEntry(o, n)) \/ Commit(o)
    \/ \E l \in Signals : ListenSignal(l)
    \/ \E w \in Watches : WatchProperty(w)
    \/ DaemonStops \/ DaemonStarts
    \/ Run \/ Disconnected
    \/ Reconnecting

Spec == Init /\ [][Next]_vars

\* The loop thread dispatches what sd-bus has to say and runs the task that is
\* posted, as shown of module Looper, and goes on inside it.
Fairness == WF_vars(Disconnected) /\ WF_vars(Reconnecting)

FairSpec == Spec /\ Fairness
-----------------------------------------------------------------------------
(* Properties                                                              *)

\* sd-bus never holds a vtable that refers to data which a later registration
\* has released, once the builder has committed, whether commit() succeeded or
\* not ("heap-use-after-free", SessionPrivate.cpp, commitBuilder()).
PublishedDataAlive ==
    \A o \in Objects \ dirty : slot[o] # 0 => vtable[o] = entry[o]

\* Every slot is of the connection the session has now: none outlives the bus it
\* was made on ("Clear all slots", SessionPrivate::reconnect()).
SlotsOfThisBus ==
    /\ \A o \in Objects : slot[o] \in {0, conn}
    /\ \A l \in Listeners : match[l] \in {0, conn}
    /\ bus = "none" =>
          \A o \in Objects, l \in Listeners : slot[o] = 0 /\ match[l] = 0

\* Although no failure to set a rule is ever reported, no listener is lost for
\* good: while the bus is attached and its connection alive, the only ones not
\* heard are those refused on this very connection.  A listener refused earlier,
\* or registered while the connection was lost, was asked for once more.
DeafOnlyIfRefused ==
    attached /\ bus = "open" => \A l \in known : match[l] = conn \/ l \in refused

\* A loop that runs without a bus was left so by a reconnection that found no
\* daemon, did not get the service name, or met an object sd-bus refuses.
GivesUpForAReason ==
    pc = "idle" /\ ~attached =>
        \/ bus = "none"
        \/ Named /\ ~owned
        \/ \E o \in Registered : ~Accepted(o)

\* doReconnect() attaches the new bus only when all that was registered is
\* there again with its current data, and, unless the connection is lost once
\* more, when the name is owned and every listener was asked for: it is heard, or
\* its rule was refused, which reconnectSession cannot tell from a success.
ReconnectIsComplete ==
    [][pc = "attach" /\ pc' = "idle" =>
          /\ \A o \in Registered : slot'[o] = conn' /\ vtable'[o] = entry'[o]
          /\ bus' = "open" =>
                /\ \A l \in known : match'[l] = conn' \/ l \in refused'
                /\ owned' = Named]_vars

\* A lost connection of an attached bus is noticed, the second and the third as
\* well as the first: the session tries to connect again.
LossIsNoticed ==
    attached /\ bus = "lost" ~> bus \in {"open", "none"} \/ pc = "crashed"

-----------------------------------------------------------------------------
(* What the documentation says and the code does not do                    *)

\* "automatic reconnection on disconnect" (README.en.md): when the daemon is back
\* for good, the session is back on the bus.
ComesBack ==
    <>[](daemon = "up") =>
        (attached /\ bus = "lost" ~> (attached /\ bus = "open") \/ pc = "crashed")

\* "SUCCESS: Operation succeeded" (Status.en.md), of signal subscriptions too: a
\* listener that was accepted is heard while the bus is attached and alive.
HeardWhileConnected ==
    attached /\ bus = "open" => \A l \in known : match[l] = conn
=============================================================================
