----------------------------- MODULE Properties -----------------------------
(***************************************************************************)
(* A property on its way from its owner to a watcher: PropertyWrapper::set *)
(* (private/method/Method.hpp) with its local observer, the signal         *)
(* PropertiesChanged, and PropertyHandler::onPropertyChanged               *)
(* (private/message/PropertyHandler.cpp) with the callbacks of a client.   *)
(* A value is the number of the assignment that made it. The owner is the  *)
(* library's server or a foreign one, which may put several properties in  *)
(* a signal and may invalidate a property instead of sending its value.    *)
(***************************************************************************)
EXTENDS Integers, Sequences, FiniteSets

CONSTANTS Names,        \* the properties of one object
          Mistyped,     \* those whose watcher expects another type than is sent
          MaxValue,     \* bound: assignments to a property
          MaxDepth,     \* bound: calls of set() inside one another
          MaxWire       \* bound: signals under way

ASSUME NamesAssumption == Mistyped \subseteq Names /\ IsFiniteSet(Names)
ASSUME BoundsAssumption == MaxValue \in Nat \ {0} /\ MaxDepth \in Nat /\ MaxWire \in Nat

VARIABLES foreign,      \* whether the owner is not the library's server
          value,        \* PropertyWrapper::prop
          frames,       \* the calls of set() that have not returned, innermost last
          connected,    \* whether the bus carries messages
          wire,         \* the signals on their way, or queued by the watcher's bus
          watched,      \* PropertyHandler::callbacks
          step,         \* where onPropertyChanged() is
          msg,          \* the signal it reads
          answer,       \* the value in the reply to Properties.Get
          seen,         \* what the watcher of a property was told last
          missed        \* the properties whose current value was lost on the way

serverVars == <<foreign, value, frames>>
clientVars == <<watched, step, msg, answer, seen>>
vars == <<serverVars, connected, wire, clientVars, missed>>

Nothing == 0            \* no value: the first assignment is number one
Signal == [changed : Seq([name : Names, value : 1..MaxValue]), invalid : Seq(Names)]
NoSignal == [changed |-> <<>>, invalid |-> <<>>]
Entry(n, v) == [name |-> n, value |-> v]
\* The names in a signal.
Mentioned(s) == {s.changed[k].name : k \in DOMAIN s.changed} \union {s.invalid[k] : k \in DOMAIN s.invalid}

TypeOK ==
    /\ foreign \in BOOLEAN /\ connected \in BOOLEAN
    /\ value \in [Names -> 1..MaxValue]
    /\ frames \in Seq([name : Names, arg : 1..MaxValue, told : BOOLEAN])
    /\ wire \in Seq(Signal)
    /\ watched \subseteq Names /\ missed \subseteq Names
    /\ step \in {"idle", "changed", "invalid", "get"}
    /\ msg \in Signal
    /\ answer \in 0..MaxValue
    /\ seen \in [Names -> 0..MaxValue]

Init ==
    /\ foreign \in BOOLEAN
    /\ value = [n \in Names |-> 1]
    /\ frames = <<>> /\ connected = TRUE /\ wire = <<>> /\ watched = {}
    /\ step = "idle" /\ msg = NoSignal /\ answer = Nothing
    /\ seen = [n \in Names |-> Nothing] /\ missed = {}

-----------------------------------------------------------------------------
\* The owner is the library's server: everything runs on its loop thread.
Top == frames[Len(frames)]
SetTop(f) == [frames EXCEPT ![Len(frames)] = f]
Pop == SubSeq(frames, 1, Len(frames) - 1)
Send(s) ==
    IF connected THEN Len(wire) < MaxWire /\ wire' = Append(wire, s) /\ UNCHANGED missed
    ELSE wire' = wire /\ missed' = missed \union Mentioned(s)

\* set() with a new value: from a remote Set, from setProperty(), or from the observer
\* of a call that is running. One with the value it has returns at once.
Set(n) ==
    /\ ~foreign /\ Len(frames) < MaxDepth /\ value[n] < MaxValue
    /\ frames # <<>> => Top.told
    /\ value' = [value EXCEPT ![n] = @ + 1]
    /\ frames' = Append(frames, [name |-> n, arg |-> value[n] + 1, told |-> FALSE])
    /\ UNCHANGED <<foreign, connected, wire, clientVars, missed>>

\* onChange(prop); what the observer does next is a Set or nothing.
Observe ==
    /\ frames # <<>> /\ ~Top.told
    /\ frames' = SetTop([Top EXCEPT !.told = TRUE])
    /\ UNCHANGED <<foreign, value, connected, wire, clientVars, missed>>

\* Faulty variant for the mutants: the signal carries what this call was asked to set.
EmitArgument ==
    /\ frames # <<>> /\ Top.told
    /\ Send([NoSignal EXCEPT !.changed = <<Entry(Top.name, Top.arg)>>])
    /\ frames' = Pop
    /\ UNCHANGED <<foreign, value, connected, clientVars>>
\* sd_bus_emit_properties_changed(), which asks the getter for the value; its result
\* is not looked at.
Emit ==
    /\ frames # <<>> /\ Top.told
    /\ Send([NoSignal EXCEPT !.changed = <<Entry(Top.name, value[Top.name])>>])
    /\ frames' = Pop
    /\ UNCHANGED <<foreign, value, connected, clientVars>>

\* Another implementation changes some properties and tells of all in one signal.
ForeignChange(names, order) ==
    LET new == [n \in Names |-> IF n \in names THEN value[n] + 1 ELSE value[n]]
        sent == [k \in DOMAIN order.changed |-> Entry(order.changed[k], new[order.changed[k]])]
    IN  /\ foreign /\ \A n \in names : value[n] < MaxValue
        /\ value' = new
        /\ Send([changed |-> sent, invalid |-> order.invalid])
        /\ UNCHANGED <<foreign, frames, connected, clientVars>>

\* The ways to order the names of a signal: each stands once, changed or invalidated.
Orders(names) ==
    LET lists(s) == {q \in [1..Cardinality(s) -> s] : \A i, j \in 1..Cardinality(s) : q[i] = q[j] => i = j}
    IN  UNION {[changed : lists(c), invalid : lists(names \ c)] : c \in SUBSET names}

-----------------------------------------------------------------------------
\* The watcher. onPropertyChanged() of a client, in its loop thread or in a callback.
Watch(n) ==
    /\ n \notin watched
    /\ watched' = watched \union {n}
    /\ UNCHANGED <<serverVars, connected, wire, step, msg, answer, seen, missed>>

Dispatch ==
    /\ step = "idle" /\ wire # <<>>
    /\ wire' = Tail(wire)
    /\ IF watched = {} THEN UNCHANGED <<step, msg>> ELSE step' = "changed" /\ msg' = Head(wire)
    /\ UNCHANGED <<serverVars, connected, watched, answer, seen, missed>>

\* The callback of n is called with v.
Tell(n, v) ==
    /\ seen' = [seen EXCEPT ![n] = v]
    /\ missed' = IF v = value[n] THEN missed \ {n} ELSE missed

\* The next entry of the dictionary.
Known == Head(msg.changed).name \in watched
Rest == [msg EXCEPT !.changed = Tail(@)]
EntryTold ==
    /\ step = "changed" /\ msg.changed # <<>> /\ Known /\ Head(msg.changed).name \notin Mistyped
    /\ Tell(Head(msg.changed).name, Head(msg.changed).value)
    /\ msg' = Rest
    /\ UNCHANGED <<serverVars, connected, wire, watched, step, answer>>
\* Faulty variant for the mutants: the value of an unknown property is left where it is,
\* and the loop ends as it does after a mistyped one.
EntryLeft ==
    /\ step = "changed" /\ msg.changed # <<>> /\ ~Known
    /\ step' = "idle" /\ msg' = NoSignal
    /\ UNCHANGED <<serverVars, connected, wire, watched, answer, seen, missed>>
EntrySkipped ==
    /\ step = "changed" /\ msg.changed # <<>> /\ ~Known
    /\ msg' = Rest
    /\ UNCHANGED <<serverVars, connected, wire, watched, step, answer, seen, missed>>
\* The value cannot be read as what the callback takes; it stays where it is, so the
\* entry cannot be left, the loop ends, and the list behind it cannot be entered either.
EntryMistyped ==
    /\ step = "changed" /\ msg.changed # <<>> /\ Known /\ Head(msg.changed).name \in Mistyped
    /\ missed' = missed \union Mentioned(msg)
    /\ step' = "idle" /\ msg' = NoSignal
    /\ UNCHANGED <<serverVars, connected, wire, watched, answer, seen>>
EntriesDone ==
    /\ step = "changed" /\ msg.changed = <<>>
    /\ step' = "invalid"
    /\ UNCHANGED <<serverVars, connected, wire, watched, msg, answer, seen, missed>>

\* The next invalidated property: one that is watched is fetched, and the loop waits.
Fetch ==
    /\ step = "invalid" /\ msg.invalid # <<>>
    /\ IF Head(msg.invalid) \in watched THEN step' = "get" /\ UNCHANGED msg
       ELSE msg' = [msg EXCEPT !.invalid = Tail(@)] /\ UNCHANGED step
    /\ UNCHANGED <<serverVars, connected, wire, watched, answer, seen, missed>>
InvalidDone ==
    /\ step = "invalid" /\ msg.invalid = <<>>
    /\ step' = "idle"
    /\ UNCHANGED <<serverVars, connected, wire, watched, msg, answer, seen, missed>>
\* The owner answers; signals that are under way do not delay the reply.
Serve ==
    /\ step = "get" /\ answer = Nothing /\ connected
    /\ answer' = value[Head(msg.invalid)]
    /\ UNCHANGED <<serverVars, connected, wire, watched, step, msg, seen, missed>>
Fetched ==
    LET n == Head(msg.invalid)
    IN  /\ step = "get" /\ answer # Nothing
        /\ IF n \in Mistyped THEN UNCHANGED <<seen, missed>> ELSE Tell(n, answer)
        /\ step' = "invalid" /\ msg' = [msg EXCEPT !.invalid = Tail(@)] /\ answer' = Nothing
        /\ UNCHANGED <<serverVars, connected, wire, watched>>
\* An error, a timeout, or no connection: the callback cannot read a value.
FetchFails ==
    /\ step = "get" /\ answer = Nothing
    /\ missed' = missed \union {Head(msg.invalid)}
    /\ step' = "invalid" /\ msg' = [msg EXCEPT !.invalid = Tail(@)]
    /\ UNCHANGED <<serverVars, connected, wire, watched, answer, seen>>

-----------------------------------------------------------------------------
\* The daemon goes, with what it has not delivered, and comes back; nobody sends a
\* signal or asks for a value again.
Disconnect ==
    /\ connected /\ connected' = FALSE
    /\ wire' = <<>>
    /\ missed' = missed \union UNION {Mentioned(wire[k]) : k \in DOMAIN wire}
    /\ UNCHANGED <<serverVars, clientVars>>
Reconnect ==
    /\ ~connected /\ connected' = TRUE
    /\ UNCHANGED <<serverVars, wire, clientVars, missed>>

Owner == (\E n \in Names : Set(n)) \/ Observe \/ Emit
Foreign == \E names \in SUBSET Names \ {{}} : \E order \in Orders(names) : ForeignChange(names, order)
Handler ==
    \/ Dispatch \/ EntryTold \/ EntrySkipped \/ EntryMistyped \/ EntriesDone
    \/ Fetch \/ InvalidDone \/ Serve \/ Fetched \/ FetchFails
Next == \/ Owner \/ Foreign \/ (\E n \in Names : Watch(n)) \/ Handler \/ Disconnect \/ Reconnect

Spec == Init /\ [][Next]_vars

-----------------------------------------------------------------------------
Quiet == frames = <<>> /\ wire = <<>> /\ step = "idle"
(* A watcher that is told of a property at all ends with its value: when     *)
(* nothing is under way, what its callback was last called with is what the  *)
(* owner has, unless the signal was lost with the connection, was behind a   *)
(* mistyped entry, or could not be fetched. Nested calls of set(), signals   *)
(* with several properties and fetches that overtake signals included        *)
(* (PropertyHandler.cpp:61-109, Method.hpp:179-193).                         *)
SeenIsCurrent ==
    Quiet => \A n \in watched \ Mistyped : n \in missed \/ seen[n] \in {Nothing, value[n]}

(* The watchers of a server of this library never see a property go back to  *)
(* an older value, however the calls of set() are nested: a signal carries   *)
(* what the property is when it is sent.                                     *)
NeverBackwards == [][~foreign => \A n \in Names : seen'[n] >= seen[n]]_vars
=============================================================================
