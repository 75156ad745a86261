-------------------------- MODULE PropertiesProofs --------------------------
(***************************************************************************)
(* Theorems about module Properties, for any properties, any values and    *)
(* any depth of nested calls.  The watchers of a server of the library see *)
(* its values in the order they were set, and the watchers of any owner    *)
(* end with its current values, or with a property they know was missed.   *)
(***************************************************************************)
EXTENDS Properties, SequenceTheorems, FiniteSetTheorems, TLAPS

-----------------------------------------------------------------------------
(* The inductive invariant                                                 *)

\* A signal of the library tells of one property.
LibSignal == {[changed |-> <<Entry(n, v)>>, invalid |-> <<>>] : n \in Names, v \in Nat}
NameOf(s) == s.changed[1].name
ValueOf(s) == s.changed[1].value
Frame == [name : Names, arg : Nat, told : BOOLEAN]

LibTypes ==
    /\ value \in [Names -> Nat] /\ seen \in [Names -> Nat]
    /\ frames \in Seq(Frame)
    /\ wire \in Seq(LibSignal)
    /\ msg \in LibSignal \union {NoSignal}
    /\ step # "get"

\* What the watcher saw, what it reads, what is under way and what the property is
\* are in this order.
SeenInv == \A n \in Names : seen[n] <= value[n]
MsgInv ==
    msg # NoSignal =>
        /\ seen[NameOf(msg)] <= ValueOf(msg) /\ ValueOf(msg) <= value[NameOf(msg)]
        /\ \A i \in 1..Len(wire) : NameOf(wire[i]) = NameOf(msg) => ValueOf(msg) <= ValueOf(wire[i])
WireInv ==
    \A i \in 1..Len(wire) :
        /\ seen[NameOf(wire[i])] <= ValueOf(wire[i]) /\ ValueOf(wire[i]) <= value[NameOf(wire[i])]
        /\ \A j \in 1..Len(wire) : i < j /\ NameOf(wire[i]) = NameOf(wire[j])
                                      => ValueOf(wire[i]) <= ValueOf(wire[j])

OrderInv == ~foreign => LibTypes /\ SeenInv /\ MsgInv /\ WireInv

-----------------------------------------------------------------------------
LEMMA LibSignalFacts ==
    ASSUME NEW s \in LibSignal
    PROVE  /\ NameOf(s) \in Names /\ ValueOf(s) \in Nat
           /\ s.invalid = <<>> /\ s.changed = <<Entry(NameOf(s), ValueOf(s))>>
           /\ Head(s.changed) = Entry(NameOf(s), ValueOf(s)) /\ Tail(s.changed) = <<>>
           /\ [s EXCEPT !.changed = Tail(@)] = NoSignal /\ s # NoSignal
  <1>1. PICK n \in Names, v \in Nat : s = [changed |-> <<Entry(n, v)>>, invalid |-> <<>>]
    BY DEF LibSignal
  <1>2. s.changed = <<Entry(n, v)>> /\ s.invalid = <<>>
    BY <1>1
  <1>3. s.changed[1] = Entry(n, v) /\ Head(s.changed) = Entry(n, v) /\ Tail(s.changed) = <<>>
    BY <1>2
  <1>4. NameOf(s) = n /\ ValueOf(s) = v
    BY <1>3 DEF NameOf, ValueOf, Entry
  <1>5. [s EXCEPT !.changed = Tail(@)] = NoSignal
    BY <1>1, <1>3 DEF NoSignal
  <1>6. s # NoSignal
    BY <1>2 DEF NoSignal
  <1> QED
    BY <1>2, <1>3, <1>4, <1>5, <1>6

LEMMA InitiallyOrdered == Init => OrderInv
  <1> SUFFICES ASSUME Init PROVE LibTypes /\ SeenInv /\ MsgInv /\ WireInv
    BY DEF OrderInv
  <1>1. LibTypes
    BY DEF Init, LibTypes, Nothing
  <1>2. SeenInv /\ MsgInv /\ WireInv
    BY DEF Init, SeenInv, MsgInv, WireInv, Nothing
  <1> QED
    BY <1>1, <1>2

\* Steps that change neither the values nor what is seen, under way or read.
LEMMA QuietStep ==
    ASSUME LibTypes, SeenInv, MsgInv, WireInv,
           UNCHANGED <<value, seen, wire, msg>>, frames' \in Seq(Frame), step' # "get"
    PROVE  (LibTypes /\ SeenInv /\ MsgInv /\ WireInv)'
  BY DEF LibTypes, SeenInv, MsgInv, WireInv

-----------------------------------------------------------------------------
(* The owner                                                               *)

LEMMA SetStep ==
    ASSUME LibTypes, SeenInv, MsgInv, WireInv, NEW n \in Names, Set(n)
    PROVE  (LibTypes /\ SeenInv /\ MsgInv /\ WireInv)'
  <1>1. /\ value \in [Names -> Nat] /\ value' = [value EXCEPT ![n] = value[n] + 1]
        /\ frames' = Append(frames, [name |-> n, arg |-> value[n] + 1, told |-> FALSE])
        /\ UNCHANGED <<wire, msg, seen, step>>
    BY DEF LibTypes, Set, clientVars
  <1>2. value' \in [Names -> Nat] /\ \A m \in Names : value[m] <= value'[m]
    BY <1>1
  <1>3. frames' \in Seq(Frame)
    <2>1. [name |-> n, arg |-> value[n] + 1, told |-> FALSE] \in Frame
      BY <1>1 DEF Frame
    <2> QED
      BY <1>1, <2>1 DEF LibTypes
  <1>4. LibTypes'
    BY <1>1, <1>2, <1>3 DEF LibTypes
  <1>5. SeenInv'
    BY <1>1, <1>2 DEF SeenInv, LibTypes
  <1>6. MsgInv'
    <2> SUFFICES ASSUME msg # NoSignal
                 PROVE  /\ seen[NameOf(msg)] <= ValueOf(msg) /\ ValueOf(msg) <= value'[NameOf(msg)]
                        /\ \A i \in 1..Len(wire) :
                              NameOf(wire[i]) = NameOf(msg) => ValueOf(msg) <= ValueOf(wire[i])
      BY <1>1 DEF MsgInv
    <2>1. NameOf(msg) \in Names /\ ValueOf(msg) \in Nat
      BY LibSignalFacts DEF LibTypes
    <2> QED
      BY <1>1, <1>2, <2>1 DEF MsgInv
  <1>7. WireInv'
    <2>1. \A i \in 1..Len(wire) : NameOf(wire[i]) \in Names /\ ValueOf(wire[i]) \in Nat
      BY LibSignalFacts, ElementOfSeq DEF LibTypes
    <2> QED
      BY <1>1, <1>2, <2>1 DEF WireInv
  <1> QED
    BY <1>4, <1>5, <1>6, <1>7

LEMMA ObserveStep ==
    ASSUME LibTypes, SeenInv, MsgInv, WireInv, Observe
    PROVE  (LibTypes /\ SeenInv /\ MsgInv /\ WireInv)'
  <1>1. frames \in Seq(Frame) /\ frames # <<>>
    BY DEF LibTypes, Observe
  <1>2. Len(frames) \in 1..Len(frames) /\ Top \in Frame
    BY <1>1, EmptySeq, ElementOfSeq DEF Top
  <1>3. [Top EXCEPT !.told = TRUE] \in Frame
    BY <1>2 DEF Frame
  <1>4. frames' \in Seq(Frame)
    BY <1>1, <1>2, <1>3, ExceptSeq DEF Observe, SetTop
  <1> QED
    BY <1>4, QuietStep DEF Observe, clientVars, LibTypes

LEMMA EmitStep ==
    ASSUME LibTypes, SeenInv, MsgInv, WireInv, Emit
    PROVE  (LibTypes /\ SeenInv /\ MsgInv /\ WireInv)'
  <1>1. /\ frames \in Seq(Frame) /\ frames # <<>> /\ wire \in Seq(LibSignal)
        /\ value \in [Names -> Nat] /\ seen \in [Names -> Nat]
        /\ UNCHANGED <<value, seen, msg, step>> /\ frames' = Pop
    BY DEF LibTypes, Emit, clientVars
  <1>2. Len(frames) \in 1..Len(frames) /\ Top \in Frame
    BY <1>1, EmptySeq, ElementOfSeq DEF Top
  <1>3. frames' \in Seq(Frame)
    <2>1. \A i \in 1 .. Len(frames) - 1 : frames[i] \in Frame
      BY <1>1, ElementOfSeq
    <2> QED
      BY <1>1, <1>2, <2>1, SubSeqProperties DEF Pop
  <1> DEFINE n == Top.name
             s == [changed |-> <<Entry(n, value[n])>>, invalid |-> <<>>]
  <1>4. n \in Names /\ value[n] \in Nat
    BY <1>1, <1>2 DEF Frame
  <1>5. s \in LibSignal
    BY <1>4 DEF LibSignal
  <1>6. NameOf(s) = n /\ ValueOf(s) = value[n]
    BY DEF NameOf, ValueOf, Entry
  <1>7. wire' = wire \/ wire' = Append(wire, s)
    BY DEF Emit, Send, NoSignal
  <1> HIDE DEF n, s
  <1>8. CASE wire' = wire
    BY <1>1, <1>3, <1>8, QuietStep DEF LibTypes
  <1>9. CASE wire' = Append(wire, s)
    <2>1. /\ wire' \in Seq(LibSignal) /\ Len(wire') = Len(wire) + 1 /\ Len(wire) \in Nat
          /\ \A i \in 1..Len(wire) : wire'[i] = wire[i]
          /\ wire'[Len(wire) + 1] = s
      BY <1>1, <1>5, <1>9, AppendProperties
    <2>2. \A i \in 1..Len(wire) : NameOf(wire[i]) \in Names /\ ValueOf(wire[i]) \in Nat
      BY <1>1, LibSignalFacts, ElementOfSeq
    <2>3. \A i \in 1..Len(wire') : i \in 1..Len(wire) \/ i = Len(wire) + 1
      BY <2>1
    <2>4. LibTypes' /\ SeenInv'
      BY <1>1, <1>3, <2>1 DEF LibTypes, SeenInv
    <2>5. MsgInv'
      <3> SUFFICES ASSUME msg # NoSignal
                   PROVE  /\ seen[NameOf(msg)] <= ValueOf(msg) /\ ValueOf(msg) <= value[NameOf(msg)]
                          /\ \A i \in 1..Len(wire') :
                                NameOf(wire'[i]) = NameOf(msg) => ValueOf(msg) <= ValueOf(wire'[i])
        BY <1>1 DEF MsgInv
      <3> QED
        BY <1>6, <2>1, <2>3 DEF MsgInv
    <2>6. WireInv'
      <3> SUFFICES ASSUME NEW i \in 1..Len(wire')
                   PROVE  /\ seen[NameOf(wire'[i])] <= ValueOf(wire'[i])
                          /\ ValueOf(wire'[i]) <= value[NameOf(wire'[i])]
                          /\ \A j \in 1..Len(wire') : i < j /\ NameOf(wire'[i]) = NameOf(wire'[j])
                                => ValueOf(wire'[i]) <= ValueOf(wire'[j])
        BY <1>1 DEF WireInv
      <3>1. CASE i \in 1..Len(wire)
        <4>1. /\ wire'[i] = wire[i]
              /\ seen[NameOf(wire[i])] <= ValueOf(wire[i]) /\ ValueOf(wire[i]) <= value[NameOf(wire[i])]
              /\ \A j \in 1..Len(wire) : i < j /\ NameOf(wire[i]) = NameOf(wire[j])
                    => ValueOf(wire[i]) <= ValueOf(wire[j])
          BY <3>1, <2>1 DEF WireInv
        <4> QED
          BY <4>1, <1>6, <2>1, <2>3
      <3>2. CASE i = Len(wire) + 1
        <4>1. seen[n] <= value[n]
          BY <1>4 DEF SeenInv
        <4>2. \A j \in 1..Len(wire') : ~(i < j)
          BY <3>2, <2>1
        <4>3. value[n] <= value[n]
          BY <1>4
        <4> QED
          BY <3>2, <4>1, <4>2, <4>3, <1>6, <2>1
      <3> QED
        BY <3>1, <3>2, <2>3
    <2> QED
      BY <2>4, <2>5, <2>6
  <1> QED
    BY <1>7, <1>8, <1>9

-----------------------------------------------------------------------------
(* The watcher                                                             *)

LEMMA DispatchStep ==
    ASSUME LibTypes, SeenInv, MsgInv, WireInv, Dispatch
    PROVE  (LibTypes /\ SeenInv /\ MsgInv /\ WireInv)'
  <1>1. /\ wire \in Seq(LibSignal) /\ wire # <<>> /\ wire' = Tail(wire)
        /\ UNCHANGED <<value, seen, frames>>
        /\ \/ msg' = msg /\ step' = step
           \/ msg' = Head(wire) /\ step' = "changed"
    <2>1. wire \in Seq(LibSignal)
      BY DEF LibTypes
    <2>2. wire # <<>> /\ wire' = Tail(wire) /\ UNCHANGED <<value, seen, frames>>
      BY DEF Dispatch, serverVars
    <2>3. \/ msg' = msg /\ step' = step
          \/ msg' = Head(wire) /\ step' = "changed"
      BY DEF Dispatch
    <2> QED
      BY <2>1, <2>2, <2>3
  <1>2. /\ Head(wire) \in LibSignal /\ Head(wire) = wire[1] /\ wire' \in Seq(LibSignal)
        /\ Len(wire) \in Nat /\ 1 \in 1..Len(wire) /\ Len(wire') = Len(wire) - 1
        /\ \A i \in 1..Len(wire') : wire'[i] = wire[i + 1] /\ i + 1 \in 1..Len(wire)
    BY <1>1, HeadTailProperties, EmptySeq
  <1>3. LibTypes' /\ SeenInv'
    BY <1>1, <1>2 DEF LibTypes, SeenInv
  <1>4. WireInv'
    <2> SUFFICES ASSUME NEW i \in 1..Len(wire')
                 PROVE  /\ seen[NameOf(wire'[i])] <= ValueOf(wire'[i])
                        /\ ValueOf(wire'[i]) <= value[NameOf(wire'[i])]
                        /\ \A j \in 1..Len(wire') : i < j /\ NameOf(wire'[i]) = NameOf(wire'[j])
                              => ValueOf(wire'[i]) <= ValueOf(wire'[j])
      BY <1>1 DEF WireInv
    <2>1. /\ seen[NameOf(wire[i + 1])] <= ValueOf(wire[i + 1])
          /\ ValueOf(wire[i + 1]) <= value[NameOf(wire[i + 1])]
          /\ \A j \in 1..Len(wire) : i + 1 < j /\ NameOf(wire[i + 1]) = NameOf(wire[j])
                => ValueOf(wire[i + 1]) <= ValueOf(wire[j])
      BY <1>2 DEF WireInv
    <2>2. \A j \in 1..Len(wire') : i < j => i + 1 < j + 1
      BY <1>2
    <2> QED
      BY <1>2, <2>1, <2>2
  <1>5. MsgInv'
    <2>1. CASE msg' = msg /\ step' = step
      BY <2>1, <1>1, <1>2 DEF MsgInv
    <2>2. CASE msg' = Head(wire)
      <3>1. /\ seen[NameOf(wire[1])] <= ValueOf(wire[1]) /\ ValueOf(wire[1]) <= value[NameOf(wire[1])]
            /\ \A j \in 1..Len(wire) : 1 < j /\ NameOf(wire[1]) = NameOf(wire[j])
                  => ValueOf(wire[1]) <= ValueOf(wire[j])
        BY <1>2 DEF WireInv
      <3>2. \A i \in 1..Len(wire') : 1 < i + 1
        BY <1>2
      <3> QED
        BY <2>2, <3>1, <3>2, <1>1, <1>2 DEF MsgInv
    <2> QED
      BY <2>1, <2>2, <1>1
  <1> QED
    BY <1>3, <1>4, <1>5

\* An entry that is told, skipped or mistyped leaves nothing to read.
LEMMA EntryStep ==
    ASSUME LibTypes, SeenInv, MsgInv, WireInv, EntryTold \/ EntrySkipped \/ EntryMistyped
    PROVE  /\ (LibTypes /\ SeenInv /\ MsgInv /\ WireInv)'
           /\ \A n \in Names : seen'[n] >= seen[n]
  <1>1. msg \in LibSignal /\ msg.changed # <<>>
    BY DEF LibTypes, EntryTold, EntrySkipped, EntryMistyped, NoSignal
  <1> DEFINE n == NameOf(msg)
             v == ValueOf(msg)
  <1>2. /\ n \in Names /\ v \in Nat /\ msg # NoSignal
        /\ Head(msg.changed).name = n /\ Head(msg.changed).value = v /\ Rest = NoSignal
    <2>1. Head(msg.changed) = Entry(n, v)
      BY <1>1, LibSignalFacts
    <2>2. Head(msg.changed).name = n /\ Head(msg.changed).value = v
      BY <2>1 DEF Entry
    <2> QED
      BY <1>1, <2>2, LibSignalFacts DEF Rest
  <1>3. /\ UNCHANGED <<value, frames, wire>> /\ msg' = NoSignal
        /\ UNCHANGED step \/ step' = "idle"
        /\ UNCHANGED seen \/ seen' = [seen EXCEPT ![n] = v]
    BY <1>2 DEF EntryTold, EntrySkipped, EntryMistyped, Tell, serverVars
  <1>4. seen \in [Names -> Nat] /\ wire \in Seq(LibSignal)
    BY DEF LibTypes
  <1>5. /\ seen[n] <= v /\ v <= value[n]
        /\ \A i \in 1..Len(wire) : NameOf(wire[i]) = n => v <= ValueOf(wire[i])
    BY <1>2 DEF MsgInv
  <1> HIDE DEF n, v
  <1>6. seen' \in [Names -> Nat] /\ \A m \in Names : m # n => seen'[m] = seen[m]
    BY <1>2, <1>3, <1>4
  <1>7. seen'[n] = seen[n] \/ seen'[n] = v
    BY <1>2, <1>3, <1>4
  <1>8. LibTypes'
    BY <1>3, <1>6 DEF LibTypes
  <1>9. SeenInv'
    BY <1>3, <1>5, <1>6, <1>7 DEF SeenInv
  <1>10. MsgInv'
    BY <1>3 DEF MsgInv
  <1>11. WireInv'
    <2>1. \A i \in 1..Len(wire) : NameOf(wire[i]) \in Names
      BY <1>4, LibSignalFacts, ElementOfSeq
    <2> QED
      BY <1>3, <1>5, <1>6, <1>7, <2>1 DEF WireInv
  <1>12. \A m \in Names : seen'[m] >= seen[m]
    BY <1>2, <1>4, <1>5, <1>6, <1>7
  <1> QED
    BY <1>8, <1>9, <1>10, <1>11, <1>12

LEMMA ConnectionStep ==
    ASSUME LibTypes, SeenInv, MsgInv, WireInv, Disconnect \/ Reconnect
    PROVE  (LibTypes /\ SeenInv /\ MsgInv /\ WireInv)'
  <1>1. UNCHANGED <<value, seen, msg, frames, step>> /\ (wire' = wire \/ wire' = <<>>)
    BY DEF Disconnect, Reconnect, serverVars, clientVars
  <1>2. CASE wire' = wire
    BY <1>1, <1>2, QuietStep DEF LibTypes
  <1>3. CASE wire' = <<>>
    <2>1. LibTypes' /\ SeenInv'
      BY <1>1, <1>3 DEF LibTypes, SeenInv
    <2>2. MsgInv' /\ WireInv'
      BY <1>1, <1>3, EmptySeq DEF MsgInv, WireInv
    <2> QED
      BY <2>1, <2>2
  <1> QED
    BY <1>1, <1>2, <1>3

-----------------------------------------------------------------------------
LEMMA OrderStep ==
    ASSUME ~foreign, OrderInv, [Next]_vars
    PROVE  OrderInv' /\ \A n \in Names : seen'[n] >= seen[n]
  <1>0. LibTypes /\ SeenInv /\ MsgInv /\ WireInv
    BY DEF OrderInv
  <1>i. \/ msg = NoSignal
        \/ msg \in LibSignal
    BY <1>0 DEF LibTypes
  <1>a. msg.invalid = <<>>
    <2>1. NoSignal.invalid = <<>>
      BY DEF NoSignal
    <2> QED
      BY <1>i, <2>1, LibSignalFacts
  <1>b. seen \in [Names -> Nat] /\ frames \in Seq(Frame) /\ step # "get"
    BY <1>0 DEF LibTypes
  <1>c. UNCHANGED seen => \A n \in Names : seen'[n] >= seen[n]
    BY <1>b
  <1>1. ASSUME NEW n \in Names, Set(n) PROVE OrderInv' /\ UNCHANGED seen
    BY <1>0, <1>1, SetStep DEF OrderInv, Set, clientVars
  <1>2. CASE Observe
    BY <1>0, <1>2, <1>c, ObserveStep DEF OrderInv, Observe, clientVars
  <1>3. CASE Emit
    BY <1>0, <1>3, <1>c, EmitStep DEF OrderInv, Emit, clientVars
  <1>4. ASSUME NEW n \in Names, Watch(n) PROVE OrderInv' /\ UNCHANGED seen
    <2>1. UNCHANGED <<value, seen, wire, msg, frames, step>>
      BY <1>4 DEF Watch, serverVars
    <2> QED
      BY <2>1, <1>0, <1>b, QuietStep DEF OrderInv
  <1>5. CASE Dispatch
    BY <1>0, <1>5, <1>c, DispatchStep DEF OrderInv, Dispatch
  <1>6. CASE EntryTold \/ EntrySkipped \/ EntryMistyped
    BY <1>0, <1>6, EntryStep DEF OrderInv
  <1>7. CASE EntriesDone \/ InvalidDone
    <2>1. UNCHANGED <<value, seen, wire, msg, frames>> /\ step' # "get"
      BY <1>7 DEF EntriesDone, InvalidDone, serverVars
    <2> QED
      BY <2>1, <1>0, <1>b, <1>c, QuietStep DEF OrderInv
  <1>8. ~(Fetch \/ Serve \/ Fetched \/ FetchFails)
    BY <1>a, <1>b DEF Fetch, Serve, Fetched, FetchFails
  <1>9. ~Foreign
    BY DEF Foreign, ForeignChange
  <1>10. CASE Disconnect \/ Reconnect
    BY <1>0, <1>10, <1>c, ConnectionStep DEF OrderInv, Disconnect, Reconnect, clientVars
  <1>11. CASE UNCHANGED vars
    <2>1. UNCHANGED <<value, seen, wire, msg, frames, step>>
      BY <1>11 DEF vars, serverVars, clientVars
    <2> QED
      BY <2>1, <1>0, <1>b, <1>c, QuietStep DEF OrderInv
  <1> QED
    BY <1>1, <1>2, <1>3, <1>4, <1>5, <1>6, <1>7, <1>8, <1>9, <1>10, <1>11, <1>c
    DEF Next, Owner, Handler

LEMMA ForeignStays == [Next]_vars => foreign' = foreign
  BY DEF Next, Owner, Foreign, Handler, Set, Observe, Emit, ForeignChange, Watch, Dispatch,
         EntryTold, EntrySkipped, EntryMistyped, EntriesDone, Fetch, InvalidDone, Serve,
         Fetched, FetchFails, Disconnect, Reconnect, vars, serverVars

(* A watcher of a server of this library sees its values in the order they   *)
(* were set, however deep the server's observers call set() again: a signal  *)
(* carries what the property is when it is sent (Method.hpp:179-193).        *)
THEOREM ValuesInOrder == Spec => NeverBackwards
  <1>1. OrderInv /\ [Next]_vars => OrderInv'
    <2> SUFFICES ASSUME OrderInv, [Next]_vars, ~foreign' PROVE OrderInv'
      BY DEF OrderInv
    <2>1. ~foreign
      BY ForeignStays
    <2> QED
      BY <2>1, OrderStep
  <1>2. OrderInv /\ [Next]_vars => [~foreign => \A n \in Names : seen'[n] >= seen[n]]_vars
    BY OrderStep
  <1> QED
    BY <1>1, <1>2, InitiallyOrdered, PTL DEF Spec, NeverBackwards

-----------------------------------------------------------------------------
(* Signals                                                                 *)

Told == [name : Names, value : 1..MaxValue]

LEMMA SignalTyped ==
    ASSUME NEW s \in Signal
    PROVE  /\ s.changed \in Seq(Told) /\ s.invalid \in Seq(Names)
           /\ DOMAIN s.changed = 1..Len(s.changed) /\ DOMAIN s.invalid = 1..Len(s.invalid)
           /\ Len(s.changed) \in Nat /\ Len(s.invalid) \in Nat
           /\ Mentioned(s) \subseteq Names
           /\ \A n : n \in Mentioned(s) <=> \/ \E k \in 1..Len(s.changed) : s.changed[k].name = n
                                            \/ \E k \in 1..Len(s.invalid) : s.invalid[k] = n
  <1>1. s.changed \in Seq(Told) /\ s.invalid \in Seq(Names)
    BY DEF Signal, Told
  <1>2. /\ DOMAIN s.changed = 1..Len(s.changed) /\ DOMAIN s.invalid = 1..Len(s.invalid)
        /\ Len(s.changed) \in Nat /\ Len(s.invalid) \in Nat
    BY <1>1, LenProperties
  <1>3. \A k \in 1..Len(s.changed) : s.changed[k] \in Told
    BY <1>1, ElementOfSeq
  <1>4. \A k \in 1..Len(s.changed) : s.changed[k].name \in Names
    BY <1>3 DEF Told
  <1>5. \A k \in 1..Len(s.invalid) : s.invalid[k] \in Names
    BY <1>1, ElementOfSeq
  <1>6. \A n : n \in Mentioned(s) <=> \/ \E k \in 1..Len(s.changed) : s.changed[k].name = n
                                      \/ \E k \in 1..Len(s.invalid) : s.invalid[k] = n
    BY <1>2 DEF Mentioned
  <1>7. Mentioned(s) \subseteq Names
    BY <1>4, <1>5, <1>6
  <1> QED
    BY <1>1, <1>2, <1>6, <1>7

\* The elements of a list are its head and those of its tail.
LEMMA HeadOrTail ==
    ASSUME NEW S, NEW q \in Seq(S), q # <<>>
    PROVE  /\ Head(q) \in S /\ Tail(q) \in Seq(S) /\ 1 \in 1..Len(q) /\ q[1] = Head(q)
           /\ \A i \in 1..Len(Tail(q)) : i + 1 \in 1..Len(q) /\ Tail(q)[i] = q[i + 1]
           /\ \A i \in 1..Len(q) : i = 1 \/ (i - 1 \in 1..Len(Tail(q)) /\ Tail(q)[i - 1] = q[i])
  <1>1. /\ Head(q) \in S /\ Head(q) = q[1] /\ Tail(q) \in Seq(S) /\ Len(Tail(q)) = Len(q) - 1
        /\ \A i \in 1..Len(Tail(q)) : Tail(q)[i] = q[i + 1]
    BY HeadTailProperties
  <1>2. Len(q) \in Nat /\ Len(q) # 0
    BY LenProperties, EmptySeq
  <1> QED
    BY <1>1, <1>2

\* The signal without its first changed entry.
LEMMA RestOfSignal ==
    ASSUME NEW s \in Signal, s.changed # <<>>
    PROVE  LET r == [s EXCEPT !.changed = Tail(@)]
           IN  /\ r \in Signal /\ r.changed = Tail(s.changed) /\ r.invalid = s.invalid
               /\ Head(s.changed) \in Told
               /\ Mentioned(r) \subseteq Mentioned(s)
               /\ Mentioned(s) \subseteq Mentioned(r) \union {Head(s.changed).name}
  <1> DEFINE r == [s EXCEPT !.changed = Tail(@)]
  <1>1. s.changed \in Seq(Told)
    BY SignalTyped
  <1>2. r.changed = Tail(s.changed) /\ r.invalid = s.invalid
    BY DEF Signal
  <1>3. r \in Signal
    BY <1>1, HeadOrTail DEF Signal, Told
  <1>4. Head(s.changed) \in Told
    BY <1>1, HeadOrTail
  <1> HIDE DEF r
  <1>5. ASSUME NEW n \in Mentioned(r) PROVE n \in Mentioned(s)
    <2>1. CASE \E k \in 1..Len(r.changed) : r.changed[k].name = n
      BY <2>1, <1>1, <1>2, HeadOrTail, SignalTyped
    <2>2. CASE \E k \in 1..Len(r.invalid) : r.invalid[k] = n
      BY <2>2, <1>2, SignalTyped
    <2> QED
      BY <2>1, <2>2, <1>3, SignalTyped
  <1>6. ASSUME NEW n \in Mentioned(s), n # Head(s.changed).name PROVE n \in Mentioned(r)
    <2>1. CASE \E k \in 1..Len(s.changed) : s.changed[k].name = n
      <3>1. PICK k \in 1..Len(s.changed) : s.changed[k].name = n
        BY <2>1
      <3>2. k - 1 \in 1..Len(Tail(s.changed)) /\ Tail(s.changed)[k - 1] = s.changed[k]
        BY <3>1, <1>1, <1>6, HeadOrTail
      <3> QED
        BY <3>1, <3>2, <1>2, <1>3, SignalTyped
    <2>2. CASE \E k \in 1..Len(s.invalid) : s.invalid[k] = n
      BY <2>2, <1>2, <1>3, SignalTyped
    <2> QED
      BY <2>1, <2>2, SignalTyped
  <1> QED
    BY <1>2, <1>3, <1>4, <1>5, <1>6 DEF r

\* The signal without its first invalidated property.
LEMMA DropOfSignal ==
    ASSUME NEW s \in Signal, s.invalid # <<>>
    PROVE  LET r == [s EXCEPT !.invalid = Tail(@)]
           IN  /\ r \in Signal /\ r.changed = s.changed /\ r.invalid = Tail(s.invalid)
               /\ Head(s.invalid) \in Names
               /\ Mentioned(r) \subseteq Mentioned(s)
               /\ Mentioned(s) \subseteq Mentioned(r) \union {Head(s.invalid)}
  <1> DEFINE r == [s EXCEPT !.invalid = Tail(@)]
  <1>1. s.invalid \in Seq(Names)
    BY SignalTyped
  <1>2. r.changed = s.changed /\ r.invalid = Tail(s.invalid)
    BY DEF Signal
  <1>3. r \in Signal
    BY <1>1, HeadOrTail DEF Signal
  <1>4. Head(s.invalid) \in Names
    BY <1>1, HeadOrTail
  <1> HIDE DEF r
  <1>5. ASSUME NEW n \in Mentioned(r) PROVE n \in Mentioned(s)
    <2>1. CASE \E k \in 1..Len(r.invalid) : r.invalid[k] = n
      BY <2>1, <1>1, <1>2, HeadOrTail, SignalTyped
    <2>2. CASE \E k \in 1..Len(r.changed) : r.changed[k].name = n
      BY <2>2, <1>2, SignalTyped
    <2> QED
      BY <2>1, <2>2, <1>3, SignalTyped
  <1>6. ASSUME NEW n \in Mentioned(s), n # Head(s.invalid) PROVE n \in Mentioned(r)
    <2>1. CASE \E k \in 1..Len(s.invalid) : s.invalid[k] = n
      <3>1. PICK k \in 1..Len(s.invalid) : s.invalid[k] = n
        BY <2>1
      <3>2. k - 1 \in 1..Len(Tail(s.invalid)) /\ Tail(s.invalid)[k - 1] = s.invalid[k]
        BY <3>1, <1>1, <1>6, HeadOrTail
      <3> QED
        BY <3>1, <3>2, <1>2, <1>3, SignalTyped
    <2>2. CASE \E k \in 1..Len(s.changed) : s.changed[k].name = n
      BY <2>2, <1>2, <1>3, SignalTyped
    <2> QED
      BY <2>1, <2>2, SignalTyped
  <1> QED
    BY <1>2, <1>3, <1>4, <1>5, <1>6 DEF r

-----------------------------------------------------------------------------
(* The inductive invariant of SeenIsCurrent: whatever a watcher was told    *)
(* last, something that is still to be read will bring the current value,   *)
(* or it is among the lost ones.                                            *)

\* What a signal says of n is v, and it says the same wherever it names a property.
FreshIn(s, n, v) == \A k \in 1..Len(s.changed) : s.changed[k].name = n => s.changed[k].value = v
Uniform(s) == \A j, k \in 1..Len(s.changed) :
                  s.changed[j].name = s.changed[k].name => s.changed[j].value = s.changed[k].value

InFrames(n) == \E k \in 1..Len(frames) : frames[k].name = n
OnWire(n) == \E k \in 1..Len(wire) : n \in Mentioned(wire[k])
\* The watcher will hear of n after what it reads now, or has lost something of it.
Coming(n) == InFrames(n) \/ OnWire(n) \/ n \in missed

\* Where the handler is and what it has left to read.
StepInv ==
    /\ step = "idle" => Mentioned(msg) = {}
    /\ step \in {"invalid", "get"} => msg.changed = <<>>
    /\ step = "get" => msg.invalid # <<>> /\ Head(msg.invalid) \in watched
    /\ answer # Nothing => step = "get"
UniformInv == Uniform(msg) /\ \A k \in 1..Len(wire) : Uniform(wire[k])
\* The last signal under way that names n tells its value or has it fetched.
WireFresh ==
    /\ ~connected => wire = <<>>
    /\ \A n \in Names : \A k \in 1..Len(wire) :
          n \in Mentioned(wire[k]) =>
              \/ \E j \in 1..Len(wire) : k < j /\ n \in Mentioned(wire[j])
              \/ InFrames(n) \/ FreshIn(wire[k], n, value[n])
MsgFresh == \A n \in Names : n \in Mentioned(msg) => Coming(n) \/ FreshIn(msg, n, value[n])
AnswerFresh == answer # Nothing => Coming(Head(msg.invalid)) \/ answer = value[Head(msg.invalid)]
SeenFresh ==
    /\ \A n \in Names \ watched : seen[n] = Nothing
    /\ \A n \in Names \ Mistyped :
          Coming(n) \/ n \in Mentioned(msg) \/ seen[n] \in {Nothing, value[n]}

CurrentInv == StepInv /\ UniformInv /\ WireFresh /\ MsgFresh /\ AnswerFresh /\ SeenFresh

\* In a quiet state nothing is coming, so what was told last is current or missed.
LEMMA CurrentImplies == TypeOK /\ CurrentInv => SeenIsCurrent
  <1> SUFFICES ASSUME TypeOK, CurrentInv, Quiet, NEW n \in watched \ Mistyped
               PROVE  n \in missed \/ seen[n] \in {Nothing, value[n]}
    BY DEF SeenIsCurrent
  <1>1. n \in Names \ Mistyped
    BY DEF TypeOK
  <1>2. n \notin Mentioned(msg)
    BY DEF Quiet, CurrentInv, StepInv
  <1>3. ~InFrames(n) /\ ~OnWire(n)
    BY EmptySeq DEF Quiet, InFrames, OnWire
  <1> QED
    BY <1>1, <1>2, <1>3 DEF CurrentInv, SeenFresh, Coming

LEMMA InitiallyCurrent == Init => TypeOK /\ CurrentInv
  <1> SUFFICES ASSUME Init PROVE TypeOK /\ CurrentInv
    OBVIOUS
  <1>1. 1 \in 1..MaxValue /\ 0 \in 0..MaxValue
    BY BoundsAssumption
  <1>2. NoSignal \in Signal /\ Mentioned(NoSignal) = {} /\ Len(NoSignal.changed) = 0
    BY EmptySeq DEF NoSignal, Signal, Mentioned
  <1>3. TypeOK
    BY <1>1, <1>2, EmptySeq DEF Init, TypeOK, Nothing
  <1>4. StepInv /\ UniformInv /\ WireFresh /\ MsgFresh /\ AnswerFresh /\ SeenFresh
    BY <1>2, EmptySeq DEF Init, StepInv, UniformInv, Uniform, WireFresh, MsgFresh, AnswerFresh, SeenFresh
  <1> QED
    BY <1>3, <1>4 DEF CurrentInv

-----------------------------------------------------------------------------
(* The owner's steps                                                       *)

\* A list in which every element of a finite set stands once has them all.
LEMMA Listing ==
    ASSUME NEW s, IsFiniteSet(s), NEW q \in [1..Cardinality(s) -> s],
           \A i, j \in 1..Cardinality(s) : q[i] = q[j] => i = j
    PROVE  /\ q \in Seq(s) /\ Len(q) = Cardinality(s)
           /\ \A e \in s : \E k \in 1..Len(q) : q[k] = e
  <1> DEFINE N == Cardinality(s)
  <1>1. N \in Nat
    BY FS_CardinalityType
  <1>2. q \in Seq(s) /\ Len(q) = N
    BY <1>1
  <1>3. Cardinality(1..N) = N
    BY <1>1, FS_Interval
  <1>4. q \in Injection(1..N, s)
    BY DEF Injection, IsInjective
  <1> HIDE DEF N
  <1>5. q \in Surjection(1..N, s)
    BY <1>3, <1>4, FS_Injection DEF N
  <1>6. \A e \in s : \E k \in 1..N : q[k] = e
    BY <1>5 DEF Surjection
  <1> QED
    BY <1>2, <1>6 DEF N

\* The signal of a foreign owner names what it changed, and tells it as it is.
LEMMA ForeignSignal ==
    ASSUME TypeOK, NEW names \in SUBSET Names, NEW order \in Orders(names),
           \A n \in names : value[n] < MaxValue
    PROVE  LET new == [n \in Names |-> IF n \in names THEN value[n] + 1 ELSE value[n]]
               sent == [k \in DOMAIN order.changed |-> Entry(order.changed[k], new[order.changed[k]])]
               s == [changed |-> sent, invalid |-> order.invalid]
           IN  /\ new \in [Names -> 1..MaxValue] /\ s \in Signal /\ Uniform(s)
               /\ \A n \in Names : FreshIn(s, n, new[n])
               /\ names \subseteq Mentioned(s)
  <1> DEFINE new == [n \in Names |-> IF n \in names THEN value[n] + 1 ELSE value[n]]
             sent == [k \in DOMAIN order.changed |-> Entry(order.changed[k], new[order.changed[k]])]
             s == [changed |-> sent, invalid |-> order.invalid]
             lists(c) == {q \in [1..Cardinality(c) -> c] :
                              \A i, j \in 1..Cardinality(c) : q[i] = q[j] => i = j}
  <1>1. new \in [Names -> 1..MaxValue]
    BY BoundsAssumption DEF TypeOK
  <1>2. PICK c \in SUBSET names : order \in [changed : lists(c), invalid : lists(names \ c)]
    BY DEF Orders
  <1>3. IsFiniteSet(c) /\ IsFiniteSet(names \ c)
    BY NamesAssumption, FS_Subset
  <1>4. order.changed \in lists(c) /\ order.invalid \in lists(names \ c)
    BY <1>2
  <1>5. /\ order.changed \in Seq(c) /\ \A e \in c : \E k \in 1..Len(order.changed) : order.changed[k] = e
        /\ order.invalid \in Seq(names \ c)
        /\ \A e \in names \ c : \E k \in 1..Len(order.invalid) : order.invalid[k] = e
    <2>1. ASSUME NEW t, IsFiniteSet(t), NEW q \in lists(t)
          PROVE  q \in Seq(t) /\ \A e \in t : \E k \in 1..Len(q) : q[k] = e
      <3>1. q \in [1..Cardinality(t) -> t] /\ \A i, j \in 1..Cardinality(t) : q[i] = q[j] => i = j
        OBVIOUS
      <3> QED
        BY <2>1, <3>1, Listing
    <2> HIDE DEF lists
    <2>2. order.changed \in Seq(c) /\ \A e \in c : \E k \in 1..Len(order.changed) : order.changed[k] = e
      BY <1>3, <1>4, <2>1
    <2>3. PICK d, l : d = names \ c /\ l = order.invalid
      OBVIOUS
    <2>4. IsFiniteSet(d) /\ l \in lists(d)
      BY <1>3, <1>4, <2>3
    <2>5. l \in Seq(d) /\ \A e \in d : \E k \in 1..Len(l) : l[k] = e
      BY <2>1, <2>4
    <2> QED
      BY <2>2, <2>3, <2>5
  <1>6. /\ DOMAIN order.changed = 1..Len(order.changed) /\ Len(order.changed) \in Nat
        /\ \A k \in 1..Len(order.changed) : order.changed[k] \in Names
    BY <1>5, LenProperties, ElementOfSeq
  <1>7. order.invalid \in Seq(Names)
    BY <1>5
  <1> HIDE DEF new, lists
  <1>8. /\ sent \in Seq(Told) /\ Len(sent) = Len(order.changed)
        /\ \A k \in 1..Len(sent) : sent[k].name = order.changed[k] /\ sent[k].value = new[order.changed[k]]
    <2>1. sent \in [1..Len(order.changed) -> Told]
      BY <1>1, <1>6 DEF Told, Entry
    <2> QED
      BY <2>1, <1>6 DEF Entry
  <1> HIDE DEF sent
  <1>9. s \in Signal
    BY <1>7, <1>8 DEF Signal, Told
  <1>10. Uniform(s)
    BY <1>8 DEF Uniform
  <1>11. \A n \in Names : FreshIn(s, n, new[n])
    BY <1>8 DEF FreshIn
  <1>12. names \subseteq Mentioned(s)
    <2> SUFFICES ASSUME NEW n \in names PROVE n \in Mentioned(s)
      OBVIOUS
    <2>1. CASE n \in c
      <3>1. PICK k \in 1..Len(order.changed) : order.changed[k] = n
        BY <2>1, <1>5
      <3>2. k \in 1..Len(s.changed) /\ s.changed[k].name = n
        BY <3>1, <1>8
      <3> QED
        BY <3>2, <1>9, SignalTyped
    <2>2. CASE n \notin c
      BY <2>2, <1>5, <1>9, SignalTyped
    <2> QED
      BY <2>1, <2>2
  <1> QED
    BY <1>1, <1>9, <1>10, <1>11, <1>12 DEF new, sent

\* What is being fetched is a property.
LEMMA FetchedName ==
    ASSUME TypeOK, StepInv, step = "get"
    PROVE  Head(msg.invalid) \in Names /\ msg \in Signal /\ msg.invalid # <<>>
  BY DropOfSignal DEF TypeOK, StepInv

\* Steps of set() that send nothing: what they change is pending in its call.
LEMMA PendingStep ==
    ASSUME TypeOK, CurrentInv, UNCHANGED <<connected, wire, clientVars, missed>>,
           \A n \in Names : /\ InFrames(n) => InFrames(n)'
                            /\ InFrames(n)' \/ value'[n] = value[n]
    PROVE  CurrentInv'
  <1>1. UNCHANGED <<connected, wire, watched, step, msg, answer, seen, missed>>
    BY DEF clientVars
  <1>2. \A n \in Names : Coming(n) => Coming(n)'
    BY <1>1 DEF Coming, OnWire
  <1>3. \A n \in Names : Coming(n)' \/ value'[n] = value[n]
    BY DEF Coming
  <1>4. StepInv' /\ UniformInv'
    BY <1>1 DEF CurrentInv, StepInv, UniformInv
  <1>5. WireFresh'
    BY <1>1 DEF CurrentInv, WireFresh
  <1>6. MsgFresh'
    BY <1>1, <1>2, <1>3 DEF CurrentInv, MsgFresh
  <1>7. AnswerFresh'
    <2>1. answer # Nothing => Head(msg.invalid) \in Names
      BY FetchedName DEF CurrentInv, StepInv
    <2> QED
      BY <1>1, <1>2, <1>3, <2>1 DEF CurrentInv, AnswerFresh
  <1>8. SeenFresh'
    BY <1>1, <1>2, <1>3 DEF CurrentInv, SeenFresh
  <1> QED
    BY <1>4, <1>5, <1>6, <1>7, <1>8 DEF CurrentInv

\* A signal that tells what changed as it is now; one that cannot be sent is lost.
LEMMA SendStep ==
    ASSUME TypeOK, CurrentInv, NEW s \in Signal, Uniform(s), Send(s),
           UNCHANGED <<connected, clientVars>>,
           \A n \in Mentioned(s) : FreshIn(s, n, value'[n]),
           \A n \in Names \ Mentioned(s) : value'[n] = value[n] /\ (InFrames(n) => InFrames(n)')
    PROVE  CurrentInv'
  <1>1. UNCHANGED <<connected, watched, step, msg, answer, seen>> /\ wire \in Seq(Signal)
    BY DEF clientVars, TypeOK
  <1>2. \/ connected /\ wire' = Append(wire, s) /\ missed' = missed
        \/ ~connected /\ wire' = wire /\ missed' = missed \union Mentioned(s)
    BY DEF Send
  <1>3. CASE connected
    <2>1. /\ wire' = Append(wire, s) /\ missed' = missed /\ Len(wire) \in Nat
          /\ Len(wire') = Len(wire) + 1 /\ wire'[Len(wire) + 1] = s
          /\ \A k \in 1..Len(wire) : wire'[k] = wire[k]
      BY <1>1, <1>2, <1>3, AppendProperties
    <2>2. \A k \in 1..Len(wire') : k \in 1..Len(wire) \/ k = Len(wire) + 1
      BY <2>1
    <2>3. \A n \in Names : /\ OnWire(n) => OnWire(n)'
                           /\ n \in Mentioned(s) => OnWire(n)'
      BY <2>1 DEF OnWire
    <2>4. \A n \in Names : /\ Coming(n) => Coming(n)'
                           /\ Coming(n)' \/ value'[n] = value[n]
      BY <2>1, <2>3 DEF Coming
    <2>5. StepInv' /\ UniformInv'
      BY <1>1, <2>1, <2>2 DEF CurrentInv, StepInv, UniformInv
    <2>6. WireFresh'
      <3> SUFFICES ASSUME NEW n \in Names, NEW k \in 1..Len(wire'), n \in Mentioned(wire'[k])
                   PROVE  \/ \E j \in 1..Len(wire') : k < j /\ n \in Mentioned(wire'[j])
                          \/ InFrames(n)' \/ FreshIn(wire'[k], n, value'[n])
        BY <1>1, <1>3 DEF WireFresh
      <3>1. CASE k = Len(wire) + 1
        BY <3>1, <2>1
      <3>2. CASE k \in 1..Len(wire) /\ n \in Mentioned(s)
        <4>1. k < Len(wire) + 1 /\ Len(wire) + 1 \in 1..Len(wire')
          BY <3>2, <2>1
        <4> QED
          BY <4>1, <3>2, <2>1
      <3>3. CASE k \in 1..Len(wire) /\ n \notin Mentioned(s)
        <4>1. \/ \E j \in 1..Len(wire) : k < j /\ n \in Mentioned(wire[j])
              \/ InFrames(n) \/ FreshIn(wire[k], n, value[n])
          BY <3>3, <2>1 DEF CurrentInv, WireFresh
        <4> QED
          BY <4>1, <3>3, <2>1
      <3> QED
        BY <3>1, <3>2, <3>3, <2>2
    <2>7. MsgFresh'
      BY <1>1, <2>4 DEF CurrentInv, MsgFresh
    <2>8. AnswerFresh'
      <3>1. answer # Nothing => Head(msg.invalid) \in Names
        BY FetchedName DEF CurrentInv, StepInv
      <3> QED
        BY <1>1, <2>4, <3>1 DEF CurrentInv, AnswerFresh
    <2>9. SeenFresh'
      BY <1>1, <2>4 DEF CurrentInv, SeenFresh
    <2> QED
      BY <2>5, <2>6, <2>7, <2>8, <2>9 DEF CurrentInv
  <1>4. CASE ~connected
    <2>1. wire = <<>> /\ wire' = <<>> /\ missed' = missed \union Mentioned(s) /\ ~connected'
      BY <1>1, <1>2, <1>4 DEF CurrentInv, WireFresh
    <2>2. \A n \in Names : /\ Coming(n) => Coming(n)'
                           /\ Coming(n)' \/ value'[n] = value[n]
      BY <2>1 DEF Coming, OnWire
    <2>3. StepInv' /\ UniformInv' /\ WireFresh'
      BY <1>1, <2>1, EmptySeq DEF CurrentInv, StepInv, UniformInv, WireFresh
    <2>4. MsgFresh'
      BY <1>1, <2>2 DEF CurrentInv, MsgFresh
    <2>5. AnswerFresh'
      <3>1. answer # Nothing => Head(msg.invalid) \in Names
        BY FetchedName DEF CurrentInv, StepInv
      <3> QED
        BY <1>1, <2>2, <3>1 DEF CurrentInv, AnswerFresh
    <2>6. SeenFresh'
      BY <1>1, <2>2 DEF CurrentInv, SeenFresh
    <2> QED
      BY <2>3, <2>4, <2>5, <2>6 DEF CurrentInv
  <1> QED
    BY <1>3, <1>4

\* The calls of set() that are running.
Call == [name : Names, arg : 1..MaxValue, told : BOOLEAN]

LEMMA TopCall ==
    ASSUME TypeOK, frames # <<>>
    PROVE  /\ frames \in Seq(Call) /\ Len(frames) \in 1..Len(frames) /\ Top \in Call /\ Pop \in Seq(Call)
           /\ Top = frames[Len(frames)] /\ Len(Pop) = Len(frames) - 1 /\ \A k \in 1..Len(Pop) : Pop[k] = frames[k]
  <1>1. frames \in Seq(Call)
    BY DEF TypeOK, Call
  <1>2. Len(frames) \in 1..Len(frames) /\ Top \in Call
    BY <1>1, EmptySeq, ElementOfSeq DEF Top
  <1>3. \A k \in 1 .. Len(frames) - 1 : frames[k] \in Call
    BY <1>1, ElementOfSeq
  <1>4. Pop \in Seq(Call) /\ Len(Pop) = Len(frames) - 1 /\ \A k \in 1..Len(Pop) : Pop[k] = frames[k]
    <2>1. Len(frames) \in Nat /\ Len(frames) >= 1
      BY <1>1, <1>2
    <2>2. Pop \in Seq(Call)
      BY <2>1, <1>3, SubSeqProperties DEF Pop
    <2>3. \A k \in 1..Len(frames) - 1 - 1 + 1 : Pop[k] = frames[1 + k - 1]
      BY <2>1, <1>3, SubSeqProperties DEF Pop
    <2>4. Len(Pop) = Len(frames) - 1
      <3>1. Len(Pop) = (IF 1 <= Len(frames) - 1 THEN (Len(frames) - 1) - 1 + 1 ELSE 0)
        BY <2>1, <1>3, SubSeqProperties DEF Pop
      <3>2. CASE Len(frames) = 1
        BY <3>1, <3>2
      <3>3. CASE Len(frames) > 1
        <4>1. Len(Pop) = (Len(frames) - 1) - 1 + 1
          BY <2>1, <3>1, <3>3
        <4> QED
          BY <2>1, <4>1
      <3> QED
        BY <2>1, <3>2, <3>3
    <2>5. ASSUME NEW k \in 1..Len(Pop) PROVE Pop[k] = frames[k]
      <3>1. k \in 1..Len(frames) - 1 - 1 + 1 /\ 1 + k - 1 = k
        BY <2>1, <2>4
      <3>2. Pop[k] = frames[1 + k - 1]
        BY <3>1, <2>3
      <3> QED
        BY <3>1, <3>2
    <2> QED
      BY <2>2, <2>4, <2>5
  <1> QED
    BY <1>1, <1>2, <1>4 DEF Top

LEMMA SendTyped ==
    ASSUME TypeOK, NEW s \in Signal, Send(s)
    PROVE  wire' \in Seq(Signal) /\ missed' \subseteq Names
  <1>1. wire \in Seq(Signal) /\ missed \subseteq Names
    BY DEF TypeOK
  <1>2. Append(wire, s) \in Seq(Signal) /\ Mentioned(s) \subseteq Names
    BY <1>1, AppendProperties, SignalTyped
  <1> QED
    BY <1>1, <1>2 DEF Send

LEMMA SetCurrent ==
    ASSUME TypeOK, CurrentInv, NEW n \in Names, Set(n)
    PROVE  (TypeOK /\ CurrentInv)'
  <1> DEFINE f == [name |-> n, arg |-> value[n] + 1, told |-> FALSE]
  <1>1. value \in [Names -> 1..MaxValue] /\ frames \in Seq(Call) /\ value[n] < MaxValue
    BY DEF TypeOK, Call, Set
  <1>2. value' = [value EXCEPT ![n] = value[n] + 1] /\ frames' = Append(frames, f)
    BY DEF Set
  <1>3. UNCHANGED <<foreign, connected, wire, watched, step, msg, answer, seen, missed>>
    BY DEF Set, clientVars
  <1>4. value' \in [Names -> 1..MaxValue] /\ \A m \in Names \ {n} : value'[m] = value[m]
    BY <1>1, <1>2, BoundsAssumption
  <1>5. f \in Call /\ f.name = n
    BY <1>1, BoundsAssumption DEF Call
  <1> HIDE DEF f
  <1>6. /\ frames' \in Seq(Call) /\ Len(frames') = Len(frames) + 1 /\ Len(frames) \in Nat
        /\ \A k \in 1..Len(frames) : frames'[k] = frames[k]
    BY <1>1, <1>2, <1>5, AppendProperties
  <1>7. frames'[Len(frames) + 1] = f
    BY <1>1, <1>2, <1>5, AppendProperties
  <1>8. TypeOK'
    BY <1>3, <1>4, <1>6 DEF TypeOK, Call
  <1>9. InFrames(n)'
    BY <1>5, <1>6, <1>7 DEF InFrames
  <1>10. \A m \in Names : InFrames(m) => InFrames(m)'
    BY <1>6 DEF InFrames
  <1>11. CurrentInv'
    BY <1>4, <1>9, <1>10, PendingStep DEF Set
  <1> QED
    BY <1>8, <1>11

LEMMA ObserveCurrent ==
    ASSUME TypeOK, CurrentInv, Observe
    PROVE  (TypeOK /\ CurrentInv)'
  <1> DEFINE f == [Top EXCEPT !.told = TRUE]
  <1>1. /\ frames \in Seq(Call) /\ Len(frames) \in 1..Len(frames) /\ Top \in Call
        /\ Top = frames[Len(frames)]
    BY TopCall DEF Observe
  <1>2. frames' = [frames EXCEPT ![Len(frames)] = f]
    BY DEF Observe, SetTop
  <1>3. UNCHANGED <<foreign, value, connected, wire, watched, step, msg, answer, seen, missed>>
    BY DEF Observe, clientVars
  <1>4. f \in Call /\ f.name = Top.name
    BY <1>1 DEF Call
  <1> HIDE DEF f
  <1>5. /\ frames' \in Seq(Call) /\ Len(frames') = Len(frames)
        /\ \A k \in 1..Len(frames) : frames'[k].name = frames[k].name
    BY <1>1, <1>2, <1>4, ExceptSeq
  <1>6. TypeOK'
    BY <1>3, <1>5 DEF TypeOK, Call
  <1>7. \A m \in Names : InFrames(m) => InFrames(m)'
    BY <1>5 DEF InFrames
  <1>8. CurrentInv'
    BY <1>3, <1>7, PendingStep DEF Observe
  <1> QED
    BY <1>6, <1>8

LEMMA EmitCurrent ==
    ASSUME TypeOK, CurrentInv, Emit
    PROVE  (TypeOK /\ CurrentInv)'
  <1> DEFINE n == Top.name
             s == [changed |-> <<Entry(n, value[n])>>, invalid |-> <<>>]
  <1>1. /\ frames \in Seq(Call) /\ Len(frames) \in 1..Len(frames) /\ Top \in Call
        /\ Top = frames[Len(frames)] /\ Pop \in Seq(Call)
        /\ Len(Pop) = Len(frames) - 1 /\ \A k \in 1..Len(Pop) : Pop[k] = frames[k]
    BY TopCall DEF Emit
  <1>2. frames' = Pop /\ Send(s)
    BY DEF Emit, NoSignal
  <1>3. UNCHANGED <<foreign, value, connected, watched, step, msg, answer, seen>>
    BY DEF Emit, clientVars
  <1>4. n \in Names /\ value[n] \in 1..MaxValue
    BY <1>1 DEF Call, TypeOK
  <1>5. s \in Signal /\ Len(s.changed) = 1 /\ s.changed[1].name = n /\ s.changed[1].value = value[n]
    BY <1>4 DEF Signal, Entry
  <1> HIDE DEF s
  <1>6. \A m \in Names : FreshIn(s, m, value[m])
    BY <1>4, <1>5 DEF FreshIn
  <1>7. Uniform(s)
    BY <1>5 DEF Uniform
  <1>8. n \in Mentioned(s) /\ Mentioned(s) \subseteq Names
    BY <1>5, SignalTyped
  <1>9. \A m \in Names : InFrames(m) => m = n \/ InFrames(m)'
    BY <1>1, <1>2 DEF InFrames
  <1>10. TypeOK'
    BY <1>1, <1>2, <1>3, <1>5, SendTyped DEF TypeOK, Call
  <1> HIDE DEF n
  <1>11. CurrentInv'
    BY <1>2, <1>3, <1>5, <1>6, <1>7, <1>8, <1>9, SendStep DEF Emit
  <1> QED
    BY <1>10, <1>11

LEMMA ForeignCurrent ==
    ASSUME TypeOK, CurrentInv, Foreign
    PROVE  (TypeOK /\ CurrentInv)'
  <1>1. PICK names \in SUBSET Names : \E order \in Orders(names) : ForeignChange(names, order)
    BY DEF Foreign
  <1>2. PICK order \in Orders(names) : ForeignChange(names, order)
    BY <1>1
  <1> DEFINE new == [n \in Names |-> IF n \in names THEN value[n] + 1 ELSE value[n]]
             sent == [k \in DOMAIN order.changed |-> Entry(order.changed[k], new[order.changed[k]])]
             s == [changed |-> sent, invalid |-> order.invalid]
  <1>3. \A n \in names : value[n] < MaxValue
    BY <1>2 DEF ForeignChange
  <1>4. value' = new /\ Send(s)
    BY <1>2 DEF ForeignChange
  <1>5. UNCHANGED <<foreign, frames, connected, clientVars>>
    BY <1>2 DEF ForeignChange
  <1>6. /\ new \in [Names -> 1..MaxValue] /\ s \in Signal /\ Uniform(s)
        /\ \A n \in Names : FreshIn(s, n, new[n])
        /\ names \subseteq Mentioned(s)
    BY <1>3, ForeignSignal
  <1>7. \A n \in Names \ names : new[n] = value[n]
    OBVIOUS
  <1> HIDE DEF new, s
  <1>8. TypeOK'
    BY <1>4, <1>5, <1>6, SendTyped DEF TypeOK, clientVars
  <1>9. \A n \in Names : InFrames(n) => InFrames(n)'
    BY <1>5 DEF InFrames
  <1>10. Mentioned(s) \subseteq Names
    BY <1>6, SignalTyped
  <1>11. CurrentInv'
    BY <1>4, <1>5, <1>6, <1>7, <1>9, <1>10, SendStep
  <1> QED
    BY <1>8, <1>11

-----------------------------------------------------------------------------
(* The watcher's steps                                                     *)

\* Steps that send nothing and take nothing off the wire.
LEMMA ReadingStep ==
    ASSUME CurrentInv, UNCHANGED <<value, frames, connected, wire>>
    PROVE  /\ WireFresh'
           /\ \A n \in Names : /\ InFrames(n)' = InFrames(n) /\ OnWire(n)' = OnWire(n)
                               /\ missed \subseteq missed' => (Coming(n) => Coming(n)')
  <1>1. \A n \in Names : InFrames(n)' = InFrames(n) /\ OnWire(n)' = OnWire(n)
    BY DEF InFrames, OnWire
  <1>2. WireFresh'
    BY <1>1 DEF CurrentInv, WireFresh
  <1> QED
    BY <1>1, <1>2 DEF Coming

LEMMA WatchCurrent ==
    ASSUME TypeOK, CurrentInv, NEW n \in Names, Watch(n)
    PROVE  (TypeOK /\ CurrentInv)'
  <1>1. /\ UNCHANGED <<foreign, value, frames, connected, wire, step, msg, answer, seen, missed>>
        /\ watched' = watched \union {n}
    BY DEF Watch, serverVars
  <1>2. TypeOK'
    BY <1>1 DEF TypeOK
  <1>3. WireFresh' /\ \A m \in Names : Coming(m) => Coming(m)'
    BY <1>1, ReadingStep
  <1>4. StepInv' /\ UniformInv'
    BY <1>1 DEF CurrentInv, StepInv, UniformInv
  <1>5. MsgFresh' /\ SeenFresh'
    BY <1>1, <1>3 DEF CurrentInv, MsgFresh, SeenFresh
  <1>6. AnswerFresh'
    <2>1. answer # Nothing => Head(msg.invalid) \in Names
      BY FetchedName DEF CurrentInv, StepInv
    <2> QED
      BY <1>1, <1>3, <2>1 DEF CurrentInv, AnswerFresh
  <1> QED
    BY <1>2, <1>3, <1>4, <1>5, <1>6 DEF CurrentInv

LEMMA DispatchCurrent ==
    ASSUME TypeOK, CurrentInv, Dispatch
    PROVE  (TypeOK /\ CurrentInv)'
  <1>1. /\ UNCHANGED <<foreign, value, frames, connected, watched, answer, seen, missed>>
        /\ step = "idle" /\ wire # <<>> /\ wire' = Tail(wire) /\ wire \in Seq(Signal)
        /\ \/ watched = {} /\ step' = step /\ msg' = msg
           \/ step' = "changed" /\ msg' = Head(wire)
    BY DEF Dispatch, serverVars, TypeOK
  <1>2. answer = Nothing /\ Mentioned(msg) = {}
    BY <1>1 DEF CurrentInv, StepInv
  <1>3. /\ Head(wire) \in Signal /\ Tail(wire) \in Seq(Signal) /\ 1 \in 1..Len(wire) /\ wire[1] = Head(wire)
        /\ \A i \in 1..Len(wire') : i + 1 \in 1..Len(wire) /\ wire'[i] = wire[i + 1]
        /\ \A i \in 1..Len(wire) : i = 1 \/ (i - 1 \in 1..Len(wire') /\ wire'[i - 1] = wire[i])
    BY <1>1, HeadOrTail
  <1>4. Len(wire) \in Nat /\ Len(wire') \in Nat
    BY <1>1, <1>3, LenProperties
  <1>5. TypeOK'
    BY <1>1, <1>3 DEF TypeOK
  <1>6. \A n \in Names : /\ InFrames(n)' = InFrames(n)
                         /\ OnWire(n) => OnWire(n)' \/ n \in Mentioned(Head(wire))
    BY <1>1, <1>3 DEF InFrames, OnWire
  <1>7. \A n \in Names : Coming(n) => Coming(n)' \/ n \in Mentioned(Head(wire))
    BY <1>1, <1>6 DEF Coming
  <1>8. StepInv'
    BY <1>1, <1>2 DEF CurrentInv, StepInv
  <1>9. UniformInv'
    BY <1>1, <1>3 DEF CurrentInv, UniformInv
  <1>10. WireFresh'
    <2>1. ~connected' => wire' = <<>>
      BY <1>1 DEF CurrentInv, WireFresh
    <2>2. ASSUME NEW n \in Names, NEW k \in 1..Len(wire'), n \in Mentioned(wire'[k])
          PROVE  \/ \E j \in 1..Len(wire') : k < j /\ n \in Mentioned(wire'[j])
                 \/ InFrames(n)' \/ FreshIn(wire'[k], n, value'[n])
      <3>1. k + 1 \in 1..Len(wire) /\ wire'[k] = wire[k + 1]
        BY <1>3
      <3>2. \/ \E j \in 1..Len(wire) : k + 1 < j /\ n \in Mentioned(wire[j])
            \/ InFrames(n) \/ FreshIn(wire[k + 1], n, value[n])
        BY <2>2, <3>1 DEF CurrentInv, WireFresh
      <3>3. ASSUME NEW j \in 1..Len(wire), k + 1 < j, n \in Mentioned(wire[j])
            PROVE  \E i \in 1..Len(wire') : k < i /\ n \in Mentioned(wire'[i])
        <4>1. j - 1 \in 1..Len(wire') /\ wire'[j - 1] = wire[j] /\ k < j - 1
          BY <3>3, <1>3, <1>4
        <4> QED
          BY <4>1, <3>3
      <3> QED
        BY <3>1, <3>2, <3>3, <1>1, <1>6
    <2> QED
      BY <2>1, <2>2 DEF WireFresh
  <1>11. MsgFresh'
    <2>1. CASE msg' = msg
      BY <2>1, <1>2 DEF MsgFresh
    <2>2. CASE msg' = Head(wire)
      <3> SUFFICES ASSUME NEW n \in Names, n \in Mentioned(wire[1])
                   PROVE  Coming(n)' \/ FreshIn(wire[1], n, value[n])
        BY <2>2, <1>1, <1>3 DEF MsgFresh
      <3>1. \/ \E j \in 1..Len(wire) : 1 < j /\ n \in Mentioned(wire[j])
            \/ InFrames(n) \/ FreshIn(wire[1], n, value[n])
        BY <1>3 DEF CurrentInv, WireFresh
      <3>2. ASSUME NEW j \in 1..Len(wire), 1 < j, n \in Mentioned(wire[j]) PROVE OnWire(n)'
        BY <3>2, <1>3 DEF OnWire
      <3> QED
        BY <3>1, <3>2, <1>6 DEF Coming
    <2> QED
      BY <2>1, <2>2, <1>1
  <1>12. AnswerFresh'
    BY <1>1, <1>2 DEF AnswerFresh
  <1>13. SeenFresh'
    BY <1>1, <1>2, <1>7 DEF CurrentInv, SeenFresh
  <1> QED
    BY <1>5, <1>8, <1>9, <1>10, <1>11, <1>12, <1>13 DEF CurrentInv

\* What is said of a name in the rest of a signal was said in the whole of it.
LEMMA RestSays ==
    ASSUME NEW s \in Signal, s.changed # <<>>
    PROVE  LET r == [s EXCEPT !.changed = Tail(@)]
               h == Head(s.changed)
           IN  /\ Uniform(s) => Uniform(r)
               /\ Uniform(s) => FreshIn(s, h.name, h.value)
               /\ \A n, v : FreshIn(s, n, v) => FreshIn(r, n, v)
  <1> DEFINE r == [s EXCEPT !.changed = Tail(@)]
             h == Head(s.changed)
  <1>1. r.changed = Tail(s.changed) /\ s.changed \in Seq(Told)
    BY RestOfSignal, SignalTyped
  <1>2. /\ 1 \in 1..Len(s.changed) /\ s.changed[1] = h
        /\ \A i \in 1..Len(Tail(s.changed)) : i + 1 \in 1..Len(s.changed) /\ Tail(s.changed)[i] = s.changed[i + 1]
    BY <1>1, HeadOrTail
  <1> HIDE DEF r, h
  <1>3. ASSUME Uniform(s) PROVE Uniform(r)
    <2> SUFFICES ASSUME NEW j \in 1..Len(Tail(s.changed)), NEW k \in 1..Len(Tail(s.changed)),
                        Tail(s.changed)[j].name = Tail(s.changed)[k].name
                 PROVE  Tail(s.changed)[j].value = Tail(s.changed)[k].value
      BY <1>1 DEF Uniform
    <2>1. /\ j + 1 \in 1..Len(s.changed) /\ Tail(s.changed)[j] = s.changed[j + 1]
          /\ k + 1 \in 1..Len(s.changed) /\ Tail(s.changed)[k] = s.changed[k + 1]
      BY <1>2
    <2> QED
      BY <2>1, <1>3 DEF Uniform
  <1>4. Uniform(s) => FreshIn(s, h.name, h.value)
    BY <1>2 DEF Uniform, FreshIn
  <1>5. \A n, v : FreshIn(s, n, v) => FreshIn(r, n, v)
    BY <1>1, <1>2 DEF FreshIn
  <1> QED
    BY <1>3, <1>4, <1>5 DEF r, h

\* The entry at hand and the rest of its signal mention what the signal mentioned.
LEMMA EntryTypes ==
    ASSUME TypeOK, step = "changed", msg.changed # <<>>
    PROVE  LET h == Head(msg.changed)
           IN  /\ msg \in Signal /\ Rest \in Signal /\ h.name \in Names /\ h.value \in 1..MaxValue
               /\ Mentioned(Rest) \subseteq Mentioned(msg)
               /\ Mentioned(msg) \subseteq Mentioned(Rest) \union {h.name}
               /\ h.name \in Mentioned(msg)
  <1>1. msg \in Signal
    BY DEF TypeOK
  <1>2. Head(msg.changed) \in Told
    BY <1>1, RestOfSignal
  <1>3. msg.changed \in Seq(Told)
    BY <1>1, SignalTyped
  <1>4. 1 \in 1..Len(msg.changed) /\ msg.changed[1] = Head(msg.changed)
    BY <1>3, HeadOrTail
  <1>5. Head(msg.changed).name \in Mentioned(msg)
    BY <1>1, <1>4, SignalTyped
  <1> QED
    BY <1>1, <1>2, <1>5, RestOfSignal DEF Rest, Told

LEMMA EntryToldCurrent ==
    ASSUME TypeOK, CurrentInv, EntryTold
    PROVE  (TypeOK /\ CurrentInv)'
  <1>0. PICK n \in Names, v \in 1..MaxValue : n = Head(msg.changed).name /\ v = Head(msg.changed).value
    BY EntryTypes DEF EntryTold
  <1>1. /\ UNCHANGED <<foreign, value, frames, connected, wire, watched, step, answer>>
        /\ step = "changed" /\ msg.changed # <<>> /\ n \in watched /\ n \notin Mistyped
        /\ seen' = [seen EXCEPT ![n] = v] /\ msg' = Rest
        /\ missed' = IF v = value[n] THEN missed \ {n} ELSE missed
    BY <1>0 DEF EntryTold, Tell, serverVars, Known
  <1>2. /\ msg \in Signal /\ Rest \in Signal /\ n \in Names /\ v \in 1..MaxValue
        /\ Mentioned(Rest) \subseteq Mentioned(msg)
        /\ Mentioned(msg) \subseteq Mentioned(Rest) \union {n}
        /\ n \in Mentioned(msg)
    BY <1>0, <1>1, EntryTypes
  <1>3. /\ Uniform(Rest) /\ FreshIn(msg, n, v)
        /\ \A m, u : FreshIn(msg, m, u) => FreshIn(Rest, m, u)
    BY <1>0, <1>1, <1>2, RestSays DEF CurrentInv, UniformInv, Rest
  <1>4. FreshIn(msg, n, value[n]) => v = value[n]
    <2>1. msg.changed \in Seq(Told)
      BY <1>2, SignalTyped
    <2>2. 1 \in 1..Len(msg.changed) /\ msg.changed[1] = Head(msg.changed)
      BY <1>1, <2>1, HeadOrTail
    <2> QED
      BY <1>0, <2>2 DEF FreshIn
  <1>5. answer = Nothing
    BY <1>1 DEF CurrentInv, StepInv
  <1>6. seen \in [Names -> 0..MaxValue] /\ v \in 0..MaxValue
    BY <1>2, BoundsAssumption DEF TypeOK
  <1>7. seen' \in [Names -> 0..MaxValue] /\ seen'[n] = v /\ \A m \in Names \ {n} : seen'[m] = seen[m]
    BY <1>1, <1>2, <1>6
  <1>8. TypeOK'
    BY <1>1, <1>2, <1>7 DEF TypeOK
  <1>9. /\ WireFresh'
        /\ \A m \in Names : InFrames(m)' = InFrames(m) /\ OnWire(m)' = OnWire(m)
    BY <1>1, ReadingStep
  <1>10. \A m \in Names \ {n} : Coming(m) => Coming(m)'
    BY <1>1, <1>9 DEF Coming
  <1>11. v = value[n] \/ (Coming(n) /\ Coming(n)')
    <2> SUFFICES ASSUME v # value[n] PROVE Coming(n) /\ Coming(n)'
      OBVIOUS
    <2>1. Coming(n)
      BY <1>2, <1>4 DEF CurrentInv, MsgFresh
    <2>2. missed' = missed
      BY <1>1
    <2> QED
      BY <2>1, <2>2, <1>2, <1>9 DEF Coming
  <1>12. StepInv' /\ UniformInv'
    BY <1>1, <1>3, <1>5 DEF CurrentInv, StepInv, UniformInv
  <1>13. MsgFresh'
    <2> SUFFICES ASSUME NEW m \in Names, m \in Mentioned(Rest)
                 PROVE  Coming(m)' \/ FreshIn(Rest, m, value[m])
      BY <1>1 DEF MsgFresh
    <2>1. CASE m = n
      BY <2>1, <1>3, <1>11
    <2>2. CASE m # n
      BY <2>2, <1>2, <1>3, <1>10 DEF CurrentInv, MsgFresh
    <2> QED
      BY <2>1, <2>2
  <1>14. AnswerFresh'
    BY <1>1, <1>5 DEF AnswerFresh
  <1>15. SeenFresh'
    <2>1. \A m \in Names \ watched : seen'[m] = Nothing
      BY <1>1, <1>7 DEF CurrentInv, SeenFresh
    <2>2. ASSUME NEW m \in Names \ Mistyped
          PROVE  Coming(m)' \/ m \in Mentioned(Rest) \/ seen'[m] \in {Nothing, value[m]}
      <3>1. CASE m = n
        BY <3>1, <1>7, <1>11
      <3>2. CASE m # n
        BY <3>2, <1>2, <1>7, <1>10 DEF CurrentInv, SeenFresh
      <3> QED
        BY <3>1, <3>2
    <2> QED
      BY <2>1, <2>2, <1>1 DEF SeenFresh
  <1> QED
    BY <1>8, <1>9, <1>12, <1>13, <1>14, <1>15 DEF CurrentInv

LEMMA EntrySkippedCurrent ==
    ASSUME TypeOK, CurrentInv, EntrySkipped
    PROVE  (TypeOK /\ CurrentInv)'
  <1> DEFINE n == Head(msg.changed).name
  <1>1. /\ UNCHANGED <<foreign, value, frames, connected, wire, watched, step, answer, seen, missed>>
        /\ step = "changed" /\ msg.changed # <<>> /\ n \notin watched /\ msg' = Rest
    BY DEF EntrySkipped, serverVars, Known
  <1>2. /\ msg \in Signal /\ Rest \in Signal /\ n \in Names
        /\ Mentioned(Rest) \subseteq Mentioned(msg)
        /\ Mentioned(msg) \subseteq Mentioned(Rest) \union {n}
    BY <1>1, EntryTypes
  <1>3. Uniform(Rest) /\ \A m, u : FreshIn(msg, m, u) => FreshIn(Rest, m, u)
    BY <1>1, <1>2, RestSays DEF CurrentInv, UniformInv, Rest
  <1>4. answer = Nothing
    BY <1>1 DEF CurrentInv, StepInv
  <1> HIDE DEF n
  <1>5. TypeOK'
    BY <1>1, <1>2 DEF TypeOK
  <1>6. WireFresh' /\ \A m \in Names : Coming(m) => Coming(m)'
    BY <1>1, ReadingStep
  <1>7. StepInv' /\ UniformInv'
    BY <1>1, <1>3, <1>4 DEF CurrentInv, StepInv, UniformInv
  <1>8. MsgFresh'
    BY <1>1, <1>2, <1>3, <1>6 DEF CurrentInv, MsgFresh
  <1>9. AnswerFresh'
    BY <1>1, <1>4 DEF AnswerFresh
  <1>10. SeenFresh'
    <2>1. seen[n] = Nothing
      BY <1>1, <1>2 DEF CurrentInv, SeenFresh
    <2> QED
      BY <2>1, <1>1, <1>2, <1>6 DEF CurrentInv, SeenFresh
  <1> QED
    BY <1>5, <1>6, <1>7, <1>8, <1>9, <1>10 DEF CurrentInv

\* A mistyped entry makes the handler lose the rest of the signal.
LEMMA EntryMistypedCurrent ==
    ASSUME TypeOK, CurrentInv, EntryMistyped
    PROVE  (TypeOK /\ CurrentInv)'
  <1>1. /\ UNCHANGED <<foreign, value, frames, connected, wire, watched, answer, seen>>
        /\ step = "changed" /\ missed' = missed \union Mentioned(msg)
        /\ step' = "idle" /\ msg' = NoSignal
    BY DEF EntryMistyped, serverVars
  <1>2. msg \in Signal /\ Mentioned(msg) \subseteq Names
    BY SignalTyped DEF TypeOK
  <1>3. /\ NoSignal \in Signal /\ Mentioned(NoSignal) = {} /\ Len(NoSignal.changed) = 0
        /\ NoSignal.changed = <<>>
    BY EmptySeq DEF NoSignal, Signal, Mentioned
  <1>4. answer = Nothing
    BY <1>1 DEF CurrentInv, StepInv
  <1>5. TypeOK'
    BY <1>1, <1>2, <1>3 DEF TypeOK
  <1>6. WireFresh' /\ \A m \in Names : Coming(m) => Coming(m)'
    BY <1>1, ReadingStep
  <1>7. \A m \in Names : m \in Mentioned(msg) => Coming(m)'
    BY <1>1 DEF Coming
  <1>8. StepInv' /\ UniformInv'
    BY <1>1, <1>3, <1>4 DEF CurrentInv, StepInv, UniformInv, Uniform
  <1>9. MsgFresh'
    BY <1>1, <1>3 DEF MsgFresh
  <1>10. AnswerFresh'
    BY <1>1, <1>4 DEF AnswerFresh
  <1>11. SeenFresh'
    BY <1>1, <1>6, <1>7 DEF CurrentInv, SeenFresh
  <1> QED
    BY <1>5, <1>6, <1>8, <1>9, <1>10, <1>11 DEF CurrentInv

\* Between two loops of the handler, and when there is nothing to read.
LEMMA DoneCurrent ==
    ASSUME TypeOK, CurrentInv, EntriesDone \/ InvalidDone
    PROVE  (TypeOK /\ CurrentInv)'
  <1>1. /\ UNCHANGED <<foreign, value, frames, connected, wire, watched, msg, answer, seen, missed>>
        /\ \/ step = "changed" /\ msg.changed = <<>> /\ step' = "invalid"
           \/ step = "invalid" /\ msg.invalid = <<>> /\ step' = "idle"
    BY DEF EntriesDone, InvalidDone, serverVars
  <1>2. answer = Nothing
    BY <1>1 DEF CurrentInv, StepInv
  <1>3. step' = "idle" => Mentioned(msg) = {}
    <2> SUFFICES ASSUME step = "invalid", msg.invalid = <<>> PROVE Mentioned(msg) = {}
      BY <1>1
    <2>1. msg.changed = <<>>
      BY DEF CurrentInv, StepInv
    <2> QED
      BY <2>1, EmptySeq DEF Mentioned
  <1>4. TypeOK'
    BY <1>1 DEF TypeOK
  <1>5. WireFresh' /\ \A m \in Names : Coming(m) => Coming(m)'
    BY <1>1, ReadingStep
  <1>6. StepInv' /\ UniformInv'
    BY <1>1, <1>2, <1>3 DEF CurrentInv, StepInv, UniformInv
  <1>7. MsgFresh' /\ AnswerFresh' /\ SeenFresh'
    BY <1>1, <1>2, <1>5 DEF CurrentInv, MsgFresh, AnswerFresh, SeenFresh
  <1> QED
    BY <1>4, <1>5, <1>6, <1>7 DEF CurrentInv

\* An invalidated property that nobody watches is passed over, a watched one is asked for.
LEMMA FetchCurrent ==
    ASSUME TypeOK, CurrentInv, Fetch
    PROVE  (TypeOK /\ CurrentInv)'
  <1>1. /\ UNCHANGED <<foreign, value, frames, connected, wire, watched, answer, seen, missed>>
        /\ step = "invalid" /\ msg.invalid # <<>> /\ msg \in Signal
    BY DEF Fetch, serverVars, TypeOK
  <1>2. PICK n \in Names : n = Head(msg.invalid)
    BY <1>1, DropOfSignal
  <1>3. answer = Nothing /\ msg.changed = <<>>
    BY <1>1 DEF CurrentInv, StepInv
  <1>4. WireFresh' /\ \A m \in Names : Coming(m) => Coming(m)'
    BY <1>1, ReadingStep
  <1>5. CASE n \in watched
    <2>1. step' = "get" /\ msg' = msg
      BY <1>2, <1>5 DEF Fetch
    <2>2. TypeOK'
      BY <1>1, <2>1 DEF TypeOK
    <2>3. StepInv' /\ UniformInv'
      BY <1>1, <1>2, <1>3, <1>5, <2>1 DEF CurrentInv, StepInv, UniformInv
    <2>4. MsgFresh' /\ AnswerFresh' /\ SeenFresh'
      BY <1>1, <1>3, <1>4, <2>1 DEF CurrentInv, MsgFresh, AnswerFresh, SeenFresh
    <2> QED
      BY <1>4, <2>2, <2>3, <2>4 DEF CurrentInv
  <1>6. CASE n \notin watched
    <2>1. step' = step /\ msg' = [msg EXCEPT !.invalid = Tail(@)]
      BY <1>2, <1>6 DEF Fetch
    <2>2. /\ msg' \in Signal /\ msg'.changed = <<>> /\ Mentioned(msg') \subseteq Mentioned(msg)
          /\ Mentioned(msg) \subseteq Mentioned(msg') \union {n}
      BY <1>1, <1>2, <1>3, <2>1, DropOfSignal
    <2>3. TypeOK'
      BY <1>1, <2>1, <2>2 DEF TypeOK
    <2>4. Uniform(msg') /\ \A m, v : FreshIn(msg', m, v)
      BY <2>2, EmptySeq DEF Uniform, FreshIn
    <2>5. StepInv' /\ UniformInv'
      BY <1>1, <1>3, <2>1, <2>2, <2>4 DEF CurrentInv, StepInv, UniformInv
    <2>6. MsgFresh' /\ AnswerFresh'
      BY <1>1, <1>3, <2>4 DEF MsgFresh, AnswerFresh
    <2>7. SeenFresh'
      <3>1. seen[n] = Nothing
        BY <1>6 DEF CurrentInv, SeenFresh
      <3> QED
        BY <3>1, <1>1, <1>4, <2>2 DEF CurrentInv, SeenFresh
    <2> QED
      BY <1>4, <2>3, <2>5, <2>6, <2>7 DEF CurrentInv
  <1> QED
    BY <1>5, <1>6

LEMMA ServeCurrent ==
    ASSUME TypeOK, CurrentInv, Serve
    PROVE  (TypeOK /\ CurrentInv)'
  <1>1. /\ UNCHANGED <<foreign, value, frames, connected, wire, watched, step, msg, seen, missed>>
        /\ step = "get" /\ answer' = value[Head(msg.invalid)]
    BY DEF Serve, serverVars
  <1>2. Head(msg.invalid) \in Names
    BY <1>1, FetchedName DEF CurrentInv
  <1>3. answer' \in 0..MaxValue
    BY <1>1, <1>2, BoundsAssumption DEF TypeOK
  <1>4. TypeOK'
    BY <1>1, <1>3 DEF TypeOK
  <1>5. WireFresh' /\ \A m \in Names : Coming(m) => Coming(m)'
    BY <1>1, ReadingStep
  <1>6. StepInv' /\ UniformInv'
    BY <1>1 DEF CurrentInv, StepInv, UniformInv
  <1>7. MsgFresh' /\ SeenFresh'
    BY <1>1, <1>5 DEF CurrentInv, MsgFresh, SeenFresh
  <1>8. AnswerFresh'
    BY <1>1 DEF AnswerFresh
  <1> QED
    BY <1>4, <1>5, <1>6, <1>7, <1>8 DEF CurrentInv

\* The answer is what the property is, or what is coming is newer than it.
LEMMA FetchedCurrent ==
    ASSUME TypeOK, CurrentInv, Fetched
    PROVE  (TypeOK /\ CurrentInv)'
  <1>1. /\ UNCHANGED <<foreign, value, frames, connected, wire, watched>>
        /\ step = "get" /\ answer # Nothing /\ step' = "invalid" /\ answer' = Nothing
        /\ msg' = [msg EXCEPT !.invalid = Tail(@)]
    BY DEF Fetched, serverVars
  <1>2. msg \in Signal /\ msg.invalid # <<>> /\ Head(msg.invalid) \in watched /\ msg.changed = <<>>
    BY <1>1, FetchedName DEF CurrentInv, StepInv
  <1>3. PICK n \in Names : n = Head(msg.invalid)
    BY <1>2, DropOfSignal
  <1>4. /\ msg' \in Signal /\ msg'.changed = <<>> /\ Mentioned(msg') \subseteq Mentioned(msg)
        /\ Mentioned(msg) \subseteq Mentioned(msg') \union {n}
    BY <1>1, <1>2, <1>3, DropOfSignal
  <1>5. \/ n \in Mistyped /\ seen' = seen /\ missed' = missed
        \/ n \notin Mistyped /\ seen' = [seen EXCEPT ![n] = answer]
           /\ missed' = IF answer = value[n] THEN missed \ {n} ELSE missed
    BY <1>3 DEF Fetched, Tell
  <1>6. seen \in [Names -> 0..MaxValue] /\ answer \in 0..MaxValue /\ missed \subseteq Names
    BY DEF TypeOK
  <1>7. /\ seen' \in [Names -> 0..MaxValue] /\ missed' \subseteq Names
        /\ \A m \in Names \ {n} : seen'[m] = seen[m]
        /\ n \in Mistyped \/ seen'[n] = answer
    BY <1>3, <1>5, <1>6
  <1>8. TypeOK'
    BY <1>1, <1>4, <1>7, BoundsAssumption DEF TypeOK, Nothing
  <1>9. WireFresh' /\ \A m \in Names : InFrames(m)' = InFrames(m) /\ OnWire(m)' = OnWire(m)
    BY <1>1, ReadingStep
  <1>10. \A m \in Names \ {n} : Coming(m) => Coming(m)'
    BY <1>5, <1>9 DEF Coming
  <1>11. n \in Mistyped \/ answer = value[n] \/ Coming(n)'
    <2> SUFFICES ASSUME n \notin Mistyped, answer # value[n] PROVE Coming(n)'
      OBVIOUS
    <2>1. Coming(n) /\ missed' = missed
      BY <1>1, <1>3, <1>5 DEF CurrentInv, AnswerFresh
    <2> QED
      BY <2>1, <1>9 DEF Coming
  <1>12. Uniform(msg') /\ \A m, v : FreshIn(msg', m, v)
    BY <1>4, EmptySeq DEF Uniform, FreshIn
  <1>13. StepInv' /\ UniformInv'
    BY <1>1, <1>4, <1>12 DEF CurrentInv, StepInv, UniformInv
  <1>14. MsgFresh' /\ AnswerFresh'
    BY <1>1, <1>12 DEF MsgFresh, AnswerFresh
  <1>15. SeenFresh'
    <2>1. \A m \in Names \ watched : seen'[m] = Nothing
      BY <1>2, <1>3, <1>7 DEF CurrentInv, SeenFresh
    <2>2. ASSUME NEW m \in Names \ Mistyped
          PROVE  Coming(m)' \/ m \in Mentioned(msg') \/ seen'[m] \in {Nothing, value[m]}
      <3>1. CASE m = n
        BY <3>1, <2>2, <1>7, <1>11
      <3>2. CASE m # n
        BY <3>2, <1>4, <1>7, <1>10 DEF CurrentInv, SeenFresh
      <3> QED
        BY <3>1, <3>2
    <2> QED
      BY <2>1, <2>2, <1>1 DEF SeenFresh
  <1> QED
    BY <1>8, <1>9, <1>13, <1>14, <1>15 DEF CurrentInv

LEMMA FetchFailsCurrent ==
    ASSUME TypeOK, CurrentInv, FetchFails
    PROVE  (TypeOK /\ CurrentInv)'
  <1>1. /\ UNCHANGED <<foreign, value, frames, connected, wire, watched, answer, seen>>
        /\ step = "get" /\ answer = Nothing /\ step' = "invalid"
        /\ msg' = [msg EXCEPT !.invalid = Tail(@)]
        /\ missed' = missed \union {Head(msg.invalid)}
    BY DEF FetchFails, serverVars
  <1>2. msg \in Signal /\ msg.invalid # <<>> /\ msg.changed = <<>>
    BY <1>1, FetchedName DEF CurrentInv, StepInv
  <1>3. PICK n \in Names : n = Head(msg.invalid)
    BY <1>2, DropOfSignal
  <1>4. /\ msg' \in Signal /\ msg'.changed = <<>> /\ Mentioned(msg') \subseteq Mentioned(msg)
        /\ Mentioned(msg) \subseteq Mentioned(msg') \union {n}
    BY <1>1, <1>2, <1>3, DropOfSignal
  <1>5. TypeOK'
    BY <1>1, <1>3, <1>4 DEF TypeOK
  <1>6. WireFresh' /\ \A m \in Names : Coming(m) => Coming(m)'
    BY <1>1, ReadingStep
  <1>7. Coming(n)'
    BY <1>1, <1>3 DEF Coming
  <1>8. Uniform(msg') /\ \A m, v : FreshIn(msg', m, v)
    BY <1>4, EmptySeq DEF Uniform, FreshIn
  <1>9. StepInv' /\ UniformInv'
    BY <1>1, <1>4, <1>8 DEF CurrentInv, StepInv, UniformInv
  <1>10. MsgFresh' /\ AnswerFresh'
    BY <1>1, <1>8 DEF MsgFresh, AnswerFresh
  <1>11. SeenFresh'
    BY <1>1, <1>4, <1>6, <1>7 DEF CurrentInv, SeenFresh
  <1> QED
    BY <1>5, <1>6, <1>9, <1>10, <1>11 DEF CurrentInv

\* What the daemon takes with it is lost, and nothing is sent until it is back.
LEMMA ConnectionCurrent ==
    ASSUME TypeOK, CurrentInv, Disconnect \/ Reconnect
    PROVE  (TypeOK /\ CurrentInv)'
  <1>1. /\ UNCHANGED <<foreign, value, frames, watched, step, msg, answer, seen>>
        /\ connected' \in BOOLEAN /\ wire \in Seq(Signal)
    BY DEF Disconnect, Reconnect, serverVars, clientVars, TypeOK
  <1>2. /\ wire' = <<>>
        /\ missed' = missed \union UNION {Mentioned(wire[k]) : k \in 1..Len(wire)}
    <2>1. CASE Disconnect
      <3>1. DOMAIN wire = 1..Len(wire)
        BY <1>1, LenProperties
      <3> QED
        BY <2>1, <3>1 DEF Disconnect
    <2>2. CASE Reconnect
      <3>1. wire = <<>> /\ wire' = wire /\ missed' = missed
        BY <2>2 DEF Reconnect, CurrentInv, WireFresh
      <3> QED
        BY <3>1, EmptySeq
    <2> QED
      BY <2>1, <2>2
  <1>3. \A k \in 1..Len(wire) : Mentioned(wire[k]) \subseteq Names
    BY <1>1, SignalTyped, ElementOfSeq
  <1>4. TypeOK'
    BY <1>1, <1>2, <1>3, EmptySeq DEF TypeOK
  <1>5. \A n \in Names : InFrames(n)' = InFrames(n) /\ (OnWire(n) => n \in missed')
    BY <1>1, <1>2 DEF InFrames, OnWire
  <1>6. \A n \in Names : Coming(n) => Coming(n)'
    BY <1>2, <1>5 DEF Coming
  <1>7. StepInv' /\ UniformInv' /\ WireFresh'
    BY <1>1, <1>2, EmptySeq DEF CurrentInv, StepInv, UniformInv, WireFresh
  <1>8. MsgFresh' /\ SeenFresh'
    BY <1>1, <1>6 DEF CurrentInv, MsgFresh, SeenFresh
  <1>9. AnswerFresh'
    <2>1. answer # Nothing => Head(msg.invalid) \in Names
      BY FetchedName DEF CurrentInv, StepInv
    <2> QED
      BY <1>1, <1>6, <2>1 DEF CurrentInv, AnswerFresh
  <1> QED
    BY <1>4, <1>7, <1>8, <1>9 DEF CurrentInv

-----------------------------------------------------------------------------
LEMMA CurrentStep == TypeOK /\ CurrentInv /\ [Next]_vars => (TypeOK /\ CurrentInv)'
  <1> SUFFICES ASSUME TypeOK, CurrentInv, [Next]_vars PROVE (TypeOK /\ CurrentInv)'
    OBVIOUS
  <1>1. ASSUME NEW n \in Names, Set(n) PROVE (TypeOK /\ CurrentInv)'
    BY <1>1, SetCurrent
  <1>2. CASE Observe
    BY <1>2, ObserveCurrent
  <1>3. CASE Emit
    BY <1>3, EmitCurrent
  <1>4. CASE Foreign
    BY <1>4, ForeignCurrent
  <1>5. ASSUME NEW n \in Names, Watch(n) PROVE (TypeOK /\ CurrentInv)'
    BY <1>5, WatchCurrent
  <1>6. CASE Dispatch
    BY <1>6, DispatchCurrent
  <1>7. CASE EntryTold
    BY <1>7, EntryToldCurrent
  <1>8. CASE EntrySkipped
    BY <1>8, EntrySkippedCurrent
  <1>9. CASE EntryMistyped
    BY <1>9, EntryMistypedCurrent
  <1>10. CASE EntriesDone \/ InvalidDone
    BY <1>10, DoneCurrent
  <1>11. CASE Fetch
    BY <1>11, FetchCurrent
  <1>12. CASE Serve
    BY <1>12, ServeCurrent
  <1>13. CASE Fetched
    BY <1>13, FetchedCurrent
  <1>14. CASE FetchFails
    BY <1>14, FetchFailsCurrent
  <1>15. CASE Disconnect \/ Reconnect
    BY <1>15, ConnectionCurrent
  <1>16. CASE UNCHANGED vars
    <2>1. UNCHANGED <<foreign, value, frames, connected, wire, watched, step, msg, answer, seen, missed>>
      BY <1>16 DEF vars, serverVars, clientVars
    <2>2. TypeOK'
      BY <2>1 DEF TypeOK
    <2>3. \A n \in Names : (InFrames(n) => InFrames(n)') /\ value'[n] = value[n]
      BY <2>1 DEF InFrames
    <2>4. CurrentInv'
      BY <2>1, <2>3, PendingStep DEF clientVars
    <2> QED
      BY <2>2, <2>4
  <1> QED
    BY <1>1, <1>2, <1>3, <1>4, <1>5, <1>6, <1>7, <1>8, <1>9, <1>10, <1>11, <1>12, <1>13, <1>14,
       <1>15, <1>16
    DEF Next, Owner, Handler

(* Every state is one of the declared types, for any properties and bounds.  *)
THEOREM PropertiesTyped == Spec => []TypeOK
  BY InitiallyCurrent, CurrentStep, PTL DEF Spec

(* A watcher that was told of a property ends with its value: for any number *)
(* of properties, any depth of nested calls of set(), an owner of this       *)
(* library or a foreign one, and with the connection lost and found again,   *)
(* when nothing is under way the last value told is the current one or the   *)
(* property is among those whose value was lost                              *)
(* (PropertyHandler.cpp:61-109, Method.hpp:179-193).                         *)
THEOREM WatchersEndCurrent == Spec => []SeenIsCurrent
  <1>1. Spec => [](TypeOK /\ CurrentInv)
    BY InitiallyCurrent, CurrentStep, PTL DEF Spec
  <1> QED
    BY <1>1, CurrentImplies, PTL
=============================================================================
