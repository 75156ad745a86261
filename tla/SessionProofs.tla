--------------------------- MODULE SessionProofs ---------------------------
(***************************************************************************)
(* Theorems about module Session, for any sets of objects, names and       *)
(* listeners, whatever sd-bus refuses and however often the daemon stops.  *)
(***************************************************************************)
EXTENDS Session, TLAPS

-----------------------------------------------------------------------------
(* The inductive invariant                                                 *)

InReconnect == {"name", "objects", "signals", "properties", "attach"}

\* Where the bus is, and what is queued, in each phase: doReconnect() is queued
\* only for a bus that is attached and dead, and runs with a bus of its own that
\* is not attached.
PhaseInv ==
    /\ pc \in InReconnect => ~attached /\ bus \in {"open", "lost"}
    /\ pc = "created" => ~attached
    /\ posted => attached /\ bus = "dead"
    /\ attached => bus # "none"
    /\ bus \in {"lost", "dead"} => conn < MaxConnects
    /\ pc = "name" => ~owned
    /\ pc \in InReconnect \ {"name"} /\ bus = "open" => owned = Named

Published(o) == slot[o] = conn /\ vtable[o] = entry[o]

\* A listener that was asked for on this connection.
Asked(l) == match[l] = conn \/ l \in refused

\* What the loops of reconnectSession have done so far.
ProgressInv ==
    /\ pc = "objects" => \A o \in Registered \ todo : Published(o)
    /\ pc \in {"signals", "properties", "attach"} =>
          \A o \in Registered : Published(o)

\* The listeners asked for on a connection that is alive: all, before run() and
\* while the bus is attached, and during doReconnect() those its loops came to.
AskedInv ==
    bus = "open" =>
        /\ pc = "created" \/ attached => \A l \in known : Asked(l)
        /\ pc = "signals" => \A l \in (known \cap Signals) \ todo : Asked(l)
        /\ pc = "properties" =>
              /\ \A l \in known \cap Signals : Asked(l)
              /\ \A l \in (known \cap Watches) \ todo : Asked(l)
        /\ pc = "attach" => \A l \in known : Asked(l)

SessionInv ==
    /\ TypeOK
    /\ PhaseInv
    /\ ProgressInv
    /\ AskedInv
    /\ PublishedDataAlive
    /\ SlotsOfThisBus
    /\ GivesUpForAReason

-----------------------------------------------------------------------------
LEMMA InitiallySessionInv == Init => SessionInv
  <1> SUFFICES ASSUME Init PROVE SessionInv
    OBVIOUS
  <1>1. TypeOK
    <2>1. conn \in 0 .. MaxConnects /\ bus \in {"none", "open", "lost", "dead"}
      BY SessionAssumption DEF Init
    <2>2. /\ entry \in [Objects -> [Names -> Versions]]
          /\ vtable \in [Objects -> [Names -> Versions]]
          /\ slot \in [Objects -> 0 .. MaxConnects]
          /\ match \in [Listeners -> 0 .. MaxConnects]
      BY SessionAssumption DEF Init, Versions, Empty
    <2>3. owned \in BOOLEAN
      BY DEF Init
    <2>4. QED
      BY <2>1, <2>2, <2>3 DEF Init, TypeOK
  <1>2. PhaseInv /\ ProgressInv
    BY DEF Init, PhaseInv, InReconnect, ProgressInv
  <1>3. AskedInv /\ GivesUpForAReason
    BY DEF Init, AskedInv, GivesUpForAReason
  <1>4. PublishedDataAlive /\ SlotsOfThisBus
    BY DEF Init, PublishedDataAlive, SlotsOfThisBus
  <1>5. QED
    BY <1>1, <1>2, <1>3, <1>4 DEF SessionInv

-----------------------------------------------------------------------------
(* One lemma for each part, one step for each action                       *)

LEMMA TypeStep ==
    ASSUME TypeOK, PhaseInv, [Next]_vars
    PROVE  TypeOK'
  <1>1. ASSUME NEW o \in Objects, NEW n \in Names, AddEntry(o, n)
        PROVE  TypeOK'
    BY <1>1, SessionAssumption DEF AddEntry, TypeOK, Versions, Empty,
       busVars, loopVars, objectVars, listenerVars
  <1>2. ASSUME NEW o \in Objects, Commit(o)
        PROVE  TypeOK'
    <2>1. entry[o] \in [Names -> Versions] /\ Empty \in [Names -> Versions]
      BY SessionAssumption DEF TypeOK, Versions, Empty
    <2>2. /\ slot' \in [Objects -> 0 .. MaxConnects]
          /\ vtable' \in [Objects -> [Names -> Versions]]
          /\ context' \in SUBSET Objects
      <3>1. CASE Accepted(o)
        BY <1>2, <2>1, <3>1 DEF Commit, TypeOK
      <3>2. CASE ~Accepted(o)
        BY <1>2, <2>1, <3>2, SessionAssumption DEF Commit, TypeOK
      <3>3. QED
        BY <3>1, <3>2
    <2>3. QED
      BY <1>2, <2>2 DEF Commit, TypeOK, busVars, loopVars, listenerVars
  <1>3. ASSUME NEW l \in Signals, ListenSignal(l)
        PROVE  TypeOK'
    BY <1>3, SessionAssumption DEF ListenSignal, MatchRules, SetMatch, TypeOK, Versions, Empty, busVars,
       loopVars, objectVars, listenerVars, Listeners
  <1>20. ASSUME NEW w \in Watches, WatchProperty(w)
        PROVE  TypeOK'
    BY <1>20, SessionAssumption DEF WatchProperty, MatchRules, SetMatch, TypeOK, Versions, Empty, busVars,
       loopVars, objectVars, listenerVars, Listeners
  <1>4. CASE DaemonStops
    BY <1>4, SessionAssumption DEF DaemonStops, TypeOK, Versions, Empty,
       busVars, loopVars, objectVars, listenerVars
  <1>5. CASE DaemonStarts
    BY <1>5, SessionAssumption DEF DaemonStarts, TypeOK, Versions, Empty,
       busVars, loopVars, objectVars, listenerVars
  <1>6. CASE Run
    BY <1>6, SessionAssumption DEF Run, TypeOK, Versions, Empty, busVars,
       loopVars, objectVars, listenerVars
  <1>7. CASE Disconnected
    BY <1>7, SessionAssumption DEF Disconnected, TypeOK, Versions, Empty,
       busVars, loopVars, objectVars, listenerVars
  <1>8. CASE StartReconnect
    <2>1. conn < MaxConnects
      BY <1>8 DEF StartReconnect, PhaseInv
    <2>2. /\ slot' \in [Objects -> 0 .. MaxConnects]
          /\ vtable' \in [Objects -> [Names -> Versions]]
          /\ match' \in [Listeners -> 0 .. MaxConnects]
      BY <1>8, SessionAssumption DEF StartReconnect, TypeOK, Versions, Empty
    <2>3. /\ bus' \in {"none", "open", "lost", "dead"}
          /\ conn' \in 0 .. MaxConnects
          /\ pc' \in {"idle", "name", "crashed"}
      BY <1>8, <2>1, SessionAssumption DEF StartReconnect, TypeOK
    <2>4. QED
      BY <1>8, <2>2, <2>3 DEF StartReconnect, TypeOK
  <1>9. CASE RequestName
    BY <1>9, SessionAssumption DEF RequestName, TypeOK, Versions, Empty,
       busVars, loopVars, objectVars, listenerVars, Registered
  <1>10. ASSUME NEW o \in Objects, PublishAgain(o)
        PROVE  TypeOK'
    BY <1>10, SessionAssumption DEF PublishAgain, Accepted, TypeOK, Versions,
       Empty, busVars, loopVars, objectVars, listenerVars, Listeners
  <1>11. ASSUME NEW l \in Listeners, ListenAgain(l)
        PROVE  TypeOK'
    BY <1>11, SessionAssumption DEF ListenAgain, MatchRules, SetMatch, TypeOK, Versions, Empty,
       busVars, loopVars, objectVars, listenerVars, Listeners
  <1>12. CASE NextLoop
    BY <1>12, SessionAssumption DEF NextLoop, TypeOK, Versions, Empty,
       busVars, loopVars, objectVars, listenerVars, Listeners
  <1>13. CASE Attach
    BY <1>13, SessionAssumption DEF Attach, TypeOK, Versions, Empty, busVars,
       loopVars, objectVars, listenerVars
  <1>14. CASE UNCHANGED vars
    BY <1>14, SessionAssumption DEF vars, TypeOK, Versions, Empty, busVars,
       loopVars, objectVars, listenerVars
  <1>15. QED
    BY <1>1, <1>2, <1>3, <1>20, <1>4, <1>5, <1>6, <1>7, <1>8, <1>9, <1>10, <1>11,
       <1>12, <1>13, <1>14 DEF Next, Reconnecting

LEMMA PhaseStep ==
    ASSUME TypeOK, PhaseInv, [Next]_vars
    PROVE  PhaseInv'
  <1>1. ASSUME NEW o \in Objects, NEW n \in Names, AddEntry(o, n)
        PROVE  PhaseInv'
    BY <1>1, SessionAssumption DEF AddEntry, PhaseInv, InReconnect, TypeOK,
       busVars, loopVars, objectVars, listenerVars, UserRuns
  <1>2. ASSUME NEW o \in Objects, Commit(o)
        PROVE  PhaseInv'
    BY <1>2, SessionAssumption DEF Commit, Accepted, PhaseInv, InReconnect,
       TypeOK, busVars, loopVars, objectVars, listenerVars, UserRuns
  <1>3. ASSUME NEW l \in Signals, ListenSignal(l)
        PROVE  PhaseInv'
    BY <1>3, SessionAssumption DEF ListenSignal, MatchRules, SetMatch, PhaseInv, InReconnect, TypeOK,
       busVars, loopVars, objectVars, listenerVars, UserRuns
  <1>20. ASSUME NEW w \in Watches, WatchProperty(w)
        PROVE  PhaseInv'
    BY <1>20, SessionAssumption DEF WatchProperty, MatchRules, SetMatch, PhaseInv, InReconnect, TypeOK,
       busVars, loopVars, objectVars, listenerVars, UserRuns
  <1>4. CASE DaemonStops
    BY <1>4, SessionAssumption DEF DaemonStops, PhaseInv, InReconnect,
       TypeOK, busVars, loopVars, objectVars, listenerVars
  <1>5. CASE DaemonStarts
    BY <1>5, SessionAssumption DEF DaemonStarts, PhaseInv, InReconnect,
       TypeOK, busVars, loopVars, objectVars, listenerVars
  <1>6. CASE Run
    BY <1>6, SessionAssumption DEF Run, PhaseInv, InReconnect, TypeOK,
       busVars, loopVars, objectVars, listenerVars
  <1>7. CASE Disconnected
    BY <1>7, SessionAssumption DEF Disconnected, PhaseInv, InReconnect,
       TypeOK, busVars, loopVars, objectVars, listenerVars
  <1>8. CASE StartReconnect
    BY <1>8, SessionAssumption DEF StartReconnect, PhaseInv, InReconnect,
       TypeOK, busVars, loopVars, objectVars, listenerVars
  <1>9. CASE RequestName
    BY <1>9, SessionAssumption DEF RequestName, PhaseInv, InReconnect,
       TypeOK, busVars, loopVars, objectVars, listenerVars
  <1>10. ASSUME NEW o \in Objects, PublishAgain(o)
        PROVE  PhaseInv'
    BY <1>10, SessionAssumption DEF PublishAgain, Accepted, PhaseInv,
       InReconnect, TypeOK, busVars, loopVars, objectVars, listenerVars
  <1>11. ASSUME NEW l \in Listeners, ListenAgain(l)
        PROVE  PhaseInv'
    BY <1>11, SessionAssumption DEF ListenAgain, MatchRules, SetMatch, PhaseInv, InReconnect,
       TypeOK, busVars, loopVars, objectVars, listenerVars
  <1>12. CASE NextLoop
    BY <1>12, SessionAssumption DEF NextLoop, PhaseInv, InReconnect, TypeOK,
       busVars, loopVars, objectVars, listenerVars
  <1>13. CASE Attach
    BY <1>13, SessionAssumption DEF Attach, PhaseInv, InReconnect, TypeOK,
       busVars, loopVars, objectVars, listenerVars
  <1>14. CASE UNCHANGED vars
    BY <1>14, SessionAssumption DEF vars, PhaseInv, InReconnect, TypeOK,
       busVars, loopVars, objectVars, listenerVars
  <1>15. QED
    BY <1>1, <1>2, <1>3, <1>20, <1>4, <1>5, <1>6, <1>7, <1>8, <1>9, <1>10, <1>11,
       <1>12, <1>13, <1>14 DEF Next, Reconnecting

LEMMA ProgressStep ==
    ASSUME TypeOK, PhaseInv, ProgressInv, [Next]_vars
    PROVE  ProgressInv'
  <1>1. ASSUME NEW o \in Objects, NEW n \in Names, AddEntry(o, n)
        PROVE  ProgressInv'
    BY <1>1, SessionAssumption DEF AddEntry, ProgressInv, Published,
       Registered, UserRuns, InReconnect, busVars, loopVars, objectVars,
       listenerVars
  <1>2. ASSUME NEW o \in Objects, Commit(o)
        PROVE  ProgressInv'
    BY <1>2, SessionAssumption DEF Commit, Accepted, ProgressInv, Published,
       Registered, UserRuns, InReconnect, busVars, loopVars, objectVars,
       listenerVars
  <1>3. ASSUME NEW l \in Signals, ListenSignal(l)
        PROVE  ProgressInv'
    BY <1>3, SessionAssumption DEF ListenSignal, MatchRules, SetMatch, ProgressInv, Published,
       Registered, UserRuns, InReconnect, busVars, loopVars, objectVars,
       listenerVars
  <1>20. ASSUME NEW w \in Watches, WatchProperty(w)
        PROVE  ProgressInv'
    BY <1>20, SessionAssumption DEF WatchProperty, MatchRules, SetMatch, ProgressInv, Published,
       Registered, UserRuns, InReconnect, busVars, loopVars, objectVars,
       listenerVars
  <1>4. CASE DaemonStops
    BY <1>4, SessionAssumption DEF DaemonStops, ProgressInv, Published,
       Registered, UserRuns, InReconnect, busVars, loopVars, objectVars,
       listenerVars
  <1>5. CASE DaemonStarts
    BY <1>5, SessionAssumption DEF DaemonStarts, ProgressInv, Published,
       Registered, UserRuns, InReconnect, busVars, loopVars, objectVars,
       listenerVars
  <1>6. CASE Run
    BY <1>6, SessionAssumption DEF Run, ProgressInv, Published, Registered,
       UserRuns, InReconnect, busVars, loopVars, objectVars, listenerVars
  <1>7. CASE Disconnected
    BY <1>7, SessionAssumption DEF Disconnected, ProgressInv, Published,
       Registered, UserRuns, InReconnect, busVars, loopVars, objectVars,
       listenerVars
  <1>8. CASE StartReconnect
    BY <1>8, SessionAssumption DEF StartReconnect, ProgressInv, Published,
       Registered, UserRuns, InReconnect, busVars, loopVars, objectVars,
       listenerVars
  <1>9. CASE RequestName
    BY <1>9, SessionAssumption DEF RequestName, ProgressInv, Published,
       Registered, UserRuns, InReconnect, busVars, loopVars, objectVars,
       listenerVars
  <1>10. ASSUME NEW o \in Objects, PublishAgain(o)
        PROVE  ProgressInv'
    <2>1. CASE Accepted(o)
      <3>1. /\ pc' = "objects" /\ entry' = entry /\ conn' = conn
            /\ todo' = todo \ {o}
        BY <1>10, <2>1 DEF PublishAgain, busVars
      <3>2. slot'[o] = conn /\ vtable'[o] = entry[o]
        BY <1>10, <2>1 DEF PublishAgain, TypeOK
      <3>3. \A x \in Objects \ {o} : slot'[x] = slot[x] /\ vtable'[x] = vtable[x]
        BY <1>10, <2>1 DEF PublishAgain, TypeOK
      <3>4. \A x \in Registered \ todo : Published(x)
        BY <1>10 DEF PublishAgain, ProgressInv
      <3>5. \A x \in Registered' \ todo' : Published(x)'
        BY <3>1, <3>2, <3>3, <3>4 DEF Published, Registered
      <3>6. QED
        BY <3>1, <3>5 DEF ProgressInv
    <2>2. CASE ~Accepted(o)
      BY <1>10, <2>2 DEF PublishAgain, ProgressInv
    <2>3. QED
      BY <2>1, <2>2
  <1>11. ASSUME NEW l \in Listeners, ListenAgain(l)
        PROVE  ProgressInv'
    BY <1>11, SessionAssumption DEF ListenAgain, MatchRules, SetMatch, ProgressInv, Published,
       Registered, UserRuns, InReconnect, busVars, loopVars, objectVars,
       listenerVars
  <1>12. CASE NextLoop
    BY <1>12, SessionAssumption DEF NextLoop, ProgressInv, Published,
       Registered, UserRuns, InReconnect, busVars, loopVars, objectVars,
       listenerVars
  <1>13. CASE Attach
    BY <1>13, SessionAssumption DEF Attach, ProgressInv, Published,
       Registered, UserRuns, InReconnect, busVars, loopVars, objectVars,
       listenerVars
  <1>14. CASE UNCHANGED vars
    BY <1>14, SessionAssumption DEF vars, ProgressInv, Published, Registered,
       UserRuns, InReconnect, busVars, loopVars, objectVars, listenerVars
  <1>15. QED
    BY <1>1, <1>2, <1>3, <1>20, <1>4, <1>5, <1>6, <1>7, <1>8, <1>9, <1>10, <1>11,
       <1>12, <1>13, <1>14 DEF Next, Reconnecting

LEMMA AskedStep ==
    ASSUME TypeOK, PhaseInv, AskedInv, [Next]_vars
    PROVE  AskedInv'
  <1>1. ASSUME NEW o \in Objects, NEW n \in Names, AddEntry(o, n)
        PROVE  AskedInv'
    BY <1>1, SessionAssumption DEF AddEntry, AskedInv, Asked, UserRuns,
       TypeOK, Listeners, PhaseInv, InReconnect, busVars, loopVars,
       objectVars, listenerVars
  <1>2. ASSUME NEW o \in Objects, Commit(o)
        PROVE  AskedInv'
    BY <1>2, SessionAssumption DEF Commit, Accepted, AskedInv, Asked,
       UserRuns, TypeOK, Listeners, PhaseInv, InReconnect, busVars, loopVars,
       objectVars, listenerVars
  <1>3. ASSUME NEW l \in Signals, ListenSignal(l)
        PROVE  AskedInv'
    BY <1>3, SessionAssumption DEF ListenSignal, MatchRules, SetMatch, AskedInv, Asked, UserRuns, TypeOK,
       Listeners, PhaseInv, InReconnect, busVars, loopVars, objectVars,
       listenerVars
  <1>20. ASSUME NEW w \in Watches, WatchProperty(w)
        PROVE  AskedInv'
    BY <1>20, SessionAssumption DEF WatchProperty, MatchRules, SetMatch, AskedInv, Asked, UserRuns, TypeOK,
       Listeners, PhaseInv, InReconnect, busVars, loopVars, objectVars,
       listenerVars
  <1>4. CASE DaemonStops
    BY <1>4, SessionAssumption DEF DaemonStops, AskedInv, Asked, UserRuns,
       TypeOK, Listeners, PhaseInv, InReconnect, busVars, loopVars,
       objectVars, listenerVars
  <1>5. CASE DaemonStarts
    BY <1>5, SessionAssumption DEF DaemonStarts, AskedInv, Asked, UserRuns,
       TypeOK, Listeners, PhaseInv, InReconnect, busVars, loopVars,
       objectVars, listenerVars
  <1>6. CASE Run
    BY <1>6, SessionAssumption DEF Run, AskedInv, Asked, UserRuns, TypeOK,
       Listeners, PhaseInv, InReconnect, busVars, loopVars, objectVars,
       listenerVars
  <1>7. CASE Disconnected
    BY <1>7, SessionAssumption DEF Disconnected, AskedInv, Asked, UserRuns,
       TypeOK, Listeners, PhaseInv, InReconnect, busVars, loopVars,
       objectVars, listenerVars
  <1>8. CASE StartReconnect
    BY <1>8, SessionAssumption DEF StartReconnect, AskedInv, Asked, UserRuns,
       TypeOK, Listeners, PhaseInv, InReconnect, busVars, loopVars,
       objectVars, listenerVars
  <1>9. CASE RequestName
    BY <1>9, SessionAssumption DEF RequestName, AskedInv, Asked, UserRuns,
       TypeOK, Listeners, PhaseInv, InReconnect, busVars, loopVars,
       objectVars, listenerVars
  <1>10. ASSUME NEW o \in Objects, PublishAgain(o)
        PROVE  AskedInv'
    BY <1>10, SessionAssumption DEF PublishAgain, Accepted, AskedInv, Asked,
       UserRuns, TypeOK, Listeners, PhaseInv, InReconnect, busVars, loopVars,
       objectVars, listenerVars
  <1>11. ASSUME NEW l \in Listeners, ListenAgain(l)
        PROVE  AskedInv'
    BY <1>11, SessionAssumption DEF ListenAgain, MatchRules, SetMatch, AskedInv, Asked, UserRuns,
       TypeOK, Listeners, PhaseInv, InReconnect, busVars, loopVars,
       objectVars, listenerVars
  <1>12. CASE NextLoop
    BY <1>12, SessionAssumption DEF NextLoop, AskedInv, Asked, UserRuns,
       TypeOK, Listeners, PhaseInv, InReconnect, busVars, loopVars,
       objectVars, listenerVars
  <1>13. CASE Attach
    BY <1>13, SessionAssumption DEF Attach, AskedInv, Asked, UserRuns,
       TypeOK, Listeners, PhaseInv, InReconnect, busVars, loopVars,
       objectVars, listenerVars
  <1>14. CASE UNCHANGED vars
    BY <1>14, SessionAssumption DEF vars, AskedInv, Asked, UserRuns, TypeOK,
       Listeners, PhaseInv, InReconnect, busVars, loopVars, objectVars,
       listenerVars
  <1>15. QED
    BY <1>1, <1>2, <1>3, <1>20, <1>4, <1>5, <1>6, <1>7, <1>8, <1>9, <1>10, <1>11,
       <1>12, <1>13, <1>14 DEF Next, Reconnecting

LEMMA PublishedStep ==
    ASSUME TypeOK, PublishedDataAlive, [Next]_vars
    PROVE  PublishedDataAlive'
  <1>1. ASSUME NEW o \in Objects, NEW n \in Names, AddEntry(o, n)
        PROVE  PublishedDataAlive'
    BY <1>1, SessionAssumption DEF AddEntry, PublishedDataAlive, TypeOK,
       Versions, busVars, loopVars, objectVars, listenerVars
  <1>2. ASSUME NEW o \in Objects, Commit(o)
        PROVE  PublishedDataAlive'
    BY <1>2, SessionAssumption DEF Commit, Accepted, PublishedDataAlive,
       TypeOK, Versions, busVars, loopVars, objectVars, listenerVars
  <1>3. ASSUME NEW l \in Signals, ListenSignal(l)
        PROVE  PublishedDataAlive'
    BY <1>3, SessionAssumption DEF ListenSignal, MatchRules, SetMatch, PublishedDataAlive, TypeOK,
       Versions, busVars, loopVars, objectVars, listenerVars
  <1>20. ASSUME NEW w \in Watches, WatchProperty(w)
        PROVE  PublishedDataAlive'
    BY <1>20, SessionAssumption DEF WatchProperty, MatchRules, SetMatch, PublishedDataAlive, TypeOK,
       Versions, busVars, loopVars, objectVars, listenerVars
  <1>4. CASE DaemonStops
    BY <1>4, SessionAssumption DEF DaemonStops, PublishedDataAlive, TypeOK,
       Versions, busVars, loopVars, objectVars, listenerVars
  <1>5. CASE DaemonStarts
    BY <1>5, SessionAssumption DEF DaemonStarts, PublishedDataAlive, TypeOK,
       Versions, busVars, loopVars, objectVars, listenerVars
  <1>6. CASE Run
    BY <1>6, SessionAssumption DEF Run, PublishedDataAlive, TypeOK, Versions,
       busVars, loopVars, objectVars, listenerVars
  <1>7. CASE Disconnected
    BY <1>7, SessionAssumption DEF Disconnected, PublishedDataAlive, TypeOK,
       Versions, busVars, loopVars, objectVars, listenerVars
  <1>8. CASE StartReconnect
    BY <1>8, SessionAssumption DEF StartReconnect, PublishedDataAlive,
       TypeOK, Versions, busVars, loopVars, objectVars, listenerVars
  <1>9. CASE RequestName
    BY <1>9, SessionAssumption DEF RequestName, PublishedDataAlive, TypeOK,
       Versions, busVars, loopVars, objectVars, listenerVars
  <1>10. ASSUME NEW o \in Objects, PublishAgain(o)
        PROVE  PublishedDataAlive'
    BY <1>10, SessionAssumption DEF PublishAgain, Accepted,
       PublishedDataAlive, TypeOK, Versions, busVars, loopVars, objectVars,
       listenerVars
  <1>11. ASSUME NEW l \in Listeners, ListenAgain(l)
        PROVE  PublishedDataAlive'
    BY <1>11, SessionAssumption DEF ListenAgain, MatchRules, SetMatch, PublishedDataAlive, TypeOK,
       Versions, busVars, loopVars, objectVars, listenerVars
  <1>12. CASE NextLoop
    BY <1>12, SessionAssumption DEF NextLoop, PublishedDataAlive, TypeOK,
       Versions, busVars, loopVars, objectVars, listenerVars
  <1>13. CASE Attach
    BY <1>13, SessionAssumption DEF Attach, PublishedDataAlive, TypeOK,
       Versions, busVars, loopVars, objectVars, listenerVars
  <1>14. CASE UNCHANGED vars
    BY <1>14, SessionAssumption DEF vars, PublishedDataAlive, TypeOK,
       Versions, busVars, loopVars, objectVars, listenerVars
  <1>15. QED
    BY <1>1, <1>2, <1>3, <1>20, <1>4, <1>5, <1>6, <1>7, <1>8, <1>9, <1>10, <1>11,
       <1>12, <1>13, <1>14 DEF Next, Reconnecting

LEMMA SlotsStep ==
    ASSUME TypeOK, PhaseInv, SlotsOfThisBus, [Next]_vars
    PROVE  SlotsOfThisBus'
  <1>1. ASSUME NEW o \in Objects, NEW n \in Names, AddEntry(o, n)
        PROVE  SlotsOfThisBus'
    BY <1>1, SessionAssumption DEF AddEntry, SlotsOfThisBus, TypeOK,
       PhaseInv, InReconnect, busVars, loopVars, objectVars, listenerVars
  <1>2. ASSUME NEW o \in Objects, Commit(o)
        PROVE  SlotsOfThisBus'
    BY <1>2, SessionAssumption DEF Commit, Accepted, SlotsOfThisBus, TypeOK,
       PhaseInv, InReconnect, busVars, loopVars, objectVars, listenerVars
  <1>3. ASSUME NEW l \in Signals, ListenSignal(l)
        PROVE  SlotsOfThisBus'
    BY <1>3, SessionAssumption DEF ListenSignal, MatchRules, SetMatch, SlotsOfThisBus, TypeOK, PhaseInv,
       InReconnect, busVars, loopVars, objectVars, listenerVars
  <1>20. ASSUME NEW w \in Watches, WatchProperty(w)
        PROVE  SlotsOfThisBus'
    BY <1>20, SessionAssumption DEF WatchProperty, MatchRules, SetMatch, SlotsOfThisBus, TypeOK, PhaseInv,
       InReconnect, busVars, loopVars, objectVars, listenerVars
  <1>4. CASE DaemonStops
    BY <1>4, SessionAssumption DEF DaemonStops, SlotsOfThisBus, TypeOK,
       PhaseInv, InReconnect, busVars, loopVars, objectVars, listenerVars
  <1>5. CASE DaemonStarts
    BY <1>5, SessionAssumption DEF DaemonStarts, SlotsOfThisBus, TypeOK,
       PhaseInv, InReconnect, busVars, loopVars, objectVars, listenerVars
  <1>6. CASE Run
    BY <1>6, SessionAssumption DEF Run, SlotsOfThisBus, TypeOK, PhaseInv,
       InReconnect, busVars, loopVars, objectVars, listenerVars
  <1>7. CASE Disconnected
    BY <1>7, SessionAssumption DEF Disconnected, SlotsOfThisBus, TypeOK,
       PhaseInv, InReconnect, busVars, loopVars, objectVars, listenerVars
  <1>8. CASE StartReconnect
    BY <1>8, SessionAssumption DEF StartReconnect, SlotsOfThisBus, TypeOK,
       PhaseInv, InReconnect, busVars, loopVars, objectVars, listenerVars
  <1>9. CASE RequestName
    BY <1>9, SessionAssumption DEF RequestName, SlotsOfThisBus, TypeOK,
       PhaseInv, InReconnect, busVars, loopVars, objectVars, listenerVars
  <1>10. ASSUME NEW o \in Objects, PublishAgain(o)
        PROVE  SlotsOfThisBus'
    BY <1>10, SessionAssumption DEF PublishAgain, Accepted, SlotsOfThisBus,
       TypeOK, PhaseInv, InReconnect, busVars, loopVars, objectVars,
       listenerVars
  <1>11. ASSUME NEW l \in Listeners, ListenAgain(l)
        PROVE  SlotsOfThisBus'
    BY <1>11, SessionAssumption DEF ListenAgain, MatchRules, SetMatch, SlotsOfThisBus, TypeOK,
       PhaseInv, InReconnect, busVars, loopVars, objectVars, listenerVars
  <1>12. CASE NextLoop
    BY <1>12, SessionAssumption DEF NextLoop, SlotsOfThisBus, TypeOK,
       PhaseInv, InReconnect, busVars, loopVars, objectVars, listenerVars
  <1>13. CASE Attach
    BY <1>13, SessionAssumption DEF Attach, SlotsOfThisBus, TypeOK, PhaseInv,
       InReconnect, busVars, loopVars, objectVars, listenerVars
  <1>14. CASE UNCHANGED vars
    BY <1>14, SessionAssumption DEF vars, SlotsOfThisBus, TypeOK, PhaseInv,
       InReconnect, busVars, loopVars, objectVars, listenerVars
  <1>15. QED
    BY <1>1, <1>2, <1>3, <1>20, <1>4, <1>5, <1>6, <1>7, <1>8, <1>9, <1>10, <1>11,
       <1>12, <1>13, <1>14 DEF Next, Reconnecting

LEMMA GivesUpStep ==
    ASSUME TypeOK, PhaseInv, GivesUpForAReason, [Next]_vars
    PROVE  GivesUpForAReason'
  <1>1. ASSUME NEW o \in Objects, NEW n \in Names, AddEntry(o, n)
        PROVE  GivesUpForAReason'
    BY <1>1, SessionAssumption DEF AddEntry, GivesUpForAReason, Registered,
       Accepted, Empty, UserRuns, TypeOK, Versions, PhaseInv, InReconnect,
       busVars, loopVars, objectVars, listenerVars
  <1>2. ASSUME NEW o \in Objects, Commit(o)
        PROVE  GivesUpForAReason'
    BY <1>2, SessionAssumption DEF Commit, Accepted, GivesUpForAReason,
       Registered, Accepted, Empty, UserRuns, TypeOK, Versions, PhaseInv,
       InReconnect, busVars, loopVars, objectVars, listenerVars
  <1>3. ASSUME NEW l \in Signals, ListenSignal(l)
        PROVE  GivesUpForAReason'
    BY <1>3, SessionAssumption DEF ListenSignal, MatchRules, SetMatch, GivesUpForAReason, Registered,
       Accepted, Empty, UserRuns, TypeOK, Versions, PhaseInv, InReconnect,
       busVars, loopVars, objectVars, listenerVars
  <1>20. ASSUME NEW w \in Watches, WatchProperty(w)
        PROVE  GivesUpForAReason'
    BY <1>20, SessionAssumption DEF WatchProperty, MatchRules, SetMatch, GivesUpForAReason, Registered,
       Accepted, Empty, UserRuns, TypeOK, Versions, PhaseInv, InReconnect,
       busVars, loopVars, objectVars, listenerVars
  <1>4. CASE DaemonStops
    BY <1>4, SessionAssumption DEF DaemonStops, GivesUpForAReason,
       Registered, Accepted, Empty, UserRuns, TypeOK, Versions, PhaseInv,
       InReconnect, busVars, loopVars, objectVars, listenerVars
  <1>5. CASE DaemonStarts
    BY <1>5, SessionAssumption DEF DaemonStarts, GivesUpForAReason,
       Registered, Accepted, Empty, UserRuns, TypeOK, Versions, PhaseInv,
       InReconnect, busVars, loopVars, objectVars, listenerVars
  <1>6. CASE Run
    BY <1>6, SessionAssumption DEF Run, GivesUpForAReason, Registered,
       Accepted, Empty, UserRuns, TypeOK, Versions, PhaseInv, InReconnect,
       busVars, loopVars, objectVars, listenerVars
  <1>7. CASE Disconnected
    BY <1>7, SessionAssumption DEF Disconnected, GivesUpForAReason,
       Registered, Accepted, Empty, UserRuns, TypeOK, Versions, PhaseInv,
       InReconnect, busVars, loopVars, objectVars, listenerVars
  <1>8. CASE StartReconnect
    BY <1>8, SessionAssumption DEF StartReconnect, GivesUpForAReason,
       Registered, Accepted, Empty, UserRuns, TypeOK, Versions, PhaseInv,
       InReconnect, busVars, loopVars, objectVars, listenerVars
  <1>9. CASE RequestName
    BY <1>9, SessionAssumption DEF RequestName, GivesUpForAReason,
       Registered, Accepted, Empty, UserRuns, TypeOK, Versions, PhaseInv,
       InReconnect, busVars, loopVars, objectVars, listenerVars
  <1>10. ASSUME NEW o \in Objects, PublishAgain(o)
        PROVE  GivesUpForAReason'
    BY <1>10, SessionAssumption DEF PublishAgain, Accepted,
       GivesUpForAReason, Registered, Accepted, Empty, UserRuns, TypeOK,
       Versions, PhaseInv, InReconnect, busVars, loopVars, objectVars,
       listenerVars
  <1>11. ASSUME NEW l \in Listeners, ListenAgain(l)
        PROVE  GivesUpForAReason'
    BY <1>11, SessionAssumption DEF ListenAgain, MatchRules, SetMatch, GivesUpForAReason,
       Registered, Accepted, Empty, UserRuns, TypeOK, Versions, PhaseInv,
       InReconnect, busVars, loopVars, objectVars, listenerVars
  <1>12. CASE NextLoop
    BY <1>12, SessionAssumption DEF NextLoop, GivesUpForAReason, Registered,
       Accepted, Empty, UserRuns, TypeOK, Versions, PhaseInv, InReconnect,
       busVars, loopVars, objectVars, listenerVars
  <1>13. CASE Attach
    BY <1>13, SessionAssumption DEF Attach, GivesUpForAReason, Registered,
       Accepted, Empty, UserRuns, TypeOK, Versions, PhaseInv, InReconnect,
       busVars, loopVars, objectVars, listenerVars
  <1>14. CASE UNCHANGED vars
    BY <1>14, SessionAssumption DEF vars, GivesUpForAReason, Registered,
       Accepted, Empty, UserRuns, TypeOK, Versions, PhaseInv, InReconnect,
       busVars, loopVars, objectVars, listenerVars
  <1>15. QED
    BY <1>1, <1>2, <1>3, <1>20, <1>4, <1>5, <1>6, <1>7, <1>8, <1>9, <1>10, <1>11,
       <1>12, <1>13, <1>14 DEF Next, Reconnecting
-----------------------------------------------------------------------------
LEMMA SessionInvAlways == Spec => []SessionInv
  <1>1. SessionInv /\ [Next]_vars => SessionInv'
    BY TypeStep, PhaseStep, ProgressStep, AskedStep, PublishedStep, SlotsStep,
       GivesUpStep DEF SessionInv
  <1>2. QED
    BY <1>1, InitiallySessionInv, PTL DEF Spec

\* The variables keep their types.
THEOREM TypeCorrect == Spec => []TypeOK
  BY SessionInvAlways, PTL DEF SessionInv

\* A vtable never refers to data that a later registration has released, once
\* that registration is committed (SessionPrivate::commitBuilder).
THEOREM VtableDataAlive == Spec => []PublishedDataAlive
  BY SessionInvAlways, PTL DEF SessionInv

\* No slot outlives the connection it was made on (SessionPrivate::reconnect).
THEOREM NoOldSlots == Spec => []SlotsOfThisBus
  BY SessionInvAlways, PTL DEF SessionInv

\* A loop without a bus has a reason: no daemon, no name, a refused object.
THEOREM GivingUpHasReason == Spec => []GivesUpForAReason
  BY SessionInvAlways, PTL DEF SessionInv

\* While the bus is attached and its connection alive, every listener is heard or
\* was refused on this connection: whatever listenSignal() swallowed before, on an
\* earlier connection or on none, is asked for again by reconnectSession().
THEOREM NoListenerIsForgotten == Spec => []DeafOnlyIfRefused
  <1>1. SessionInv => DeafOnlyIfRefused
    BY DEF SessionInv, AskedInv, Asked, DeafOnlyIfRefused
  <1>2. QED
    BY <1>1, SessionInvAlways, PTL

\* doReconnect() attaches the new bus only with every object published with its
\* current data, the name owned, and every listener heard or refused.
THEOREM ReconnectRestores == Spec => ReconnectIsComplete
  <1>1. SessionInv /\ [Next]_vars =>
          [pc = "attach" /\ pc' = "idle" =>
             /\ \A o \in Registered : slot'[o] = conn' /\ vtable'[o] = entry'[o]
             /\ bus' = "open" =>
                   /\ \A l \in known : match'[l] = conn' \/ l \in refused'
                   /\ owned' = Named]_vars
    <2> SUFFICES ASSUME SessionInv, [Next]_vars, pc = "attach", pc' = "idle"
                 PROVE  /\ \A o \in Registered :
                              slot'[o] = conn' /\ vtable'[o] = entry'[o]
                        /\ bus' = "open" =>
                              /\ \A l \in known : match'[l] = conn' \/ l \in refused'
                              /\ owned' = Named
      OBVIOUS
    <2>1. Attach
      BY DEF Next, Reconnecting, AddEntry, Commit, ListenSignal, WatchProperty, UserRuns, DaemonStops,
         DaemonStarts, Run, Disconnected, StartReconnect, RequestName,
         PublishAgain, ListenAgain, NextLoop, vars, loopVars
    <2>2. QED
      BY <2>1 DEF Attach, busVars, objectVars, listenerVars, SessionInv, PhaseInv,
         InReconnect, ProgressInv, Published, AskedInv, Asked
  <1>2. QED
    BY <1>1, SessionInvAlways, PTL DEF Spec, ReconnectIsComplete
=============================================================================
