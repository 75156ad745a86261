---------------------------- MODULE ClientProofs ----------------------------
(***************************************************************************)
(* Theorems about module Client, for any threads, services, buses, pools   *)
(* and clients.                                                            *)
(***************************************************************************)
EXTENDS Client, SequenceTheorems, TLAPS

-----------------------------------------------------------------------------
(* The inductive invariant                                                 *)

\* The loop of a pool that a client has was not stopped.
OwnedRuns == \A c \in Clients : Alive(c) => pool[owner[c]] \in {"running", "failed"}

\* A pool is stopped by the one destructor that joins its thread.
JoinersAlone ==
    \A a \in Actors : at[a].pc = "join" =>
        /\ at[a].pool \in Pools /\ pool[at[a].pool] \in {"stopping", "ended"}
        /\ \A b \in Actors : Joins(b, at[a].pool) => b = a
SomeoneJoins ==
    \A p \in Pools : pool[p] \in {"stopping", "ended"} => \E a \in Actors : Joins(a, p)

\* Who waits for a loop does so through a client that has it, ...
CallsOwned ==
    \A a \in Actors : at[a].pc \in {"task", "reply"} =>
        /\ at[a].client \in Clients /\ at[a].pool \in Pools
        /\ owner[at[a].client] = at[a].pool
\* ... and who is named in a queue waits for that task.
QueueWaits ==
    \A p \in Pools : \A i \in 1..Len(queue[p]) :
        /\ at[queue[p][i].actor].pc = "task" /\ at[queue[p][i].actor].pool = p
        /\ \A j \in 1..Len(queue[p]) : queue[p][j].actor = queue[p][i].actor => j = i

\* Who makes a pool makes the client it is for; for a service it does so alone.
Makers ==
    \A a \in Actors : at[a].pc = "create" =>
        /\ at[a].client \in Clients /\ ~Alive(at[a].client) /\ at[a].key \in Keys
        /\ \A b \in Actors : at[b].client = at[a].client => b = a
        /\ at[a].key \in Peers => lock = a /\ weak[at[a].key] = None

\* A pool that can be found is in use, and the pool of a service can be found.
WeakIsLive == \A k \in Keys : weak[k] # None => key[weak[k]] = k /\ Live(weak[k])
PeerIsFound ==
    \A c \in Clients : Alive(c) /\ key[owner[c]] \in Peers => weak[key[owner[c]]] = owner[c]

AtType == [pc : {"free", "create", "task", "reply", "join"},
           client : Clients \union {None}, pool : Pools \union {None},
           key : Keys \union {None}]

ClientInv ==
    /\ TypeOK /\ OwnedRuns /\ JoinersAlone /\ SomeoneJoins /\ CallsOwned
    /\ QueueWaits /\ Makers /\ WeakIsLive /\ PeerIsFound

-----------------------------------------------------------------------------
LEMMA InitiallyClientInv == Init => ClientInv
  <1> SUFFICES ASSUME Init PROVE ClientInv
    OBVIOUS
  <1>1. TypeOK
    <2>1. at \in [Actors -> AtType]
      BY DEF Init, Free, State, AtType
    <2>2. queue \in [Pools -> Seq([actor : Actors, listen : BOOLEAN])]
      BY DEF Init
    <2> QED
      BY <2>1, <2>2 DEF Init, TypeOK, AtType
  <1>2. OwnedRuns /\ JoinersAlone /\ SomeoneJoins /\ CallsOwned /\ Makers /\ WeakIsLive /\ PeerIsFound
    BY DEF Init, OwnedRuns, Alive, JoinersAlone, SomeoneJoins, CallsOwned, Makers, WeakIsLive,
           PeerIsFound, Free, State
  <1>3. QueueWaits
    BY DEF Init, QueueWaits
  <1> QED
    BY <1>1, <1>2, <1>3 DEF ClientInv

\* A free actor waits for nothing and is in no queue.
LEMMA FreeIsNowhere ==
    ASSUME ClientInv, NEW a \in Actors, at[a] = Free
    PROVE  /\ at[a].pc = "free" /\ at[a].client = None /\ at[a].pool = None
           /\ \A p \in Pools : ~Joins(a, p) /\ ~Calls(a, p)
           /\ \A p \in Pools : \A i \in 1..Len(queue[p]) : queue[p][i].actor # a
  BY DEF Free, State, ClientInv, QueueWaits, Joins, Calls

LEMMA QueuedAreActors ==
    ASSUME ClientInv
    PROVE  \A p \in Pools : \A i \in 1..Len(queue[p]) : queue[p][i].actor \in Actors
  <1> SUFFICES ASSUME NEW p \in Pools, NEW i \in 1..Len(queue[p])
               PROVE  queue[p][i].actor \in Actors
    OBVIOUS
  <1>1. queue[p] \in Seq([actor : Actors, listen : BOOLEAN])
    BY DEF ClientInv, TypeOK
  <1>2. queue[p][i] \in [actor : Actors, listen : BOOLEAN]
    BY <1>1, ElementOfSeq
  <1> QED
    BY <1>2

-----------------------------------------------------------------------------
(* The steps of the program                                                *)

LEMMA LookupStep ==
    ASSUME ClientInv, NEW a \in Actors, NEW c \in Clients, NEW k \in Keys, Lookup(a, c, k)
    PROVE  ClientInv'
  <1>1. TypeOK'
    <2>1. weak \in [Keys -> Pools \union {None}] /\ at \in [Actors -> AtType]
          /\ owner \in [Clients -> Pools \union {None}] /\ acted \subseteq Pools
      BY DEF ClientInv, TypeOK, AtType
    <2>2. owner' \in [Clients -> Pools \union {None}]
      BY <2>1 DEF Lookup
    <2>3. at' \in [Actors -> AtType]
      <3>1. [pc |-> "create", client |-> c, pool |-> None, key |-> k] \in AtType
        BY DEF AtType
      <3> QED
        BY <2>1, <3>1 DEF Lookup, State
    <2>4. lock' \in Actors \union {None}
      BY DEF Lookup, ClientInv, TypeOK
    <2>5. acted' \subseteq Pools
      BY <2>1 DEF Lookup, Acts
    <2> QED
      BY <2>2, <2>3, <2>4, <2>5 DEF Lookup, ClientInv, TypeOK, AtType
  <1>2. CASE weak[k] # None
    <2>1. /\ owner' = [owner EXCEPT ![c] = weak[k]]
          /\ UNCHANGED <<at, lock, weak, pool, key, queue>>
          /\ weak[k] \in Pools /\ key[weak[k]] = k /\ Live(weak[k])
          /\ owner \in [Clients -> Pools \union {None}] /\ owner[c] = None
      BY <1>2 DEF Lookup, ClientInv, TypeOK, WeakIsLive, Alive
    <2>2. OwnedRuns' /\ PeerIsFound'
      BY <2>1 DEF ClientInv, OwnedRuns, PeerIsFound, Live, Alive
    <2>3. (JoinersAlone /\ SomeoneJoins /\ QueueWaits)'
      BY <2>1 DEF ClientInv, JoinersAlone, SomeoneJoins, QueueWaits, Joins
    <2>4. (CallsOwned /\ Makers)'
      BY <2>1 DEF ClientInv, CallsOwned, Makers, Lookup, InUse, Alive
    <2>5. WeakIsLive'
      BY <2>1 DEF ClientInv, WeakIsLive, Live
    <2> QED
      BY <1>1, <2>2, <2>3, <2>4, <2>5 DEF ClientInv
  <1>3. CASE weak[k] = None
    <2>1. /\ at' = [at EXCEPT ![a] = [pc |-> "create", client |-> c, pool |-> None, key |-> k]]
          /\ UNCHANGED <<owner, weak, pool, key, queue>>
          /\ at[a] = Free /\ at[a].pc = "free"
          /\ lock' = IF k \in Peers THEN a ELSE lock
          /\ k \in Peers => lock = None
      <3>1. at[a].pc = "free"
        BY FreeIsNowhere DEF Lookup, Ready
      <3> QED
        BY <1>3, <3>1 DEF Lookup, Ready, State
    <2>a. at \in [Actors -> [pc : {"free", "create", "task", "reply", "join"},
                          client : Clients \union {None}, pool : Pools \union {None},
                          key : Keys \union {None}]]
      BY DEF ClientInv, TypeOK
    <2>b. \A b \in Actors : b # a => at'[b] = at[b]
      BY <2>1, <2>a
    <2>c. at'[a].pc = "create" /\ at'[a].client = c /\ at'[a].key = k
      BY <2>1, <2>a
    <2>2. OwnedRuns' /\ PeerIsFound' /\ WeakIsLive'
      BY <2>1 DEF ClientInv, OwnedRuns, PeerIsFound, WeakIsLive, Live, Alive
    <2>3. JoinersAlone'
      BY <2>1, <2>b, <2>c DEF ClientInv, JoinersAlone, Joins
    <2>4. SomeoneJoins'
      <3> SUFFICES ASSUME NEW p \in Pools, pool[p] \in {"stopping", "ended"}
                   PROVE  \E b \in Actors : Joins(b, p)'
        BY <2>1 DEF SomeoneJoins
      <3>1. PICK b \in Actors : Joins(b, p)
        BY DEF ClientInv, SomeoneJoins
      <3> QED
        BY <3>1, <2>1, <2>b DEF Joins
    <2>5. CallsOwned'
      BY <2>1, <2>b, <2>c DEF ClientInv, CallsOwned
    <2>6. QueueWaits'
      <3>1. \A p \in Pools : \A i \in 1..Len(queue[p]) : queue[p][i].actor # a /\ queue[p][i].actor \in Actors
        BY <2>1, FreeIsNowhere, QueuedAreActors
      <3> QED
        BY <2>1, <2>b, <3>1 DEF ClientInv, QueueWaits
    <2>7. Makers'
      <3> SUFFICES ASSUME NEW b \in Actors, at'[b].pc = "create"
                   PROVE  /\ at'[b].client \in Clients /\ owner'[at'[b].client] = None
                          /\ at'[b].key \in Keys
                          /\ \A e \in Actors : at'[e].client = at'[b].client => e = b
                          /\ at'[b].key \in Peers => lock' = b /\ weak'[at'[b].key] = None
        BY DEF Makers, Alive
      <3>1. \A e \in Actors : at[e].client # c
        BY DEF Lookup, InUse
      <3>2. CASE b = a
        BY <3>1, <3>2, <2>1, <2>b, <2>c, <1>3 DEF Lookup, Alive
      <3>3. CASE b # a
        BY <3>1, <3>3, <2>1, <2>b, <2>c, NamesAssumption DEF ClientInv, Makers, Alive, Actors
      <3> QED
        BY <3>2, <3>3
    <2> QED
      BY <1>1, <2>2, <2>3, <2>4, <2>5, <2>6, <2>7 DEF ClientInv
  <1> QED
    BY <1>2, <1>3

\* What Destroy and MoveAssign have in common: clients that nobody uses change hands,
\* and the pool that one of them let go of is torn down if it was the last.
LEMMA ReleaseStep ==
    ASSUME ClientInv, NEW a \in Actors, Ready(a),
           NEW p \in Pools \union {None}, p # None => Live(p), Release(a, p),
           UNCHANGED <<key, lock, queue>>,
           owner' \in [Clients -> Pools \union {None}],
           \A c \in Clients : owner'[c] # None => \E d \in Clients : owner[d] = owner'[c],
           \A q \in Pools : Live(q) /\ q # p => Live(q)',
           \A c \in Clients : owner'[c] # owner[c] => ~InUse(c)
    PROVE  (OwnedRuns /\ JoinersAlone /\ SomeoneJoins /\ CallsOwned
               /\ QueueWaits /\ Makers /\ WeakIsLive /\ PeerIsFound)'
  <1>1. CASE p = None \/ Live(p)'
    <2>1. UNCHANGED <<pool, weak, at, key, lock, queue>>
      BY <1>1 DEF Release, Live
    <2>2. OwnedRuns' /\ PeerIsFound'
      BY <2>1 DEF ClientInv, OwnedRuns, PeerIsFound, Alive
    <2>3. (JoinersAlone /\ SomeoneJoins /\ QueueWaits)'
      BY <2>1 DEF ClientInv, JoinersAlone, SomeoneJoins, QueueWaits, Joins
    <2>4. (CallsOwned /\ Makers)'
      BY <2>1 DEF ClientInv, CallsOwned, Makers, InUse, Alive
    <2>5. WeakIsLive'
      <3>1. \A k \in Keys : weak[k] # None => weak[k] \in Pools
        BY DEF ClientInv, TypeOK
      <3> QED
        BY <1>1, <2>1, <3>1 DEF ClientInv, WeakIsLive
    <2> QED
      BY <2>2, <2>3, <2>4, <2>5
  <1>2. CASE p \in Pools /\ ~Live(p)'
    <2>1. /\ pool' = [pool EXCEPT ![p] = IF @ = "running" THEN "stopping" ELSE "ended"]
          /\ weak' = [k \in Keys |-> IF weak[k] = p THEN None ELSE weak[k]]
          /\ at' = [at EXCEPT ![a] = [pc |-> "join", client |-> None, pool |-> p, key |-> None]]
          /\ p # None
      BY <1>2, NamesAssumption DEF Release, Live, State
    <2>2. /\ at \in [Actors -> AtType]
          /\ pool \in [Pools -> {"unused", "running", "failed", "stopping", "ended"}]
          /\ weak \in [Keys -> Pools \union {None}]
      BY DEF ClientInv, TypeOK, AtType
    <2>3. /\ \A b \in Actors : b # a => at'[b] = at[b]
          /\ at'[a].pc = "join" /\ at'[a].pool = p /\ at'[a].client = None
      BY <2>1, <2>2
    <2>4. /\ pool[p] \in {"running", "failed"} /\ pool'[p] \in {"stopping", "ended"}
          /\ \A q \in Pools : q # p => pool'[q] = pool[q]
      BY <1>2, <2>1, <2>2 DEF ClientInv, OwnedRuns, Live, Alive
    <2>5. \A c \in Clients : owner'[c] # p
      BY <1>2 DEF Live
    <2>6. OwnedRuns'
      <3> SUFFICES ASSUME NEW c \in Clients, owner'[c] # None
                   PROVE  pool'[owner'[c]] \in {"running", "failed"}
        BY DEF OwnedRuns, Alive
      <3>1. PICK d \in Clients : owner[d] = owner'[c]
        OBVIOUS
      <3>2. pool[owner[d]] \in {"running", "failed"} /\ owner'[c] \in Pools
        BY <3>1 DEF ClientInv, OwnedRuns, Alive
      <3> QED
        BY <3>1, <3>2, <2>4, <2>5
    <2>7. JoinersAlone'
      <3> SUFFICES ASSUME NEW b \in Actors, at'[b].pc = "join"
                   PROVE  /\ at'[b].pool \in Pools /\ pool'[at'[b].pool] \in {"stopping", "ended"}
                          /\ \A e \in Actors : at'[e].pc = "join" /\ at'[e].pool = at'[b].pool => e = b
        BY DEF JoinersAlone, Joins
      <3>1. \A e \in Actors : at[e].pc = "join" => at[e].pool \in Pools /\ at[e].pool # p
        BY <2>4 DEF ClientInv, JoinersAlone
      <3>2. CASE b = a
        BY <3>1, <3>2, <2>3, <2>4, <1>2
      <3>3. CASE b # a
        <4>1. at[b].pc = "join" /\ at'[b] = at[b]
          BY <3>3, <2>3
        <4>2. /\ at[b].pool \in Pools /\ pool[at[b].pool] \in {"stopping", "ended"}
              /\ \A e \in Actors : at[e].pc = "join" /\ at[e].pool = at[b].pool => e = b
          BY <4>1 DEF ClientInv, JoinersAlone, Joins
        <4> QED
          BY <4>1, <4>2, <3>1, <2>3, <2>4
      <3> QED
        BY <3>2, <3>3
    <2>8. SomeoneJoins'
      <3> SUFFICES ASSUME NEW q \in Pools, pool'[q] \in {"stopping", "ended"}
                   PROVE  \E b \in Actors : at'[b].pc = "join" /\ at'[b].pool = q
        BY DEF SomeoneJoins, Joins
      <3>1. CASE q = p
        BY <3>1, <2>3
      <3>2. CASE q # p
        <4>1. PICK b \in Actors : at[b].pc = "join" /\ at[b].pool = q
          BY <3>2, <2>4 DEF ClientInv, SomeoneJoins, Joins
        <4>2. b # a
          BY <4>1, FreeIsNowhere DEF Ready
        <4> QED
          BY <4>1, <4>2, <2>3
      <3> QED
        BY <3>1, <3>2
    <2>9. CallsOwned'
      BY <2>3 DEF ClientInv, CallsOwned, InUse
    <2>10. QueueWaits'
      <3>1. \A q \in Pools : \A i \in 1..Len(queue[q]) :
               queue[q][i].actor # a /\ queue[q][i].actor \in Actors
        BY FreeIsNowhere, QueuedAreActors DEF Ready
      <3> QED
        BY <2>3, <3>1 DEF ClientInv, QueueWaits
    <2>11. Makers'
      <3> SUFFICES ASSUME NEW b \in Actors, at'[b].pc = "create"
                   PROVE  /\ at'[b].client \in Clients /\ owner'[at'[b].client] = None
                          /\ at'[b].key \in Keys
                          /\ \A e \in Actors : at'[e].client = at'[b].client => e = b
                          /\ at'[b].key \in Peers => lock' = b /\ weak'[at'[b].key] = None
        BY DEF Makers, Alive
      <3>1. b # a /\ at'[b] = at[b] /\ at[b].pc = "create"
        BY <2>3
      <3>2. /\ at[b].client \in Clients /\ owner[at[b].client] = None /\ at[b].key \in Keys
            /\ \A e \in Actors : at[e].client = at[b].client => e = b
            /\ at[b].key \in Peers => lock = b /\ weak[at[b].key] = None
        BY <3>1 DEF ClientInv, Makers, Alive
      <3>3. owner'[at[b].client] = None
        BY <3>2 DEF InUse
      <3>4. weak[at[b].key] = None => weak'[at[b].key] = None
        BY <2>1, <3>2
      <3>5. at[b].client # None
        BY <3>2, NamesAssumption
      <3> QED
        BY <3>1, <3>2, <3>3, <3>4, <3>5, <2>3
    <2>12. WeakIsLive'
      <3> SUFFICES ASSUME NEW k \in Keys, weak'[k] # None
                   PROVE  key[weak'[k]] = k /\ \E c \in Clients : owner'[c] = weak'[k]
        BY DEF WeakIsLive, Live
      <3>1. weak'[k] = weak[k] /\ weak[k] # p /\ weak[k] \in Pools
        BY <2>1, <2>2
      <3>2. key[weak[k]] = k /\ Live(weak[k])
        BY <3>1 DEF ClientInv, WeakIsLive
      <3>3. Live(weak[k])'
        BY <3>1, <3>2 DEF Live
      <3> QED
        BY <3>1, <3>2, <3>3 DEF Live
    <2>13. PeerIsFound'
      <3> SUFFICES ASSUME NEW c \in Clients, owner'[c] # None, key[owner'[c]] \in Peers
                   PROVE  weak'[key[owner'[c]]] = owner'[c]
        BY DEF PeerIsFound, Alive
      <3>1. PICK d \in Clients : owner[d] = owner'[c]
        OBVIOUS
      <3>2. weak[key[owner[d]]] = owner[d] /\ key[owner[d]] \in Keys
        BY <3>1 DEF ClientInv, PeerIsFound, Alive, Keys
      <3> QED
        BY <3>1, <3>2, <2>1, <2>5
    <2> QED
      BY <2>6, <2>7, <2>8, <2>9, <2>10, <2>11, <2>12, <2>13
  <1> QED
    BY <1>1, <1>2

LEMMA ReleaseTypes ==
    ASSUME TypeOK, NEW a \in Actors, NEW p \in Pools \union {None}, Release(a, p)
    PROVE  /\ pool' \in [Pools -> {"unused", "running", "failed", "stopping", "ended"}]
           /\ weak' \in [Keys -> Pools \union {None}]
           /\ at' \in [Actors -> AtType] /\ crashed' \in BOOLEAN
  <1>1. State("join", None, p, None) \in AtType
    BY DEF State, AtType
  <1>2. at \in [Actors -> AtType]
    BY DEF TypeOK, AtType
  <1>3. CASE UNCHANGED <<pool, weak, at, crashed>>
    BY <1>2, <1>3 DEF TypeOK
  <1>4. CASE ~UNCHANGED <<pool, weak, at, crashed>>
    <2>1. /\ pool' = [pool EXCEPT ![p] = IF @ = "running" THEN "stopping" ELSE "ended"]
          /\ weak' = [k \in Keys |-> IF weak[k] = p THEN None ELSE weak[k]]
          /\ at' = [at EXCEPT ![a] = State("join", None, p, None)]
          /\ crashed' = (a = p)
      BY <1>4 DEF Release
    <2>2. pool' \in [Pools -> {"unused", "running", "failed", "stopping", "ended"}]
      BY <2>1 DEF TypeOK
    <2>3. weak' \in [Keys -> Pools \union {None}]
      BY <2>1 DEF TypeOK
    <2>4. at' \in [Actors -> AtType]
      BY <1>1, <1>2, <2>1
    <2>5. crashed' \in BOOLEAN
      BY <2>1
    <2> QED
      BY <2>2, <2>3, <2>4, <2>5
  <1> QED
    BY <1>3, <1>4

\* Renaming keeps callbacks among the clients when the new names are.
LEMMA RenameTypes ==
    ASSUME TypeOK, NEW now, DOMAIN now \subseteq Clients,
           \A c \in DOMAIN now : now[c] \in Clients \union {Gone}, Rename(now)
    PROVE  /\ callback' \in [Pools -> Clients \union {Gone, None}]
           /\ listeners' \in [Pools -> SUBSET (Clients \union {Gone})]
  <1> DEFINE name(c) == IF c \in DOMAIN now THEN now[c] ELSE c
  <1>1. /\ listeners' = [p \in Pools |-> {name(c) : c \in listeners[p]}]
        /\ callback' = [p \in Pools |-> name(callback[p])]
    BY DEF Rename
  <1>2. \A c \in Clients \union {Gone} : name(c) \in Clients \union {Gone}
    OBVIOUS
  <1>3. \A c \in Clients \union {Gone, None} : name(c) \in Clients \union {Gone, None}
    OBVIOUS
  <1>4. /\ listeners \in [Pools -> SUBSET (Clients \union {Gone})]
        /\ callback \in [Pools -> Clients \union {Gone, None}]
    BY DEF TypeOK
  <1> HIDE DEF name
  <1>5. callback' \in [Pools -> Clients \union {Gone, None}]
    BY <1>1, <1>3, <1>4
  <1>6. \A p \in Pools : {name(c) : c \in listeners[p]} \in SUBSET (Clients \union {Gone})
    BY <1>2, <1>4
  <1> QED
    BY <1>1, <1>5, <1>6

LEMMA DestroyStep ==
    ASSUME ClientInv, NEW a \in Actors, NEW c \in Clients, Destroy(a, c)
    PROVE  ClientInv'
  <1>1. /\ TypeOK /\ owner \in [Clients -> Pools \union {None}] /\ owner[c] \in Pools
        /\ acted \subseteq Pools /\ None \notin Clients
    BY NamesAssumption DEF ClientInv, TypeOK, Destroy, Alive
  <1>2. owner' = [owner EXCEPT ![c] = None] /\ Release(a, owner[c]) /\ Ready(a) /\ ~InUse(c)
    BY DEF Destroy
  <1>3. /\ callback' \in [Pools -> Clients \union {Gone, None}]
        /\ listeners' \in [Pools -> SUBSET (Clients \union {Gone})]
    BY <1>1, RenameTypes DEF Destroy
  <1>4. TypeOK'
    <2>1. owner' \in [Clients -> Pools \union {None}]
      BY <1>1, <1>2
    <2>2. acted' \subseteq Pools
      BY <1>1 DEF Destroy, Acts
    <2>3. /\ pool' \in [Pools -> {"unused", "running", "failed", "stopping", "ended"}]
          /\ weak' \in [Keys -> Pools \union {None}]
          /\ at' \in [Actors -> AtType] /\ crashed' \in BOOLEAN
      BY <1>1, <1>2, ReleaseTypes
    <2> QED
      BY <1>1, <1>3, <2>1, <2>2, <2>3 DEF TypeOK, AtType, Destroy
  <1>5. (OwnedRuns /\ JoinersAlone /\ SomeoneJoins /\ CallsOwned
            /\ QueueWaits /\ Makers /\ WeakIsLive /\ PeerIsFound)'
    <2>1. owner' \in [Clients -> Pools \union {None}] /\ Live(owner[c])
      BY <1>1, <1>2 DEF Live
    <2>2. \A d \in Clients : owner'[d] # None => \E e \in Clients : owner[e] = owner'[d]
      BY <1>1, <1>2
    <2>3. \A q \in Pools : Live(q) /\ q # owner[c] => Live(q)'
      BY <1>1, <1>2 DEF Live
    <2>4. \A d \in Clients : owner'[d] # owner[d] => ~InUse(d)
      BY <1>1, <1>2
    <2>5. UNCHANGED <<key, lock, queue>>
      BY DEF Destroy
    <2> QED
      BY <1>1, <1>2, <2>1, <2>2, <2>3, <2>4, <2>5, ReleaseStep
  <1> QED
    BY <1>4, <1>5 DEF ClientInv

LEMMA MoveAssignStep ==
    ASSUME ClientInv, NEW a \in Actors, NEW c \in Clients, NEW d \in Clients, MoveAssign(a, c, d)
    PROVE  ClientInv'
  <1>1. /\ TypeOK /\ owner \in [Clients -> Pools \union {None}] /\ owner[d] \in Pools /\ c # d
        /\ acted \subseteq Pools /\ owner[c] \in Pools \union {None} /\ None \notin Pools
    BY NamesAssumption DEF ClientInv, TypeOK, MoveAssign, Alive
  <1>2. /\ owner' = [owner EXCEPT ![c] = owner[d], ![d] = None] /\ Release(a, owner[c])
        /\ Ready(a) /\ ~InUse(c) /\ ~InUse(d)
    BY DEF MoveAssign
  <1>3. /\ callback' \in [Pools -> Clients \union {Gone, None}]
        /\ listeners' \in [Pools -> SUBSET (Clients \union {Gone})]
    BY <1>1, RenameTypes DEF MoveAssign
  <1>a. /\ owner'[c] = owner[d] /\ owner'[d] = None
        /\ \A e \in Clients : e # c /\ e # d => owner'[e] = owner[e]
    BY <1>1, <1>2
  <1>4. TypeOK'
    <2>1. owner' \in [Clients -> Pools \union {None}]
      BY <1>1, <1>2
    <2>2. acted' \subseteq Pools
      BY <1>1 DEF MoveAssign, Acts
    <2>3. /\ pool' \in [Pools -> {"unused", "running", "failed", "stopping", "ended"}]
          /\ weak' \in [Keys -> Pools \union {None}]
          /\ at' \in [Actors -> AtType] /\ crashed' \in BOOLEAN
      BY <1>1, <1>2, ReleaseTypes
    <2> QED
      BY <1>1, <1>3, <2>1, <2>2, <2>3 DEF TypeOK, AtType, MoveAssign
  <1>5. (OwnedRuns /\ JoinersAlone /\ SomeoneJoins /\ CallsOwned
            /\ QueueWaits /\ Makers /\ WeakIsLive /\ PeerIsFound)'
    <2>1. owner' \in [Clients -> Pools \union {None}]
      BY <1>1, <1>2
    <2>2. \A e \in Clients : owner'[e] # None => \E f \in Clients : owner[f] = owner'[e]
      BY <1>1, <1>a
    <2>3. \A q \in Pools : Live(q) /\ q # owner[c] => Live(q)'
      BY <1>1, <1>a DEF Live
    <2>4. \A e \in Clients : owner'[e] # owner[e] => ~InUse(e)
      BY <1>1, <1>2, <1>a
    <2>5. UNCHANGED <<key, lock, queue>>
      BY DEF MoveAssign
    <2>6. owner[c] # None => Live(owner[c])
      BY <1>1 DEF Live
    <2> QED
      BY <1>1, <1>2, <2>1, <2>2, <2>3, <2>4, <2>5, <2>6, ReleaseStep
  <1> QED
    BY <1>4, <1>5 DEF ClientInv

LEMMA CreateStep ==
    ASSUME ClientInv, NEW a \in Actors, NEW p \in Pools, Create(a, p)
    PROVE  ClientInv'
  <1> DEFINE c == at[a].client
             k == at[a].key
  <1>1. /\ TypeOK /\ at \in [Actors -> AtType] /\ owner \in [Clients -> Pools \union {None}]
        /\ pool \in [Pools -> {"unused", "running", "failed", "stopping", "ended"}]
        /\ weak \in [Keys -> Pools \union {None}] /\ key \in [Pools -> Keys \union {None}]
        /\ None \notin Pools
    BY NamesAssumption DEF ClientInv, TypeOK, AtType
  <1>2. /\ c \in Clients /\ owner[c] = None /\ k \in Keys
        /\ \A b \in Actors : at[b].client = c => b = a
        /\ k \in Peers => lock = a /\ weak[k] = None
    BY DEF Create, ClientInv, Makers, Alive
  <1>3. /\ pool[p] = "unused" /\ UNCHANGED <<queue, callback, acted, listeners, crashed>>
        /\ at[a].pc = "create" /\ at' = [at EXCEPT ![a] = Free]
        /\ key' = [key EXCEPT ![p] = k] /\ weak' = [weak EXCEPT ![k] = p]
        /\ owner' = [owner EXCEPT ![c] = p]
        /\ lock' = IF k \in Peers THEN None ELSE lock
    BY DEF Create
  <1>4. PICK state \in {"running", "failed"} : pool' = [pool EXCEPT ![p] = state]
    BY DEF Create
  <1>5. /\ pool'[p] \in {"running", "failed"} /\ \A q \in Pools : q # p => pool'[q] = pool[q]
        /\ key'[p] = k /\ \A q \in Pools : q # p => key'[q] = key[q]
        /\ weak'[k] = p /\ \A j \in Keys : j # k => weak'[j] = weak[j]
        /\ owner'[c] = p /\ \A d \in Clients : d # c => owner'[d] = owner[d]
    BY <1>1, <1>2, <1>3, <1>4
  <1>6. /\ \A b \in Actors : b # a => at'[b] = at[b]
        /\ at'[a].pc = "free" /\ at'[a].client = None
    BY <1>1, <1>3 DEF Free, State
  <1>7. \A d \in Clients : owner[d] # p
    BY <1>1, <1>3 DEF ClientInv, OwnedRuns, Alive
  <1> HIDE DEF c, k
  <1>8. TypeOK'
    <2>1. at' \in [Actors -> AtType]
      <3>1. Free \in AtType
        BY DEF Free, State, AtType
      <3> QED
        BY <1>1, <1>3, <3>1
    <2>2. pool' \in [Pools -> {"unused", "running", "failed", "stopping", "ended"}]
      BY <1>1, <1>4
    <2>3. key' \in [Pools -> Keys \union {None}] /\ weak' \in [Keys -> Pools \union {None}]
          /\ owner' \in [Clients -> Pools \union {None}]
      BY <1>1, <1>2, <1>3
    <2>4. lock' \in Actors \union {None}
      BY <1>1, <1>3 DEF TypeOK
    <2> QED
      BY <1>1, <1>3, <2>1, <2>2, <2>3, <2>4 DEF TypeOK, AtType
  <1>9. OwnedRuns'
    BY <1>1, <1>2, <1>5, <1>7 DEF ClientInv, OwnedRuns, Alive
  <1>10. JoinersAlone'
    <2>1. \A b \in Actors : at[b].pc = "join" => at[b].pool # p
      BY <1>3 DEF ClientInv, JoinersAlone
    <2> QED
      BY <2>1, <1>5, <1>6 DEF ClientInv, JoinersAlone, Joins
  <1>11. SomeoneJoins'
    <2> SUFFICES ASSUME NEW q \in Pools, pool'[q] \in {"stopping", "ended"}
                 PROVE  \E b \in Actors : at'[b].pc = "join" /\ at'[b].pool = q
      BY DEF SomeoneJoins, Joins
    <2>1. PICK b \in Actors : at[b].pc = "join" /\ at[b].pool = q
      BY <1>5 DEF ClientInv, SomeoneJoins, Joins
    <2> QED
      BY <2>1, <1>3, <1>6
  <1>12. CallsOwned'
    <2>1. \A b \in Actors : b # a => at[b].client # c
      BY <1>2
    <2> QED
      BY <2>1, <1>5, <1>6 DEF ClientInv, CallsOwned
  <1>13. QueueWaits'
    <2>1. \A q \in Pools : \A i \in 1..Len(queue[q]) :
             queue[q][i].actor # a /\ queue[q][i].actor \in Actors
      BY <1>3, QueuedAreActors DEF ClientInv, QueueWaits
    <2> QED
      BY <1>3, <1>6, <2>1 DEF ClientInv, QueueWaits
  <1>14. Makers'
    <2> SUFFICES ASSUME NEW b \in Actors, at'[b].pc = "create"
                 PROVE  /\ at'[b].client \in Clients /\ owner'[at'[b].client] = None
                        /\ at'[b].key \in Keys
                        /\ \A e \in Actors : at'[e].client = at'[b].client => e = b
                        /\ at'[b].key \in Peers => lock' = b /\ weak'[at'[b].key] = None
      BY DEF Makers, Alive
    <2>1. b # a /\ at'[b] = at[b] /\ at[b].pc = "create"
      BY <1>6
    <2>2. /\ at[b].client \in Clients /\ owner[at[b].client] = None /\ at[b].key \in Keys
          /\ \A e \in Actors : at[e].client = at[b].client => e = b
          /\ at[b].key \in Peers => lock = b /\ weak[at[b].key] = None
      BY <2>1 DEF ClientInv, Makers, Alive
    <2>3. at[b].client # c /\ at[b].client # None
      BY <1>2, <2>1, <2>2, NamesAssumption
    <2>4. at[b].key \in Peers => k \notin Peers /\ at[b].key # k
      BY <1>2, <2>1, <2>2
    <2> QED
      BY <1>3, <1>5, <1>6, <2>1, <2>2, <2>3, <2>4
  <1>15. WeakIsLive'
    <2> SUFFICES ASSUME NEW j \in Keys, weak'[j] # None
                 PROVE  key'[weak'[j]] = j /\ \E d \in Clients : owner'[d] = weak'[j]
      BY DEF WeakIsLive, Live
    <2>1. CASE j = k
      BY <2>1, <1>2, <1>5
    <2>2. CASE j # k
      <3>1. /\ weak'[j] = weak[j] /\ weak[j] \in Pools
            /\ key[weak[j]] = j /\ \E d \in Clients : owner[d] = weak[j]
        BY <2>2, <1>1, <1>5 DEF ClientInv, WeakIsLive, Live
      <3> QED
        BY <3>1, <1>1, <1>2, <1>5, <1>7
    <2> QED
      BY <2>1, <2>2
  <1>16. PeerIsFound'
    <2> SUFFICES ASSUME NEW d \in Clients, owner'[d] # None, key'[owner'[d]] \in Peers
                 PROVE  weak'[key'[owner'[d]]] = owner'[d]
      BY DEF PeerIsFound, Alive
    <2>1. CASE d = c
      BY <2>1, <1>5
    <2>2. CASE d # c
      <3>1. owner'[d] = owner[d] /\ owner[d] \in Pools /\ owner[d] # p /\ key'[owner[d]] = key[owner[d]]
        BY <2>2, <1>1, <1>5, <1>7
      <3>2. weak[key[owner[d]]] = owner[d] /\ key[owner[d]] \in Keys
        BY <3>1 DEF ClientInv, PeerIsFound, Alive, Keys
      <3>3. key[owner[d]] # k
        BY <3>1, <3>2, <1>1, <1>2
      <3> QED
        BY <3>1, <3>2, <3>3, <1>5
    <2> QED
      BY <2>1, <2>2
  <1> QED
    BY <1>8, <1>9, <1>10, <1>11, <1>12, <1>13, <1>14, <1>15, <1>16 DEF ClientInv

TaskType == [actor : Actors, listen : BOOLEAN]

\* A call or a subscription from another thread.
LEMMA PostStep ==
    ASSUME ClientInv, NEW a \in Actors, NEW c \in Clients, NEW listen \in BOOLEAN,
           Ready(a), Alive(c), Post(a, c, listen), UNCHANGED <<key, lock, weak, pool, owner>>
    PROVE  /\ queue' \in [Pools -> Seq(TaskType)] /\ at' \in [Actors -> AtType]
           /\ (OwnedRuns /\ JoinersAlone /\ SomeoneJoins /\ CallsOwned
                  /\ QueueWaits /\ Makers /\ WeakIsLive /\ PeerIsFound)'
  <1> DEFINE p == owner[c]
             task == [actor |-> a, listen |-> listen]
  <1>1. /\ p \in Pools /\ at \in [Actors -> AtType] /\ queue \in [Pools -> Seq(TaskType)]
        /\ task \in TaskType
    BY DEF ClientInv, TypeOK, Alive, AtType, TaskType
  <1>2. /\ queue' = [queue EXCEPT ![p] = Append(queue[p], task)]
        /\ at' = [at EXCEPT ![a] = State("task", c, p, None)]
        /\ at[a] = Free
    BY DEF Post, Ready
  <1>a. State("task", c, p, None) \in AtType
    BY <1>1 DEF State, AtType
  <1>3. /\ \A b \in Actors : b # a => at'[b] = at[b]
        /\ at'[a].pc = "task" /\ at'[a].client = c /\ at'[a].pool = p
    BY <1>1, <1>2 DEF State
  <1>4. at' \in [Actors -> AtType]
    BY <1>1, <1>2, <1>a
  <1> HIDE DEF p, task
  <1>5. /\ queue' \in [Pools -> Seq(TaskType)] /\ queue'[p] = Append(queue[p], task)
        /\ \A q \in Pools : q # p => queue'[q] = queue[q]
    <2>1. Append(queue[p], task) \in Seq(TaskType)
      BY <1>1
    <2> QED
      BY <1>1, <1>2, <2>1
  <1>6. (OwnedRuns /\ WeakIsLive /\ PeerIsFound)'
    BY DEF ClientInv, OwnedRuns, WeakIsLive, PeerIsFound, Live, Alive
  <1>7. JoinersAlone'
    BY <1>3 DEF ClientInv, JoinersAlone, Joins
  <1>8. SomeoneJoins'
    <2> SUFFICES ASSUME NEW q \in Pools, pool[q] \in {"stopping", "ended"}
                 PROVE  \E b \in Actors : at'[b].pc = "join" /\ at'[b].pool = q
      BY DEF SomeoneJoins, Joins
    <2>1. PICK b \in Actors : at[b].pc = "join" /\ at[b].pool = q
      BY DEF ClientInv, SomeoneJoins, Joins
    <2>2. b # a
      BY <2>1, <1>2, FreeIsNowhere
    <2> QED
      BY <2>1, <2>2, <1>3
  <1>9. CallsOwned'
    BY <1>1, <1>3 DEF ClientInv, CallsOwned, p
  <1>10. QueueWaits'
    <2> SUFFICES ASSUME NEW q \in Pools, NEW i \in 1..Len(queue'[q])
                 PROVE  /\ at'[queue'[q][i].actor].pc = "task" /\ at'[queue'[q][i].actor].pool = q
                        /\ \A j \in 1..Len(queue'[q]) :
                              queue'[q][j].actor = queue'[q][i].actor => j = i
      BY DEF QueueWaits
    <2>1. \A r \in Pools : \A j \in 1..Len(queue[r]) :
             queue[r][j].actor # a /\ queue[r][j].actor \in Actors
      BY <1>2, FreeIsNowhere, QueuedAreActors
    <2>2. CASE q # p
      BY <2>1, <2>2, <1>3, <1>5 DEF ClientInv, QueueWaits
    <2>3. CASE q = p
      <3>1. /\ Len(queue'[p]) = Len(queue[p]) + 1 /\ Len(queue[p]) \in Nat
            /\ \A j \in 1..Len(queue[p]) : queue'[p][j] = queue[p][j]
            /\ queue'[p][Len(queue[p]) + 1] = task
        BY <1>1, <1>5, AppendProperties
      <3>2. task.actor = a
        BY DEF task
      <3>3. CASE i = Len(queue[p]) + 1
        <4>1. \A j \in 1..Len(queue'[p]) : j # i => j \in 1..Len(queue[p])
          BY <3>1, <3>3
        <4> QED
          BY <2>1, <2>3, <3>1, <3>2, <3>3, <4>1, <1>1, <1>3
      <3>4. CASE i \in 1..Len(queue[p])
        <4>1. \A j \in 1..Len(queue'[p]) : j \in 1..Len(queue[p]) \/ j = Len(queue[p]) + 1
          BY <3>1
        <4>2. /\ at[queue[p][i].actor].pc = "task" /\ at[queue[p][i].actor].pool = p
              /\ \A j \in 1..Len(queue[p]) : queue[p][j].actor = queue[p][i].actor => j = i
          BY <3>4, <1>1 DEF ClientInv, QueueWaits
        <4>3. /\ queue'[p][i] = queue[p][i] /\ queue[p][i].actor # a
              /\ queue[p][i].actor \in Actors /\ at'[queue[p][i].actor] = at[queue[p][i].actor]
          BY <2>1, <3>1, <3>4, <1>1, <1>3
        <4>4. ASSUME NEW j \in 1..Len(queue'[p]), queue'[p][j].actor = queue'[p][i].actor
              PROVE  j = i
          <5>1. j # Len(queue[p]) + 1
            BY <3>1, <3>2, <4>3, <4>4
          <5>2. j \in 1..Len(queue[p]) /\ queue'[p][j] = queue[p][j]
            BY <5>1, <4>1, <3>1
          <5> QED
            BY <5>2, <4>2, <4>3, <4>4
        <4> QED
          BY <2>3, <4>2, <4>3, <4>4
      <3> QED
        BY <3>1, <3>3, <3>4, <2>3
    <2> QED
      BY <2>2, <2>3
  <1>11. Makers'
    <2>1. \A b \in Actors : at[b].pc = "create" => at[b].client # c
      BY DEF ClientInv, Makers, Alive
    <2> QED
      BY <1>3, <2>1 DEF ClientInv, Makers, Alive
  <1> QED
    BY <1>4, <1>5, <1>6, <1>7, <1>8, <1>9, <1>10, <1>11

LEMMA CallSyncStep ==
    ASSUME ClientInv, NEW a \in Actors, NEW c \in Clients, CallSync(a, c)
    PROVE  ClientInv'
  <1>1. acted' \subseteq Pools
    BY DEF CallSync, Acts, ClientInv, TypeOK
  <1>2. CASE a = owner[c]
    <2>1. UNCHANGED <<key, lock, weak, pool, owner, queue, at, callback, listeners, crashed>>
      BY <1>2 DEF CallSync
    <2>2. TypeOK'
      BY <1>1, <2>1 DEF ClientInv, TypeOK
    <2> QED
      BY <2>1, <2>2 DEF ClientInv, OwnedRuns, JoinersAlone, SomeoneJoins, CallsOwned, QueueWaits,
                        Makers, WeakIsLive, PeerIsFound, Live, Alive, Joins
  <1>3. CASE a # owner[c]
    <2>1. Ready(a) /\ Alive(c) /\ Post(a, c, FALSE) /\ UNCHANGED <<key, lock, weak, pool, owner>>
      BY <1>3 DEF CallSync
    <2>2. /\ queue' \in [Pools -> Seq(TaskType)] /\ at' \in [Actors -> AtType]
          /\ (OwnedRuns /\ JoinersAlone /\ SomeoneJoins /\ CallsOwned
                 /\ QueueWaits /\ Makers /\ WeakIsLive /\ PeerIsFound)'
      BY <2>1, PostStep
    <2>3. TypeOK'
      BY <1>1, <2>2 DEF CallSync, ClientInv, TypeOK, TaskType, AtType
    <2> QED
      BY <2>2, <2>3 DEF ClientInv
  <1> QED
    BY <1>2, <1>3

LEMMA ListenStep ==
    ASSUME ClientInv, NEW a \in Actors, NEW c \in Clients, Listen(a, c)
    PROVE  ClientInv'
  <1>1. acted' \subseteq Pools
    BY DEF Listen, Acts, ClientInv, TypeOK
  <1>2. CASE a = owner[c]
    <2>1. UNCHANGED <<key, lock, weak, pool, owner, queue, at, callback, crashed>>
      BY <1>2 DEF Listen
    <2>2. listeners' \in [Pools -> SUBSET (Clients \union {Gone})]
      <3>1. listeners' = [listeners EXCEPT ![a] = listeners[a] \union {c}]
        BY <1>2 DEF Listen
      <3>2. listeners \in [Pools -> SUBSET (Clients \union {Gone})] /\ a \in Pools
        BY <1>2 DEF Listen, ClientInv, TypeOK, Alive
      <3> QED
        BY <3>1, <3>2
    <2>3. TypeOK'
      BY <1>1, <2>1, <2>2 DEF ClientInv, TypeOK
    <2> QED
      BY <2>1, <2>3 DEF ClientInv, OwnedRuns, JoinersAlone, SomeoneJoins, CallsOwned, QueueWaits,
                        Makers, WeakIsLive, PeerIsFound, Live, Alive, Joins
  <1>3. CASE a # owner[c]
    <2>1. /\ Ready(a) /\ Alive(c) /\ Post(a, c, TRUE) /\ UNCHANGED <<key, lock, weak, pool, owner>>
          /\ UNCHANGED <<listeners, callback, crashed>>
      BY <1>3 DEF Listen
    <2>2. /\ queue' \in [Pools -> Seq(TaskType)] /\ at' \in [Actors -> AtType]
          /\ (OwnedRuns /\ JoinersAlone /\ SomeoneJoins /\ CallsOwned
                 /\ QueueWaits /\ Makers /\ WeakIsLive /\ PeerIsFound)'
      BY <2>1, PostStep
    <2>3. TypeOK'
      BY <1>1, <2>1, <2>2 DEF ClientInv, TypeOK, TaskType, AtType
    <2> QED
      BY <2>2, <2>3 DEF ClientInv
  <1> QED
    BY <1>2, <1>3

-----------------------------------------------------------------------------
(* The steps of the loops                                                  *)

LEMMA RunTaskStep ==
    ASSUME ClientInv, NEW p \in Pools, RunTask(p)
    PROVE  ClientInv'
  <1> DEFINE task == queue[p][1]
             x == queue[p][1].actor
  <1>1. /\ queue \in [Pools -> Seq(TaskType)] /\ at \in [Actors -> AtType]
        /\ queue[p] \in Seq(TaskType) /\ queue[p] # <<>>
        /\ listeners \in [Pools -> SUBSET (Clients \union {Gone})]
    BY DEF ClientInv, TypeOK, AtType, TaskType, RunTask
  <1>2. /\ Len(queue[p]) \in Nat /\ 1 \in 1..Len(queue[p]) /\ Head(queue[p]) = task
        /\ Tail(queue[p]) \in Seq(TaskType) /\ Len(Tail(queue[p])) = Len(queue[p]) - 1
        /\ \A i \in 1..Len(queue[p]) - 1 : Tail(queue[p])[i] = queue[p][i + 1]
    BY <1>1, HeadTailProperties, EmptySeq
  <1>3. /\ x \in Actors /\ at[x].pc = "task" /\ at[x].pool = p /\ at[x].client \in Clients
        /\ \A i \in 1..Len(queue[p]) : queue[p][i].actor = x => i = 1
    <2>1. x \in Actors
      BY <1>2, QueuedAreActors
    <2>2. /\ at[x].pc = "task" /\ at[x].pool = p
          /\ \A i \in 1..Len(queue[p]) : queue[p][i].actor = x => i = 1
      BY <1>2 DEF ClientInv, QueueWaits
    <2> QED
      BY <2>1, <2>2 DEF ClientInv, CallsOwned
  <1>4. /\ UNCHANGED <<key, lock, weak, pool, callback, acted, owner, crashed>>
        /\ queue' = [queue EXCEPT ![p] = Tail(queue[p])]
        /\ \/ /\ listeners' = [listeners EXCEPT ![p] = listeners[p] \union {at[x].client}]
              /\ at' = [at EXCEPT ![x] = Free]
           \/ /\ at' = [at EXCEPT ![x] = [at[x] EXCEPT !.pc = "reply"]]
              /\ UNCHANGED listeners
    BY <1>2 DEF RunTask
  <1> HIDE DEF x, task
  <1>5. at' \in [Actors -> AtType]
    <2>1. Free \in AtType
      BY DEF Free, State, AtType
    <2>2. [at[x] EXCEPT !.pc = "reply"] \in AtType
      BY <1>1, <1>3 DEF AtType
    <2> QED
      BY <1>1, <1>3, <1>4, <2>1, <2>2
  <1>6. /\ \A b \in Actors : b # x => at'[b] = at[b]
        /\ \/ at'[x].pc = "free" /\ at'[x].client = None
           \/ at'[x].pc = "reply" /\ at'[x].client = at[x].client /\ at'[x].pool = at[x].pool
    <2>1. at[x] \in AtType
      BY <1>1, <1>3
    <2>2. CASE at' = [at EXCEPT ![x] = Free]
      BY <2>2, <1>1, <1>3 DEF Free, State
    <2>3. CASE at' = [at EXCEPT ![x] = [at[x] EXCEPT !.pc = "reply"]]
      BY <2>1, <2>3, <1>1, <1>3 DEF AtType
    <2> QED
      BY <1>4, <2>2, <2>3
  <1>7. /\ queue'[p] = Tail(queue[p]) /\ \A q \in Pools : q # p => queue'[q] = queue[q]
        /\ queue' \in [Pools -> Seq(TaskType)]
    BY <1>1, <1>2, <1>4
  <1>8. listeners' \in [Pools -> SUBSET (Clients \union {Gone})]
    <2>1. listeners[p] \union {at[x].client} \in SUBSET (Clients \union {Gone})
      BY <1>1, <1>3
    <2>2. CASE listeners' = [listeners EXCEPT ![p] = listeners[p] \union {at[x].client}]
      BY <1>1, <2>1, <2>2
    <2>3. CASE UNCHANGED listeners
      BY <1>1, <2>3
    <2> QED
      BY <1>4, <2>2, <2>3
  <1>9. TypeOK'
    BY <1>4, <1>5, <1>7, <1>8 DEF ClientInv, TypeOK, AtType, TaskType
  <1>10. (OwnedRuns /\ WeakIsLive /\ PeerIsFound)'
    BY <1>4 DEF ClientInv, OwnedRuns, WeakIsLive, PeerIsFound, Live, Alive
  <1>11. JoinersAlone'
    BY <1>3, <1>4, <1>6 DEF ClientInv, JoinersAlone, Joins
  <1>12. SomeoneJoins'
    <2> SUFFICES ASSUME NEW q \in Pools, pool[q] \in {"stopping", "ended"}
                 PROVE  \E b \in Actors : at'[b].pc = "join" /\ at'[b].pool = q
      BY <1>4 DEF SomeoneJoins, Joins
    <2>1. PICK b \in Actors : at[b].pc = "join" /\ at[b].pool = q
      BY DEF ClientInv, SomeoneJoins, Joins
    <2> QED
      BY <2>1, <1>3, <1>6
  <1>13. CallsOwned'
    <2> SUFFICES ASSUME NEW b \in Actors, at'[b].pc \in {"task", "reply"}
                 PROVE  /\ at'[b].client \in Clients /\ at'[b].pool \in Pools
                        /\ owner[at'[b].client] = at'[b].pool
      BY <1>4 DEF CallsOwned
    <2>1. at[b].pc \in {"task", "reply"} /\ at'[b].client = at[b].client /\ at'[b].pool = at[b].pool
      BY <1>3, <1>6
    <2> QED
      BY <2>1 DEF ClientInv, CallsOwned
  <1>14. Makers'
    <2>1. \A b \in Actors : at[b].pc = "create" => at[b].client # at[x].client
      BY <1>3 DEF ClientInv, Makers
    <2>2. \A b \in Actors : at'[b].client = at[b].client \/ at'[b].client = None
      BY <1>6
    <2> SUFFICES ASSUME NEW b \in Actors, at'[b].pc = "create"
                 PROVE  /\ at'[b].client \in Clients /\ owner[at'[b].client] = None
                        /\ at'[b].key \in Keys
                        /\ \A e \in Actors : at'[e].client = at'[b].client => e = b
                        /\ at'[b].key \in Peers => lock = b /\ weak[at'[b].key] = None
      BY <1>4 DEF Makers, Alive
    <2>3. b # x /\ at'[b] = at[b]
      BY <1>6
    <2> QED
      BY <2>2, <2>3, NamesAssumption DEF ClientInv, Makers, Alive
  <1>15. QueueWaits'
    <2> SUFFICES ASSUME NEW q \in Pools, NEW i \in 1..Len(queue'[q])
                 PROVE  /\ at'[queue'[q][i].actor].pc = "task" /\ at'[queue'[q][i].actor].pool = q
                        /\ \A j \in 1..Len(queue'[q]) :
                              queue'[q][j].actor = queue'[q][i].actor => j = i
      BY DEF QueueWaits
    <2>1. CASE q # p
      <3>1. i \in 1..Len(queue[q]) /\ queue'[q] = queue[q]
        BY <2>1, <1>7
      <3>2. queue[q][i].actor \in Actors
        BY <3>1, QueuedAreActors
      <3>3. at[queue[q][i].actor].pool = q
        BY <3>1 DEF ClientInv, QueueWaits
      <3>4. queue[q][i].actor # x
        BY <3>3, <2>1, <1>3
      <3> QED
        BY <3>1, <3>2, <3>4, <1>6 DEF ClientInv, QueueWaits
    <2>2. CASE q = p
      <3>1. /\ i \in 1..Len(queue[p]) - 1 /\ i + 1 \in 1..Len(queue[p])
            /\ \A j \in 1..Len(queue'[p]) : j \in 1..Len(queue[p]) - 1 /\ j + 1 \in 1..Len(queue[p])
        BY <2>2, <1>2, <1>7
      <3>2. /\ queue'[p][i] = queue[p][i + 1]
            /\ \A j \in 1..Len(queue'[p]) : queue'[p][j] = queue[p][j + 1]
        BY <3>1, <1>2, <1>7
      <3>3. queue[p][i + 1].actor \in Actors /\ queue[p][i + 1].actor # x
        BY <3>1, <1>3, QueuedAreActors
      <3>4. /\ at[queue[p][i + 1].actor].pc = "task" /\ at[queue[p][i + 1].actor].pool = p
            /\ \A j \in 1..Len(queue[p]) : queue[p][j].actor = queue[p][i + 1].actor => j = i + 1
        BY <3>1 DEF ClientInv, QueueWaits
      <3>5. ASSUME NEW j \in 1..Len(queue'[p]), queue'[p][j].actor = queue'[p][i].actor
            PROVE  j = i
        <4>1. j + 1 = i + 1
          BY <3>1, <3>2, <3>4, <3>5
        <4> QED
          BY <4>1, <3>1
      <3> QED
        BY <2>2, <3>2, <3>3, <3>4, <3>5, <1>6
    <2> QED
      BY <2>1, <2>2
  <1> QED
    BY <1>9, <1>10, <1>11, <1>12, <1>13, <1>14, <1>15 DEF ClientInv

\* A reply, and the end of a join, whose pool nobody else waits for.
LEMMA ReplyStep ==
    ASSUME ClientInv, NEW a \in Actors, Reply(a)
    PROVE  ClientInv'
  <1>1. /\ at \in [Actors -> AtType] /\ at[a].pc = "reply" /\ at' = [at EXCEPT ![a] = Free]
        /\ UNCHANGED <<key, lock, weak, pool, queue, callback, acted, listeners, owner, crashed>>
    BY DEF ClientInv, TypeOK, AtType, Reply
  <1>2. /\ \A b \in Actors : b # a => at'[b] = at[b]
        /\ at'[a].pc = "free" /\ at'[a].client = None
    BY <1>1 DEF Free, State
  <1>3. TypeOK'
    <2>1. Free \in AtType
      BY DEF Free, State, AtType
    <2> QED
      BY <1>1, <2>1 DEF ClientInv, TypeOK, AtType
  <1>4. (OwnedRuns /\ WeakIsLive /\ PeerIsFound)'
    BY <1>1 DEF ClientInv, OwnedRuns, WeakIsLive, PeerIsFound, Live, Alive
  <1>5. JoinersAlone' /\ CallsOwned'
    BY <1>1, <1>2 DEF ClientInv, JoinersAlone, Joins, CallsOwned
  <1>6. SomeoneJoins'
    <2> SUFFICES ASSUME NEW q \in Pools, pool[q] \in {"stopping", "ended"}
                 PROVE  \E b \in Actors : at'[b].pc = "join" /\ at'[b].pool = q
      BY <1>1 DEF SomeoneJoins, Joins
    <2>1. PICK b \in Actors : at[b].pc = "join" /\ at[b].pool = q
      BY DEF ClientInv, SomeoneJoins, Joins
    <2> QED
      BY <2>1, <1>1, <1>2
  <1>7. QueueWaits'
    <2>1. \A p \in Pools : \A i \in 1..Len(queue[p]) :
             queue[p][i].actor # a /\ queue[p][i].actor \in Actors
      BY <1>1, QueuedAreActors DEF ClientInv, QueueWaits
    <2> QED
      BY <1>1, <1>2, <2>1 DEF ClientInv, QueueWaits
  <1>8. Makers'
    BY <1>1, <1>2, NamesAssumption DEF ClientInv, Makers, Alive
  <1> QED
    BY <1>3, <1>4, <1>5, <1>6, <1>7, <1>8 DEF ClientInv

LEMMA JoinStep ==
    ASSUME ClientInv, NEW a \in Actors, Join(a)
    PROVE  ClientInv'
  <1> DEFINE p == at[a].pool
  <1>1. /\ at \in [Actors -> AtType] /\ at[a].pc = "join" /\ at' = [at EXCEPT ![a] = Free]
        /\ pool[p] = "ended" /\ pool' = [pool EXCEPT ![p] = "unused"]
        /\ key' = [key EXCEPT ![p] = None] /\ listeners' = [listeners EXCEPT ![p] = {}]
        /\ UNCHANGED <<lock, weak, queue, callback, acted, owner, crashed>>
    BY DEF ClientInv, TypeOK, AtType, Join
  <1>2. p \in Pools /\ \A b \in Actors : Joins(b, p) => b = a
    BY <1>1 DEF ClientInv, JoinersAlone
  <1>3. /\ pool \in [Pools -> {"unused", "running", "failed", "stopping", "ended"}]
        /\ key \in [Pools -> Keys \union {None}] /\ weak \in [Keys -> Pools \union {None}]
        /\ owner \in [Clients -> Pools \union {None}]
        /\ listeners \in [Pools -> SUBSET (Clients \union {Gone})]
    BY DEF ClientInv, TypeOK
  <1>4. /\ \A b \in Actors : b # a => at'[b] = at[b]
        /\ at'[a].pc = "free" /\ at'[a].client = None
    BY <1>1 DEF Free, State
  <1> HIDE DEF p
  <1>5. /\ pool'[p] = "unused" /\ \A q \in Pools : q # p => pool'[q] = pool[q] /\ key'[q] = key[q]
        /\ \A c \in Clients : owner[c] # p
    BY <1>1, <1>2, <1>3, NamesAssumption DEF ClientInv, OwnedRuns, Alive
  <1>6. TypeOK'
    <2>1. Free \in AtType
      BY DEF Free, State, AtType
    <2>2. at' \in [Actors -> AtType]
      BY <1>1, <2>1
    <2>3. /\ pool' \in [Pools -> {"unused", "running", "failed", "stopping", "ended"}]
          /\ key' \in [Pools -> Keys \union {None}]
          /\ listeners' \in [Pools -> SUBSET (Clients \union {Gone})]
      BY <1>1, <1>3
    <2> QED
      BY <1>1, <2>2, <2>3 DEF ClientInv, TypeOK, AtType
  <1>7. OwnedRuns'
    BY <1>1, <1>3, <1>5 DEF ClientInv, OwnedRuns, Alive
  <1>8. JoinersAlone'
    <2>1. \A b \in Actors : b # a /\ at[b].pc = "join" => at[b].pool # p
      BY <1>2 DEF Joins
    <2> QED
      BY <2>1, <1>4, <1>5 DEF ClientInv, JoinersAlone, Joins
  <1>9. SomeoneJoins'
    <2> SUFFICES ASSUME NEW q \in Pools, pool'[q] \in {"stopping", "ended"}
                 PROVE  \E b \in Actors : at'[b].pc = "join" /\ at'[b].pool = q
      BY DEF SomeoneJoins, Joins
    <2>1. q # p /\ pool[q] \in {"stopping", "ended"}
      BY <1>5
    <2>2. PICK b \in Actors : at[b].pc = "join" /\ at[b].pool = q
      BY <2>1 DEF ClientInv, SomeoneJoins, Joins
    <2>3. b # a
      BY <2>1, <2>2 DEF p
    <2> QED
      BY <2>2, <2>3, <1>4
  <1>10. CallsOwned'
    BY <1>1, <1>4 DEF ClientInv, CallsOwned
  <1>11. QueueWaits'
    <2>1. \A q \in Pools : \A i \in 1..Len(queue[q]) :
             queue[q][i].actor # a /\ queue[q][i].actor \in Actors
      BY <1>1, QueuedAreActors DEF ClientInv, QueueWaits
    <2> QED
      BY <1>1, <1>4, <2>1 DEF ClientInv, QueueWaits
  <1>12. Makers'
    BY <1>1, <1>4, NamesAssumption DEF ClientInv, Makers, Alive
  <1>13. WeakIsLive'
    <2> SUFFICES ASSUME NEW k \in Keys, weak[k] # None
                 PROVE  key'[weak[k]] = k /\ \E c \in Clients : owner[c] = weak[k]
      BY <1>1 DEF WeakIsLive, Live
    <2>1. /\ key[weak[k]] = k /\ weak[k] \in Pools /\ \E c \in Clients : owner[c] = weak[k]
      BY <1>3 DEF ClientInv, WeakIsLive, Live
    <2> QED
      BY <2>1, <1>5
  <1>14. PeerIsFound'
    <2> SUFFICES ASSUME NEW c \in Clients, owner[c] # None, key'[owner[c]] \in Peers
                 PROVE  weak[key'[owner[c]]] = owner[c]
      BY <1>1 DEF PeerIsFound, Alive
    <2>1. key'[owner[c]] = key[owner[c]]
      BY <1>3, <1>5
    <2> QED
      BY <2>1 DEF ClientInv, PeerIsFound, Alive
  <1> QED
    BY <1>6, <1>7, <1>8, <1>9, <1>10, <1>11, <1>12, <1>13, <1>14 DEF ClientInv

\* The end of a loop, and its callbacks.
LEMMA LoopStep ==
    ASSUME ClientInv, NEW p \in Pools,
           LoopEnds(p) \/ EndCallback(p) \/ \E c \in Clients \union {Gone} : StartCallback(p, c)
    PROVE  ClientInv'
  <1>1. CASE LoopEnds(p)
    <2>1. /\ pool \in [Pools -> {"unused", "running", "failed", "stopping", "ended"}]
          /\ pool[p] = "stopping" /\ pool' = [pool EXCEPT ![p] = "ended"]
          /\ UNCHANGED <<key, lock, weak, queue, callback, acted, listeners, owner, at, crashed>>
      BY <1>1 DEF LoopEnds, ClientInv, TypeOK
    <2>2. TypeOK'
      BY <2>1 DEF ClientInv, TypeOK
    <2>3. \A q \in Pools : /\ pool'[q] \in {"running", "failed"} <=> pool[q] \in {"running", "failed"}
                           /\ pool'[q] \in {"stopping", "ended"} <=> pool[q] \in {"stopping", "ended"}
      BY <2>1
    <2>4. OwnedRuns'
      <3>1. \A c \in Clients : owner[c] \in Pools \union {None}
        BY DEF ClientInv, TypeOK
      <3> QED
        BY <2>1, <2>3, <3>1 DEF ClientInv, OwnedRuns, Alive
    <2>5. JoinersAlone' /\ SomeoneJoins'
      BY <2>1, <2>3 DEF ClientInv, JoinersAlone, SomeoneJoins, Joins
    <2>6. (CallsOwned /\ QueueWaits /\ Makers /\ WeakIsLive /\ PeerIsFound)'
      BY <2>1 DEF ClientInv, CallsOwned, QueueWaits, Makers, WeakIsLive, PeerIsFound, Live, Alive
    <2> QED
      BY <2>2, <2>4, <2>5, <2>6 DEF ClientInv
  <1>2. CASE EndCallback(p) \/ \E c \in Clients \union {Gone} : StartCallback(p, c)
    <2>1. /\ UNCHANGED <<key, lock, weak, pool, queue, listeners, owner, at, crashed>>
          /\ acted' = acted \ {p}
          /\ \E c \in Clients \union {Gone, None} : callback' = [callback EXCEPT ![p] = c]
      BY <1>2 DEF EndCallback, StartCallback
    <2>2. TypeOK'
      BY <2>1 DEF ClientInv, TypeOK
    <2> QED
      BY <2>1, <2>2 DEF ClientInv, OwnedRuns, JoinersAlone, SomeoneJoins, CallsOwned, QueueWaits,
                        Makers, WeakIsLive, PeerIsFound, Live, Alive, Joins
  <1> QED
    BY <1>1, <1>2

-----------------------------------------------------------------------------
LEMMA ClientInvInductive == ClientInv /\ [Next]_vars => ClientInv'
  <1> SUFFICES ASSUME ClientInv, [Next]_vars PROVE ClientInv'
    OBVIOUS
  <1>1. ASSUME NEW a \in Actors, Program(a) PROVE ClientInv'
    BY <1>1, LookupStep, DestroyStep, MoveAssignStep, CallSyncStep, ListenStep, CreateStep,
       ReplyStep, JoinStep DEF Program
  <1>2. ASSUME NEW p \in Pools, Loop(p) PROVE ClientInv'
    <2>1. CASE RunTask(p)
      BY <2>1, RunTaskStep
    <2>2. CASE LoopEnds(p) \/ EndCallback(p) \/ \E c \in Clients \union {Gone} : StartCallback(p, c)
      BY <2>2, LoopStep
    <2> QED
      BY <1>2, <2>1, <2>2 DEF Loop
  <1>3. CASE UNCHANGED vars
    <2>1. UNCHANGED <<lock, weak, pool, key, queue, callback, acted, listeners, owner, at, crashed>>
      BY <1>3 DEF vars
    <2>2. TypeOK'
      BY <2>1 DEF ClientInv, TypeOK
    <2> QED
      BY <2>1, <2>2 DEF ClientInv, OwnedRuns, JoinersAlone, SomeoneJoins, CallsOwned,
                        QueueWaits, Makers, WeakIsLive, PeerIsFound, Live, Alive, Joins
  <1> QED
    BY <1>1, <1>2, <1>3 DEF Next

LEMMA ClientInvAlways == Spec => []ClientInv
  BY InitiallyClientInv, ClientInvInductive, PTL DEF Spec

-----------------------------------------------------------------------------
(* The variables stay in their types, whatever the program does with its     *)
(* clients.                                                                  *)
THEOREM ClientTypeCorrect == Spec => []TypeOK
  <1>1. ClientInv => TypeOK
    BY DEF ClientInv
  <1> QED
    BY <1>1, ClientInvAlways, PTL

(* A pool is torn down by one destructor, when no client, call, task or weak *)
(* pointer leads to it any more: what ~AsyncPool() stops nobody can wait for *)
(* (Client.cpp:10-13, 30-54).                                                *)
THEOREM PoolTornDownAlone == Spec => []TornDownAlone
  <1>1. ClientInv => TornDownAlone
    <2> SUFFICES ASSUME ClientInv, NEW p \in Pools, pool[p] \in {"stopping", "ended"}
                 PROVE  /\ ~Live(p) /\ queue[p] = <<>>
                        /\ \A k \in Keys : weak[k] # p
                        /\ \A a \in Actors : ~Calls(a, p)
                        /\ \E a \in Actors : Joins(a, p) /\ \A b \in Actors : Joins(b, p) => b = a
      BY DEF TornDownAlone
    <2>1. ~Live(p)
      BY NamesAssumption DEF ClientInv, OwnedRuns, Live, Alive
    <2>2. \A a \in Actors : ~Calls(a, p)
      BY <2>1 DEF ClientInv, CallsOwned, Calls, Live
    <2>3. queue[p] = <<>>
      <3>1. queue[p] \in Seq(TaskType)
        BY DEF ClientInv, TypeOK, TaskType
      <3>2. CASE queue[p] # <<>>
        <4>1. 1 \in 1..Len(queue[p])
          BY <3>1, <3>2, EmptySeq
        <4>2. queue[p][1].actor \in Actors /\ Calls(queue[p][1].actor, p)
          BY <4>1, QueuedAreActors DEF ClientInv, QueueWaits, Calls
        <4> QED
          BY <4>2, <2>2
      <3> QED
        BY <3>2
    <2>4. \A k \in Keys : weak[k] # p
      BY <2>1, NamesAssumption DEF ClientInv, WeakIsLive
    <2>5. PICK a \in Actors : Joins(a, p)
      BY DEF ClientInv, SomeoneJoins
    <2>6. \A b \in Actors : Joins(b, p) => b = a
      BY <2>5 DEF ClientInv, JoinersAlone, Joins
    <2> QED
      BY <2>1, <2>2, <2>3, <2>4, <2>5, <2>6
  <1> QED
    BY <1>1, ClientInvAlways, PTL

(* All clients of one service share one session, loop and thread, however    *)
(* many threads make and destroy them at once (sPeerLock, Client.cpp:75-85). *)
THEOREM OnePoolPerPeer == Spec => []PeersShareOnePool
  <1>1. ClientInv => PeersShareOnePool
    BY DEF ClientInv, PeerIsFound, PeersShareOnePool, Alive
  <1> QED
    BY <1>1, ClientInvAlways, PTL
=============================================================================
