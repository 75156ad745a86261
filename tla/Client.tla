------------------------------- MODULE Client -------------------------------
(***************************************************************************)
(* The clients of a process (Client.cpp, Client.hpp) and the pools behind  *)
(* them: a session, a looper and the thread that runs it, shared by all    *)
(* clients of one service or one bus and torn down with the last of them.  *)
(* Clients are made, moved, used and destroyed by the threads of the       *)
(* program and by the callbacks that run on the loop threads.              *)
(***************************************************************************)
EXTENDS Naturals, Sequences, FiniteSets

CONSTANTS Threads,      \* the threads of the program
          Peers,        \* the services reached over peer sessions
          Buses,        \* the buses: user and system
          Pools,        \* bound: AsyncPool objects at a time, and their threads
          Clients,      \* bound: Client objects at a time
          Callers,      \* bound: those who also call methods and listen
          MaxListeners, \* bound: clients with a listener in one session
          Gone,         \* stands for a client that was destroyed
          None

ASSUME NamesAssumption ==
    /\ {None, Gone} \intersect (Threads \union Peers \union Buses \union Pools \union Clients) = {} /\ None # Gone
    /\ Threads \intersect Pools = {} /\ Callers \subseteq Threads \union Pools /\ Peers \intersect Buses = {}
ASSUME BoundsAssumption == MaxListeners \in Nat

Keys == Peers \union Buses
\* Who runs code of the program: its threads, and a loop thread in a callback.
Actors == Threads \union Pools

VARIABLES lock,         \* sPeerLock: who holds it
          weak,         \* sPeerPools, sUserPool and sSystemPool; None once expired
          pool,         \* what the loop of an AsyncPool does
          key,          \* the service or bus of its session
          queue,        \* the tasks of its looper, each named by who waits for it
          callback,     \* whose listener its thread is calling
          acted,        \* the callbacks that have done what they do
          listeners,    \* the listeners of its session, each named by its client
          owner,        \* Client::mAsyncPool
          at,           \* what an actor waits for
          crashed       \* std::terminate() was called

vars == <<lock, weak, pool, key, queue, callback, acted, listeners, owner, at, crashed>>

\* What an actor waits for: a task or a reply of a client's pool, the thread of a pool,
\* or to make a pool for a client.
State(pc, c, p, k) == [pc |-> pc, client |-> c, pool |-> p, key |-> k]
Free == State("free", None, None, None)

TypeOK ==
    /\ lock \in Actors \union {None}
    /\ weak \in [Keys -> Pools \union {None}]
    /\ pool \in [Pools -> {"unused", "running", "failed", "stopping", "ended"}]
    /\ key \in [Pools -> Keys \union {None}]
    /\ queue \in [Pools -> Seq([actor : Actors, listen : BOOLEAN])]
    /\ callback \in [Pools -> Clients \union {Gone, None}]
    /\ acted \subseteq Pools
    /\ listeners \in [Pools -> SUBSET (Clients \union {Gone})]
    /\ owner \in [Clients -> Pools \union {None}]
    /\ at \in [Actors -> [pc : {"free", "create", "task", "reply", "join"},
                          client : Clients \union {None}, pool : Pools \union {None},
                          key : Keys \union {None}]]
    /\ crashed \in BOOLEAN

Init ==
    /\ lock = None /\ weak = [k \in Keys |-> None]
    /\ pool = [p \in Pools |-> "unused"] /\ key = [p \in Pools |-> None]
    /\ queue = [p \in Pools |-> <<>>]
    /\ callback = [p \in Pools |-> None] /\ acted = {}
    /\ listeners = [p \in Pools |-> {}]
    /\ owner = [c \in Clients |-> None]
    /\ at = [a \in Actors |-> Free] /\ crashed = FALSE

-----------------------------------------------------------------------------
\* An actor that may take its next step in the program's own code; a callback does
\* one thing with a client at most.
Ready(a) ==
    /\ ~crashed /\ at[a] = Free
    /\ a \in Pools => callback[a] # None /\ a \notin acted
Acts(a) == acted' = IF a \in Pools THEN acted \union {a} ELSE acted

\* The program does not destroy or move a client that is being called or made.
InUse(c) == \E a \in Actors : at[a].client = c
Alive(c) == owner[c] # None

-----------------------------------------------------------------------------
\* Bound: an AsyncPool for everyone who is about to make one.
Room == Cardinality({a \in Actors : at[a].pc = "create"}) < Cardinality({p \in Pools : pool[p] = "unused"})

\* Faulty variant for the mutants: peers are looked up without the lock.
LookupUnlocked(a, c, k) ==
    /\ Ready(a) /\ ~Alive(c) /\ ~InUse(c)
    /\ IF weak[k] # None
       THEN owner' = [owner EXCEPT ![c] = weak[k]] /\ UNCHANGED at
       ELSE /\ Room
            /\ at' = [at EXCEPT ![a] = State("create", c, None, k)]
            /\ UNCHANGED owner
    /\ Acts(a)
    /\ UNCHANGED <<key, lock, weak, pool, queue, callback, listeners, crashed>>
\* Client(type, service, ...): getAsyncPool() looks its pool up, a peer's under the
\* lock. A pool that is found is shared; for one that is not, the lock is kept.
Lookup(a, c, k) ==
    /\ Ready(a) /\ ~Alive(c) /\ ~InUse(c)
    /\ k \in Peers => lock = None
    /\ IF weak[k] # None
       THEN owner' = [owner EXCEPT ![c] = weak[k]] /\ UNCHANGED <<at, lock>>
       ELSE /\ Room
            /\ at' = [at EXCEPT ![a] = State("create", c, None, k)]
            /\ lock' = IF k \in Peers THEN a ELSE lock
            /\ UNCHANGED owner
    /\ Acts(a)
    /\ UNCHANGED <<key, weak, pool, queue, callback, listeners, crashed>>

\* AsyncPool(): the session is made and the thread started; when the bus could not be
\* opened, run() returns at once. The weak pointers of the buses have no lock, so two
\* threads may both be here for one bus, and the later one's pool stays in the pointer.
Create(a, p) ==
    LET k == at[a].key
    IN  /\ ~crashed /\ at[a].pc = "create" /\ pool[p] = "unused"
        /\ pool' \in {[pool EXCEPT ![p] = state] : state \in {"running", "failed"}}
        /\ key' = [key EXCEPT ![p] = k] /\ weak' = [weak EXCEPT ![k] = p]
        /\ owner' = [owner EXCEPT ![at[a].client] = p]
        /\ lock' = IF k \in Peers THEN None ELSE lock
        /\ at' = [at EXCEPT ![a] = Free]
        /\ UNCHANGED <<queue, callback, acted, listeners, crashed>>

\* A client lets go of pool p. The last one runs ~AsyncPool(): stop(), and join() of
\* the loop's thread, which ends the program when that is the thread it is on.
Release(a, p) ==
    IF p = None \/ \E c \in Clients : owner'[c] = p THEN UNCHANGED <<pool, weak, at, crashed>>
    ELSE /\ pool' = [pool EXCEPT ![p] = IF @ = "running" THEN "stopping" ELSE "ended"]
         /\ weak' = [k \in Keys |-> IF weak[k] = p THEN None ELSE weak[k]]
         /\ at' = [at EXCEPT ![a] = State("join", None, p, None)]
         /\ crashed' = (a = p)

\* Whose the listeners are when the clients have become as in "now".
Rename(now) ==
    LET name(c) == IF c \in DOMAIN now THEN now[c] ELSE c
    IN  /\ listeners' = [p \in Pools |-> {name(c) : c \in listeners[p]}]
        /\ callback' = [p \in Pools |-> name(callback[p])]

\* ~Client(). The listeners stay in the session.
Destroy(a, c) ==
    /\ Ready(a) /\ Alive(c) /\ ~InUse(c)
    /\ owner' = [owner EXCEPT ![c] = None]
    /\ Release(a, owner[c]) /\ Rename([x \in {c} |-> Gone]) /\ Acts(a)
    /\ UNCHANGED <<key, lock, queue>>

\* Faulty variant for the mutants: the pool that is assigned over is torn down although
\* other clients share it.
MoveAssignStops(a, c, d) ==
    /\ Ready(a) /\ c # d /\ Alive(d) /\ ~InUse(c) /\ ~InUse(d)
    /\ owner' = [owner EXCEPT ![c] = owner[d], ![d] = None]
    /\ IF Alive(c) /\ owner[c] # owner[d]
       THEN /\ pool' = [pool EXCEPT ![owner[c]] = IF @ = "running" THEN "stopping" ELSE "ended"]
            /\ at' = [at EXCEPT ![a] = State("join", None, owner[c], None)]
       ELSE UNCHANGED <<pool, at>>
    /\ Acts(a)
    /\ UNCHANGED <<key, lock, weak, queue, callback, listeners, crashed>>
\* operator=(Client&&), and the move constructor when c has no pool.
MoveAssign(a, c, d) ==
    /\ Ready(a) /\ c # d /\ Alive(d) /\ ~InUse(c) /\ ~InUse(d)
    /\ owner' = [owner EXCEPT ![c] = owner[d], ![d] = None]
    /\ Release(a, owner[c]) /\ Rename([x \in {c, d} |-> IF x = c THEN Gone ELSE c]) /\ Acts(a)
    /\ UNCHANGED <<key, lock, queue>>

-----------------------------------------------------------------------------
\* A task is posted to the loop of c, and the actor waits for its promise.
Post(a, c, listen) ==
    LET p == owner[c]
    IN  /\ queue' = [queue EXCEPT ![p] = Append(@, [actor |-> a, listen |-> listen])]
        /\ at' = [at EXCEPT ![a] = State("task", c, p, None)]

\* Faulty variant for the mutants: no look at isOwnerThread().
CallSyncPosts(a, c) ==
    /\ Ready(a) /\ a \in Callers /\ Alive(c) /\ Post(a, c, FALSE) /\ Acts(a)
    /\ UNCHANGED <<key, lock, weak, pool, callback, listeners, owner, crashed>>
\* callSync(). On the loop's own thread the session waits on the bus itself, and its
\* time-out ends that.
CallSync(a, c) ==
    /\ Ready(a) /\ a \in Callers /\ Alive(c)
    /\ IF a = owner[c] THEN UNCHANGED <<queue, at>> ELSE Post(a, c, FALSE)
    /\ Acts(a)
    /\ UNCHANGED <<key, lock, weak, pool, callback, listeners, owner, crashed>>
\* listenSignal() and onPropertyChanged(); getProperty(), setProperty() and callAsync()
\* also return when their task was run, and leave no listener.
Listen(a, c) ==
    /\ Ready(a) /\ a \in Callers /\ Alive(c)
    /\ Cardinality((listeners[owner[c]] \union {c}) \ {Gone}) <= MaxListeners
    /\ IF a = owner[c]
       THEN listeners' = [listeners EXCEPT ![a] = @ \union {c}] /\ UNCHANGED <<queue, at>>
       ELSE Post(a, c, TRUE) /\ UNCHANGED listeners
    /\ Acts(a)
    /\ UNCHANGED <<key, lock, weak, pool, callback, owner, crashed>>

-----------------------------------------------------------------------------
\* The loop thread of p, between two callbacks.
Idle(p) == ~crashed /\ pool[p] \in {"running", "stopping"} /\ callback[p] = None

\* The next task: it adds a listener, or sends a call whose reply is still to come.
RunTask(p) ==
    LET task == Head(queue[p])
    IN  /\ Idle(p) /\ queue[p] # <<>>
        /\ queue' = [queue EXCEPT ![p] = Tail(@)]
        /\ IF task.listen
           THEN /\ listeners' = [listeners EXCEPT ![p] = @ \union {at[task.actor].client}]
                /\ at' = [at EXCEPT ![task.actor] = Free]
           ELSE at' = [at EXCEPT ![task.actor].pc = "reply"] /\ UNCHANGED listeners
        /\ UNCHANGED <<key, lock, weak, pool, callback, acted, owner, crashed>>

\* The reply to a's call, or the error of a call that timed out or lost its bus.
Reply(a) ==
    /\ at[a].pc = "reply" /\ Idle(at[a].pool)
    /\ at' = [at EXCEPT ![a] = Free]
    /\ UNCHANGED <<key, lock, weak, pool, queue, callback, acted, listeners, owner, crashed>>

\* A signal for a listener, and the end of its callback.
StartCallback(p, c) ==
    /\ Idle(p) /\ c \in listeners[p]
    /\ callback' = [callback EXCEPT ![p] = c] /\ acted' = acted \ {p}
    /\ UNCHANGED <<key, lock, weak, pool, queue, listeners, owner, at, crashed>>
EndCallback(p) ==
    /\ ~crashed /\ callback[p] # None /\ at[p] = Free
    /\ callback' = [callback EXCEPT ![p] = None] /\ acted' = acted \ {p}
    /\ UNCHANGED <<key, lock, weak, pool, queue, listeners, owner, at, crashed>>

\* The exit event is served and run() returns.
LoopEnds(p) ==
    /\ Idle(p) /\ pool[p] = "stopping"
    /\ pool' = [pool EXCEPT ![p] = "ended"]
    /\ UNCHANGED <<key, lock, weak, queue, callback, acted, listeners, owner, at, crashed>>
\* join() returns, and the looper and the session go.
Join(a) ==
    LET p == at[a].pool
    IN  /\ ~crashed /\ at[a].pc = "join" /\ pool[p] = "ended"
        /\ pool' = [pool EXCEPT ![p] = "unused"] /\ key' = [key EXCEPT ![p] = None]
        /\ listeners' = [listeners EXCEPT ![p] = {}]
        /\ at' = [at EXCEPT ![a] = Free]
        /\ UNCHANGED <<lock, weak, queue, callback, acted, owner, crashed>>

-----------------------------------------------------------------------------
Program(a) ==
    \/ \E c \in Clients :
          \/ \E k \in Keys : Lookup(a, c, k)
          \/ Destroy(a, c)
          \/ \E d \in Clients : MoveAssign(a, c, d)
          \/ CallSync(a, c)
          \/ Listen(a, c)
    \/ \E p \in Pools : Create(a, p)
    \/ Reply(a)
    \/ Join(a)
Loop(p) ==
    \/ RunTask(p) \/ EndCallback(p) \/ LoopEnds(p)
    \/ \E c \in Clients \union {Gone} : StartCallback(p, c)

Next == (\E a \in Actors : Program(a)) \/ \E p \in Pools : Loop(p)

Spec == Init /\ [][Next]_vars

\* A loop serves its sources in turn, whatever else keeps arriving; callbacks return,
\* and a constructor goes on. Nobody has to make, use or destroy a client.
Fairness ==
    /\ \A p \in Pools : SF_vars(RunTask(p) \/ LoopEnds(p)) /\ WF_vars(EndCallback(p))
    /\ \A a \in Callers : SF_vars(Reply(a))
    /\ \A a \in Actors : WF_vars(Join(a) \/ \E p \in Pools : Create(a, p))

FairSpec == Spec /\ Fairness

-----------------------------------------------------------------------------
Live(p) == \E c \in Clients : owner[c] = p
Joins(a, p) == at[a].pc = "join" /\ at[a].pool = p
Calls(a, p) == at[a].pc \in {"task", "reply"} /\ at[a].pool = p

(* A pool is torn down alone: from the moment its loop is told to stop, no   *)
(* client has it, no later client can find it, nobody waits for a task or a  *)
(* reply of its loop, and exactly one destructor waits for its thread. So no *)
(* call is lost with the tasks a stopped loop keeps (Client.cpp:10-13,       *)
(* 30-54, 68-95).                                                            *)
TornDownAlone ==
    \A p \in Pools : pool[p] \in {"stopping", "ended"} =>
        /\ ~Live(p) /\ queue[p] = <<>>
        /\ \A k \in Keys : weak[k] # p
        /\ \A a \in Actors : ~Calls(a, p)
        /\ \E a \in Actors : Joins(a, p) /\ \A b \in Actors : Joins(b, p) => b = a

(* The clients of one service share one pool, however their construction,    *)
(* moves and destruction on several threads overlap (sPeerLock,              *)
(* Client.cpp:75-85). For the buses, which have no lock, this does not hold. *)
PeersShareOnePool ==
    \A c, d \in Clients :
        Alive(c) /\ Alive(d) /\ key[owner[c]] = key[owner[d]] /\ key[owner[c]] \in Peers
            => owner[c] = owner[d]

(* Two ways to wait for ever: in a ring of loops whose callbacks call one    *)
(* another's services, or for a loop that never ran.                         *)
Stuck(a) ==
    \E ring \in SUBSET Actors :
        /\ a \in ring
        /\ \A b \in ring : \/ at[b].pool \in ring \ {b}
                           \/ at[b].pc = "task" /\ pool[at[b].pool] = "failed"
(* Every call, and every destruction of a client, ends, also one made in a   *)
(* callback, unless the loops wait for one another in a ring, the bus of the *)
(* loop could not be opened, or the program is terminated. In particular a   *)
(* loop never waits for a task of its own (isOwnerThread(), Client.hpp:110). *)
CallEnds == \A a \in Actors :
    at[a].pc \in {"task", "reply", "join"} ~> at[a] = Free \/ Stuck(a) \/ crashed

(* What dxxcpp.en.md:514 says of listeners: they stay active until the       *)
(* proxy is destroyed, so what they capture has to outlive the proxy only.   *)
NoCallbackAfterClient == \A p \in Pools : callback[p] = Gone => pool[p] = "stopping"
=============================================================================
