------------------------------- MODULE Looper -------------------------------
(***************************************************************************)
(* LooperPrivate (library/src/private/session/LooperPrivate.cpp): an       *)
(* sd-event loop driven by the one thread that calls run().  Other threads *)
(* hand it tasks with post() and end it with stop().                       *)
(*                                                                         *)
(* post() is two steps, since the eventfd is written after the queue's     *)
(* mutex is released; the handler of the eventfd is two steps as well, a   *)
(* read that clears the counter and, under the mutex, the swap of the      *)
(* queue with a local deque whose tasks are then run without the mutex.    *)
(* stop() only writes a second eventfd, so it may precede run().           *)
(*                                                                         *)
(* sd-event dispatches one ready source per iteration; which one, when     *)
(* several are ready, is left open here, and the fairness below says that  *)
(* it does not pass over a source forever.                                 *)
(***************************************************************************)
EXTENDS Naturals, Sequences, Functions

CONSTANTS
    Posters,        \* the threads that use the looper from outside
    LoopThread,     \* the thread that calls run()
    MaxPosts,       \* bound: post() calls of each thread, a function
    MaxStops        \* bound: stop() calls not yet consumed by the loop

ASSUME LooperAssumption ==
    /\ LoopThread \notin Posters
    /\ MaxPosts \in [Posters \cup {LoopThread} -> Nat]
    /\ MaxStops \in Nat

Threads == Posters \cup {LoopThread}

\* The n-th task posted by a thread.  run() itself posts the ready callback,
\* before any handler of the loop can post: it is the loop thread's task 0.
Task == UNION {{t} \X (0 .. MaxPosts[t]) : t \in Threads}

ReadyTask == <<LoopThread, 0>>

VARIABLES
    loop,           \* where the loop thread is
    status,         \* mStatus
    acceptSrc,      \* mAcceptSrc: the source that waits for a peer
    ready,          \* mReadyCallBack
    tasks,          \* mTasks, guarded by mTaskMutex
    wakeFd,         \* mWakeFd: the counter of the eventfd
    exitFd,         \* mExitFd: the counter of the eventfd
    batch,          \* the deque the wake handler swapped out of mTasks
    ran,            \* history: the tasks run so far
    posted,         \* how many tasks each thread has posted
    poster          \* where each poster is inside post()

vars == <<loop, status, acceptSrc, ready, tasks, wakeFd, exitFd, batch, ran,
          posted, poster>>

LoopPlace == {"created", "polling", "woken", "running", "returned"}

TypeOK ==
    /\ loop \in LoopPlace
    /\ status \in {"ok", "error"}
    /\ acceptSrc \in {"none", "armed", "off"}
    /\ ready \in {"none", "set", "posted", "called"}
    /\ tasks \in Seq(Task)
    /\ wakeFd \in Nat
    /\ exitFd \in 0 .. MaxStops
    /\ batch \in Seq(Task)
    /\ ran \in Seq(Task)
    /\ posted \in [Threads -> Nat]
    /\ poster \in [Posters -> {"out", "unlocked"}]

-----------------------------------------------------------------------------
\* The constructor: sd_event_new may have failed, and the session may be a
\* listening peer.
Init ==
    /\ loop = "created"
    /\ status \in {"ok", "error"}
    /\ acceptSrc \in {"none", "armed"}
    /\ ready = "none"
    /\ tasks = <<>>
    /\ wakeFd = 0
    /\ exitFd = 0
    /\ batch = <<>>
    /\ ran = <<>>
    /\ posted = [t \in Threads |-> 0]
    /\ poster = [p \in Posters |-> "out"]

-----------------------------------------------------------------------------
(* Mutated steps: plausible mistakes in the code, which the properties must *)
(* tell from the steps below.  They are no part of the specification.       *)

\* Mutant of Push: post() forgets to write the eventfd.
PushSilently(p) ==
    /\ poster[p] = "out"
    /\ posted[p] < MaxPosts[p]
    /\ posted' = [posted EXCEPT ![p] = @ + 1]
    /\ tasks' = Append(tasks, <<p, posted[p] + 1>>)
    /\ UNCHANGED <<loop, status, acceptSrc, ready, wakeFd, exitFd, batch, ran,
                   poster>>

\* Mutant of Wake: the eventfd is not written while the loop thread is awake.
WakeIfAsleep(p) ==
    /\ poster[p] = "unlocked"
    /\ wakeFd' = IF loop = "running" THEN wakeFd ELSE wakeFd + 1
    /\ poster' = [poster EXCEPT ![p] = "out"]
    /\ UNCHANGED <<loop, status, acceptSrc, ready, tasks, exitFd, batch, ran,
                   posted>>

\* Mutant of RunEnters: run() clears the exit eventfd, as if no stop could have
\* come before it.
RunClearsExit ==
    /\ loop = "created"
    /\ status = "ok"
    /\ loop' = "polling"
    /\ exitFd' = 0
    /\ UNCHANGED <<status, acceptSrc, ready, tasks, wakeFd, batch, ran, posted,
                   poster>>

\* Mutant of DispatchWake: the handler takes one off the counter, as of a
\* semaphore, without a test that it was written.
WakeAsSemaphore ==
    /\ loop = "polling"
    /\ wakeFd' = wakeFd - 1
    /\ loop' = "woken"
    /\ UNCHANGED <<status, acceptSrc, ready, tasks, exitFd, batch, ran, posted,
                   poster>>

\* Mutant of TakeTasks: the queue is copied and not swapped.
CopyTasks ==
    /\ loop = "woken"
    /\ batch' = tasks
    /\ loop' = "running"
    /\ UNCHANGED <<status, acceptSrc, ready, tasks, wakeFd, exitFd, ran, posted,
                   poster>>

\* Mutant of RunTask: the task posted last runs first.
RunNewest ==
    /\ loop = "running"
    /\ batch # <<>>
    /\ ran' = Append(ran, batch[Len(batch)])
    /\ batch' = SubSeq(batch, 1, Len(batch) - 1)
    /\ ready' = IF batch[Len(batch)] = ReadyTask THEN "called" ELSE ready
    /\ UNCHANGED <<loop, status, acceptSrc, tasks, wakeFd, exitFd, posted, poster>>

-----------------------------------------------------------------------------
(* post() and stop(), by the threads outside the loop                      *)

\* post(), first half: push_back under the mutex.
Push(p) ==
    /\ poster[p] = "out"
    /\ posted[p] < MaxPosts[p]
    /\ posted' = [posted EXCEPT ![p] = @ + 1]
    /\ tasks' = Append(tasks, <<p, posted[p] + 1>>)
    /\ poster' = [poster EXCEPT ![p] = "unlocked"]
    /\ UNCHANGED <<loop, status, acceptSrc, ready, wakeFd, exitFd, batch, ran>>

\* post(), second half: write the eventfd.
Wake(p) ==
    /\ poster[p] = "unlocked"
    /\ wakeFd' = wakeFd + 1
    /\ poster' = [poster EXCEPT ![p] = "out"]
    /\ UNCHANGED <<loop, status, acceptSrc, ready, tasks, exitFd, batch, ran,
                   posted>>

\* stop(), from any thread and at any time: before run(), twice, from a task.
Stop ==
    /\ exitFd < MaxStops
    /\ exitFd' = exitFd + 1
    /\ UNCHANGED <<loop, status, acceptSrc, ready, tasks, wakeFd, batch, ran,
                   posted, poster>>

-----------------------------------------------------------------------------
(* run(), on the loop thread                                               *)

\* onReady(), before run(): the callback to run once the loop is ready.
OnReady ==
    /\ loop = "created"
    /\ ready' = "set"
    /\ UNCHANGED <<loop, status, acceptSrc, tasks, wakeFd, exitFd, batch, ran,
                   posted, poster>>

\* run() returns at once when the constructor failed, and at the first of its
\* bind or attach steps that fails.
RunFails ==
    /\ loop = "created"
    /\ loop' = "returned"
    /\ status' = "error"
    /\ UNCHANGED <<acceptSrc, ready, tasks, wakeFd, exitFd, batch, ran, posted,
                   poster>>

\* run() binds its sources and enters the loop.  A listening session calls the
\* ready callback when a peer is accepted, any other posts it now.
RunEnters ==
    /\ loop = "created"
    /\ status = "ok"
    /\ loop' = "polling"
    /\ IF acceptSrc = "none" /\ ready = "set"
       THEN /\ ready' = "posted"
            /\ tasks' = Append(tasks, ReadyTask)
            /\ wakeFd' = wakeFd + 1
       ELSE UNCHANGED <<ready, tasks, wakeFd>>
    /\ UNCHANGED <<status, acceptSrc, exitFd, batch, ran, posted, poster>>

\* The handler of mExitFd: the counter is read and the loop ends.  mStatus
\* becomes the result of sd_event_exit, whatever it was before.
DispatchExit ==
    /\ loop = "polling"
    /\ exitFd > 0
    /\ exitFd' = 0
    /\ status' = "ok"
    /\ loop' = "returned"
    /\ UNCHANGED <<acceptSrc, ready, tasks, wakeFd, batch, ran, posted, poster>>

\* The handler of mWakeFd, first step: the counter is read, and so cleared.
DispatchWake ==
    /\ loop = "polling"
    /\ wakeFd > 0
    /\ wakeFd' = 0
    /\ loop' = "woken"
    /\ UNCHANGED <<status, acceptSrc, ready, tasks, exitFd, batch, ran, posted,
                   poster>>

\* Second step: the queue is swapped with an empty deque under the mutex.
TakeTasks ==
    /\ loop = "woken"
    /\ batch' = tasks
    /\ tasks' = <<>>
    /\ loop' = "running"
    /\ UNCHANGED <<status, acceptSrc, ready, wakeFd, exitFd, ran, posted, poster>>

\* The tasks of the deque run in order, outside the mutex.
RunTask ==
    /\ loop = "running"
    /\ batch # <<>>
    /\ ran' = Append(ran, Head(batch))
    /\ batch' = Tail(batch)
    /\ ready' = IF Head(batch) = ReadyTask THEN "called" ELSE ready
    /\ UNCHANGED <<loop, status, acceptSrc, tasks, wakeFd, exitFd, posted, poster>>

BatchDone ==
    /\ loop = "running"
    /\ batch = <<>>
    /\ loop' = "polling"
    /\ UNCHANGED <<status, acceptSrc, ready, tasks, wakeFd, exitFd, batch, ran,
                   posted, poster>>

\* A task, or the handler of a bus message (the Disconnected signal posts
\* doReconnect), calls post() on the loop thread.  The loop thread is the only
\* reader of the eventfd and is here, so that the two halves are one step.
LoopPost ==
    /\ loop \in {"polling", "running"}
    /\ posted[LoopThread] < MaxPosts[LoopThread]
    /\ posted' = [posted EXCEPT ![LoopThread] = @ + 1]
    /\ tasks' = Append(tasks, <<LoopThread, posted[LoopThread] + 1>>)
    /\ wakeFd' = wakeFd + 1
    /\ UNCHANGED <<loop, status, acceptSrc, ready, exitFd, batch, ran, poster>>

\* A peer connects: the handler disarms the source before it accepts, and calls
\* the ready callback only when the connection was set up.
DispatchAccept ==
    /\ loop = "polling"
    /\ acceptSrc = "armed"
    /\ acceptSrc' = "off"
    /\ \/ /\ status' = "error"
          /\ UNCHANGED ready
       \/ /\ status' \in IF ready = "set" THEN {"ok", "error"} ELSE {"ok"}
          /\ ready' = IF ready = "set" THEN "called" ELSE ready
    /\ UNCHANGED <<loop, tasks, wakeFd, exitFd, batch, ran, posted, poster>>

-----------------------------------------------------------------------------
Next ==
    \/ \E p \in Posters : Push(p) \/ Wake(p)
    \/ Stop
    \/ OnReady \/ RunFails \/ RunEnters
    \/ DispatchExit \/ DispatchWake \/ TakeTasks \/ RunTask \/ BatchDone
    \/ LoopPost
    \/ DispatchAccept

Spec == Init /\ [][Next]_vars

\* A thread inside post() goes on, the loop thread goes on inside a handler,
\* and sd-event does not pass over a ready source forever: among sources of
\* one priority it dispatches the one that has been ready longest.  Nothing
\* obliges anyone to call run(), post() or stop(), or a peer to connect.
Fairness ==
    /\ \A p \in Posters : WF_vars(Wake(p))
    /\ WF_vars(TakeTasks) /\ WF_vars(RunTask) /\ WF_vars(BatchDone)
    /\ SF_vars(DispatchWake) /\ SF_vars(DispatchExit)

FairSpec == Spec /\ Fairness

-----------------------------------------------------------------------------
(* Properties                                                              *)

\* No lost wakeup: while the loop lives, a queued task has its wake-up call on
\* the way, as a written eventfd, as a poster that is about to write it, or as
\* a handler that has read it and not yet swapped the queue (LooperPrivate.cpp,
\* post() and the handler of bindWakeEntry()).
NoLostWakeup ==
    loop # "returned" /\ tasks # <<>> =>
        \/ wakeFd > 0
        \/ \E p \in Posters : poster[p] = "unlocked"
        \/ loop = "woken"

\* The tasks posted and not yet run.
Queued == Range(batch \o tasks)

\* What was posted and is not lost: run, taken by the handler, or queued.
History == ran \o batch \o tasks

\* The tasks of one thread are run in the order in which it posted them, none
\* is dropped and none is run twice, whatever the handler swapped in between
\* ("tasks are executed serially on the loop thread").
PostOrder ==
    /\ \A i, j \in DOMAIN History :
          i < j /\ History[i][1] = History[j][1] => History[i][2] < History[j][2]
    /\ \A p \in Posters : \A n \in 1 .. MaxPosts[p] :
          n <= posted[p] <=> <<p, n>> \in Range(History)

\* The loop implements the abstract queue: a push appends to it, and running a
\* task of the swapped-out deque runs the oldest.
TQ == INSTANCE TaskQueue WITH
        pending <- batch \o tasks, done <- ran, closed <- loop = "returned"

ImplementsTaskQueue == TQ!Spec

\* A task queued while the loop runs is run, or the loop ends.
QueuedIsRun ==
    \A t \in Task :
        (loop # "created" /\ t \in Range(tasks))
            ~> (t \in Range(ran) \/ loop = "returned")

\* If stop() and run() are both called, in whichever order and however many
\* tasks keep coming, run() returns ("Ask the event loop to stop gracefully").
StopEndsRun ==
    <>(exitFd > 0) /\ <>(loop # "created") => <>(loop = "returned")
=============================================================================
