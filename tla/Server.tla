------------------------------- MODULE Server -------------------------------
(***************************************************************************)
(* Server<Derived> (library/include/Server.hpp) on top of its Looper: one  *)
(* thread calls run(), whose ready callback registers the annotated        *)
(* interfaces, one group per path and interface; other threads call        *)
(* emit(), getProperty(), setProperty() and onPropertyChanged(), which all *)
(* test status(), post a task that refers to a promise on the caller's     *)
(* stack and block on its future; they call post(), and stop() or          *)
(* forceStop().                                                            *)
(*                                                                         *)
(* The looper is module Looper, instantiated on variables of this one, so  *)
(* that a call is pushed, woken, swapped and run as Looper says.  A method *)
(* called on the loop thread itself runs in place, within the task that    *)
(* calls it, and run() called again returns at once: neither is a step.    *)
(***************************************************************************)
EXTENDS Naturals, Sequences, Functions

CONSTANTS
    Posters,        \* the threads that call the server's methods
    LoopThread,     \* the thread that calls run()
    MaxPosts,       \* bound: tasks posted by each thread, a function
    MaxStops,       \* bound: stop() calls not yet consumed by the loop
    Stoppers,       \* the threads that call stop() or forceStop(), once
    Groups          \* how many groups the registry has

ASSUME ServerAssumption ==
    /\ LoopThread \notin Posters
    /\ MaxPosts \in [Posters \cup {LoopThread} -> Nat]
    /\ MaxStops \in Nat
    /\ Groups \in Nat

VARIABLES
    loop, status, acceptSrc, ready, tasks, wakeFd, exitFd, batch, ran, posted,
    poster,         \* mLooper, as in module Looper
    runCalled,      \* mRunCalled
    srvStatus,      \* mStatus of the server
    inited,         \* mInited
    committed,      \* how many groups the session has registered
    init,           \* where the ready callback is
    thread,         \* where each poster is in a method of the server
    calls,          \* the posted tasks that refer to their caller's promise
    answered,       \* those whose promise has been set
    stopper         \* what became of each stop

L == INSTANCE Looper

looperVars == <<loop, status, acceptSrc, ready, tasks, wakeFd, exitFd, batch,
                ran, posted, poster>>

initVars == <<srvStatus, inited, committed, init>>

callVars == <<thread, calls, answered>>

vars == <<looperVars, runCalled, initVars, callVars, stopper>>

TypeOK ==
    /\ L!TypeOK
    /\ runCalled \in BOOLEAN
    /\ srvStatus \in {"ok", "error"}
    /\ inited \in BOOLEAN
    /\ committed \in 0 .. Groups
    /\ init \in {"none", "running", "returned"}
    /\ thread \in [Posters -> {"out", "calling", "posting", "waiting"}]
    /\ calls \subseteq L!Task
    /\ answered \subseteq calls
    /\ stopper \in [Stoppers -> {"out", "checked", "ignored", "stopped"}]

\* The constructor: the session may have failed, which leaves the looper's
\* status to tell, or may listen for a peer.
Init ==
    /\ L!Init
    /\ runCalled = FALSE
    /\ srvStatus = "ok"
    /\ inited = FALSE
    /\ committed = 0
    /\ init = "none"
    /\ thread = [t \in Posters |-> "out"]
    /\ calls = {}
    /\ answered = {}
    /\ stopper = [s \in Stoppers |-> "out"]

-----------------------------------------------------------------------------
(* Mutated steps: plausible mistakes in the code, which the properties must *)
(* tell from the steps below.  They are no part of the specification.       *)

\* Mutant of Run: the looper gets its ready callback after run(), too late.
RunBeforeReady ==
    /\ ~runCalled
    /\ runCalled' = TRUE
    /\ UNCHANGED <<looperVars, initVars, callVars, stopper>>

\* Mutant of ReadyReturns: a method of the server called by the ready callback
\* does not see that it is on the loop thread, and waits for the loop.
ReadyWaits ==
    /\ init = "running"
    /\ inited \/ srvStatus = "error"
    /\ answered # {}
    /\ init' = "returned"
    /\ (batch # <<>> /\ L!RunTask) \/ (L!DispatchAccept /\ status' = srvStatus)
    /\ UNCHANGED <<runCalled, srvStatus, inited, committed, callVars, stopper>>

\* Mutant of RunPosted: a task runs and its promise is not set.
RunUnanswered ==
    /\ init # "running"
    /\ L!RunTask
    /\ Head(batch) # L!ReadyTask
    /\ UNCHANGED <<runCalled, initVars, callVars, stopper>>

\* Mutant of CommitGroup: a refused group does not end init(), and the status
\* of the next one overwrites the error.
CommitGoesOn ==
    /\ init = "running"
    /\ committed < Groups
    /\ committed' = committed + 1
    /\ srvStatus' \in {"ok", "error"}
    /\ UNCHANGED <<looperVars, runCalled, inited, init, callVars, stopper>>

\* Mutant of WakeLoop: a call does not wait for its answer.
WakeAndReturn(t) ==
    /\ L!Wake(t)
    /\ thread' = [thread EXCEPT ![t] = "out"]
    /\ UNCHANGED <<runCalled, initVars, calls, answered, stopper>>

-----------------------------------------------------------------------------
\* status().isError(): the server's own status comes first, then NOT_CONNECTED
\* until the registration is complete, then the looper's status.
StatusIsError == srvStatus = "error" \/ ~inited \/ status = "error"

-----------------------------------------------------------------------------
(* run() and the loop                                                      *)

\* run(): the first call hands init() to the looper as its ready callback ...
Run ==
    /\ ~runCalled
    /\ runCalled' = TRUE
    /\ L!OnReady
    /\ UNCHANGED <<initVars, callVars, stopper>>

\* ... and enters the loop.
EnterLoop ==
    /\ runCalled
    /\ L!RunFails \/ L!RunEnters
    /\ UNCHANGED <<runCalled, initVars, callVars, stopper>>

\* The ready callback starts: it is the task at hand, or a peer was accepted.
BeginInit ==
    /\ init = "none"
    /\ \/ loop = "running" /\ batch # <<>> /\ Head(batch) = L!ReadyTask
       \/ loop = "polling" /\ acceptSrc = "armed" /\ ready = "set"
    /\ init' = "running"
    /\ UNCHANGED <<looperVars, runCalled, srvStatus, inited, committed, callVars,
                   stopper>>

\* init() commits the next group; at the first failure it returns.
CommitGroup ==
    /\ init = "running"
    /\ srvStatus = "ok"
    /\ committed < Groups
    /\ \/ /\ committed' = committed + 1
          /\ UNCHANGED srvStatus
       \/ /\ srvStatus' = "error"
          /\ UNCHANGED committed
    /\ UNCHANGED <<looperVars, runCalled, inited, init, callVars, stopper>>

SetInited ==
    /\ init = "running"
    /\ srvStatus = "ok"
    /\ committed = Groups
    /\ ~inited
    /\ inited' = TRUE
    /\ UNCHANGED <<looperVars, runCalled, srvStatus, committed, init, callVars,
                   stopper>>

\* The callback returns the server's status: the task drops it, the handler of
\* a peer's connection makes it the looper's.
ReadyReturns ==
    /\ init = "running"
    /\ inited \/ srvStatus = "error"
    /\ init' = "returned"
    /\ \/ /\ batch # <<>>
          /\ Head(batch) = L!ReadyTask
          /\ L!RunTask
       \/ /\ L!DispatchAccept
          /\ status' = srvStatus
          /\ ready' = "called"
    /\ UNCHANGED <<runCalled, srvStatus, inited, committed, callVars, stopper>>

\* The connection of a peer cannot be set up: the ready callback is not called.
AcceptFails ==
    /\ init = "none"
    /\ L!DispatchAccept
    /\ status' = "error"
    /\ ready' # "called"
    /\ UNCHANGED <<runCalled, initVars, callVars, stopper>>

\* A posted task runs: a call is executed and its promise is set.
RunPosted ==
    /\ init # "running"
    /\ L!RunTask
    /\ Head(batch) # L!ReadyTask
    /\ answered' = answered \cup ({Head(batch)} \cap calls)
    /\ UNCHANGED <<runCalled, initVars, thread, calls, stopper>>

\* The other steps of the loop.
LoopStep ==
    /\ init # "running"
    /\ \/ L!DispatchExit \/ L!DispatchWake \/ L!TakeTasks \/ L!BatchDone
       \/ L!LoopPost
    /\ UNCHANGED <<runCalled, initVars, callVars, stopper>>

-----------------------------------------------------------------------------
(* emit(), getProperty(), setProperty(), onPropertyChanged() and post()    *)
(*                                                                         *)
(* The four calls have one body but for the session's method that their    *)
(* task calls: they test status(), run in place on the loop thread, or     *)
(* make a promise, post a task that sets it and block on its future.  The  *)
(* actions are that body; each is mapped to another of the four methods.   *)

\* A call passes the test of status(); otherwise it returns that status.
CheckCall(t) ==
    /\ thread[t] = "out"
    /\ posted[t] < MaxPosts[t]
    /\ ~StatusIsError
    /\ thread' = [thread EXCEPT ![t] = "calling"]
    /\ UNCHANGED <<looperVars, runCalled, initVars, calls, answered, stopper>>

\* post() tests the looper's status only, and drops the task on an error.
CheckPost(t) ==
    /\ thread[t] = "out"
    /\ posted[t] < MaxPosts[t]
    /\ status = "ok"
    /\ thread' = [thread EXCEPT ![t] = "posting"]
    /\ UNCHANGED <<looperVars, runCalled, initVars, calls, answered, stopper>>

PushTask(t) ==
    /\ thread[t] \in {"calling", "posting"}
    /\ L!Push(t)
    /\ calls' = IF thread[t] = "calling"
                THEN calls \cup {<<t, posted[t] + 1>>} ELSE calls
    /\ UNCHANGED <<runCalled, initVars, thread, answered, stopper>>

\* The eventfd is written: post() returns, and a call blocks on its future.
WakeLoop(t) ==
    /\ L!Wake(t)
    /\ thread' = [thread EXCEPT ![t] = IF @ = "calling" THEN "waiting" ELSE "out"]
    /\ UNCHANGED <<runCalled, initVars, calls, answered, stopper>>

\* The promise has been set: the call returns, and the promise is gone.
CallReturns(t) ==
    /\ thread[t] = "waiting"
    /\ <<t, posted[t]>> \in answered
    /\ thread' = [thread EXCEPT ![t] = "out"]
    /\ UNCHANGED <<looperVars, runCalled, initVars, calls, answered, stopper>>

-----------------------------------------------------------------------------
(* stop() and forceStop()                                                  *)

CheckStop(s) ==
    /\ stopper[s] = "out"
    /\ ~StatusIsError
    /\ stopper' = [stopper EXCEPT ![s] = "checked"]
    /\ UNCHANGED <<looperVars, runCalled, initVars, callVars>>

\* stop() on an error does nothing; what is recorded is a stop after run().
IgnoreStop(s) ==
    /\ stopper[s] = "out"
    /\ runCalled
    /\ StatusIsError
    /\ stopper' = [stopper EXCEPT ![s] = "ignored"]
    /\ UNCHANGED <<looperVars, runCalled, initVars, callVars>>

\* The write of the exit eventfd, at once in forceStop().
WriteStop(s) ==
    /\ stopper[s] \in {"checked", "out"}
    /\ L!Stop
    /\ stopper' = [stopper EXCEPT ![s] = "stopped"]
    /\ UNCHANGED <<runCalled, initVars, callVars>>

-----------------------------------------------------------------------------
Next ==
    \/ Run \/ EnterLoop
    \/ BeginInit \/ CommitGroup \/ SetInited \/ ReadyReturns \/ AcceptFails
    \/ RunPosted \/ LoopStep
    \/ \E t \in Posters :
          \/ CheckCall(t) \/ CheckPost(t) \/ PushTask(t) \/ WakeLoop(t)
          \/ CallReturns(t)
    \/ \E s \in Stoppers : CheckStop(s) \/ IgnoreStop(s) \/ WriteStop(s)

Spec == Init /\ [][Next]_vars

\* The thread that called run() goes on until the loop has nothing to do, by
\* Looper's fairness among the sources, and a thread goes on inside a method.
\* Nobody is obliged to call one, or to connect.
Fairness ==
    /\ WF_vars(EnterLoop)
    /\ WF_vars(BeginInit /\ loop = "running")
    /\ WF_vars(CommitGroup) /\ WF_vars(SetInited) /\ WF_vars(ReadyReturns)
    /\ WF_vars(RunPosted)
    /\ WF_vars(LoopStep /\ loop \in {"woken", "running"} /\ posted' = posted)
    /\ SF_vars(LoopStep /\ L!DispatchWake)
    /\ SF_vars(LoopStep /\ L!DispatchExit)
    /\ \A t \in Posters :
          WF_vars(PushTask(t)) /\ WF_vars(WakeLoop(t)) /\ WF_vars(CallReturns(t))
    /\ \A s \in Stoppers : WF_vars(WriteStop(s) /\ stopper[s] = "checked")

FairSpec == Spec /\ Fairness

-----------------------------------------------------------------------------
(* Properties                                                              *)

\* The server is as fair to its looper's steps as Looper assumes: init() and the
\* calls it runs on the loop thread hold up the loop's sources for a time only.
LooperGoesOn == L!Fairness

\* A task that refers to a promise (and to getProperty()'s out-parameter) on
\* its caller's stack is queued only while the caller is in that call, and the
\* promise is not set before: it is set once, and never after the call.
PromiseIsAlive ==
    \A e \in L!Queued \cap calls :
        /\ thread[e[1]] \in {"calling", "waiting"}
        /\ e[2] = posted[e[1]]
        /\ e \notin answered

\* A caller that blocks has its task queued or its answer: no call is lost.
WaiterIsServed ==
    \A t \in Posters :
        thread[t] = "waiting" =>
            <<t, posted[t]>> \in (L!Queued \cap calls) \cup answered

\* No call of another thread gets to the loop before all groups have been
\* registered, also while init() is between two groups.
CallsAfterInit ==
    calls # {} => inited /\ committed = Groups /\ srvStatus = "ok"

\* The first failure to register a group is final: the server neither goes on
\* registering nor reports success later ("error takes precedence").
FailureIsFinal ==
    [][srvStatus = "error" =>
          srvStatus' = "error" /\ ~inited' /\ committed' = committed]_vars

\* A thread is in a call from the push of its task to the end of the wait.
InCall(t) ==
    thread[t] = "waiting" \/ (thread[t] = "calling" /\ poster[t] = "unlocked")

\* Where a call stands: it is done once its own promise has been set.
Place(t) ==
    CASE thread[t] \in {"out", "posting"} -> "idle"
      [] InCall(t) /\ <<t, posted[t]>> \in answered -> "done"
      [] OTHER -> "asked"

Promised == INSTANCE Service WITH
        Callers <- Posters, Call <- L!Task,
        place <- [t \in Posters |-> Place(t)],
        executed <- Range(ran) \cap calls,
        open <- inited /\ committed = Groups /\ srvStatus = "ok",
        closed <- loop = "returned"

\* Calls are atomic: whatever thread makes it, a call is executed once, on the
\* loop, between its invocation and its return, with the whole interface
\* registered and the loop alive ("All Server methods are thread-safe",
\* Server.en.md).
ImplementsService == Promised!Spec

\* A call whose task is posted returns, or the loop ends.
CallEnds ==
    \A t \in Posters :
        thread[t] = "waiting" ~> thread[t] = "out" \/ loop = "returned"

\* A server on a bus that got into its loop is registered or says why not.
ServerComesUp ==
    loop = "polling" /\ acceptSrc = "none" ~>
        inited \/ srvStatus = "error" \/ loop = "returned"

-----------------------------------------------------------------------------
(* What the documentation says and the code does not do                    *)

\* "run() blocks the current thread; to exit, call stop() / forceStop() from
\* another thread" (Server.en.md), stop() being a "no-op if already errored".
StopIsHeard ==
    \A s \in Stoppers :
        stopper[s] = "ignored" ~>
            loop = "returned" \/ srvStatus = "error" \/ status = "error"

\* "All Server methods are thread-safe" (Server.en.md): a call from another
\* thread returns, whenever it is made, also while another thread stops the
\* server or when it has stopped.
CallsReturn ==
    \A t \in Posters : thread[t] = "calling" ~> thread[t] = "out"
=============================================================================
