----------------------------- MODULE AsyncReply -----------------------------
(***************************************************************************)
(* One asynchronous call from its start to the end of its handler:         *)
(* Client::callAsync and callSync (Client.hpp), Session::callAsync         *)
(* (Session.hpp), Method::callAsync (Method.hpp), PendingReply             *)
(* (PendingReply.hpp) and ReplyAsyncHandler (ReplyAsyncHandler.cpp).       *)
(*                                                                         *)
(* Every call is made by an application thread of its own through a        *)
(* Client, so that it is posted to the loop thread and its thread blocks   *)
(* until the loop has sent it.  A call in handle form gives its thread a   *)
(* PendingReply; a call in callback form keeps its PendingReply in the     *)
(* session's mRepsPtr until its callback has run.  The PendingReply shares *)
(* a ReplyAsyncHandler, which sd-bus knows by a raw pointer through the    *)
(* slot of the pending call; the deleter of that shared pointer deletes    *)
(* the handler in place on the loop thread and posts the deletion from any *)
(* other.                                                                  *)
(*                                                                         *)
(* The posted tasks are one FIFO queue, which module Looper is shown to    *)
(* implement (TaskQueue).  The steps of onReply are apart, because other   *)
(* threads call setCallback(), wait() and the destructor between them.     *)
(***************************************************************************)
EXTENDS Naturals, Sequences, Functions

CONSTANTS
    HandleCalls,    \* calls whose thread gets a PendingReply
    CallbackCalls,  \* calls made with a completion callback
    Abandoners,     \* handle calls that may be dropped before their reply
    Ret,            \* the return type of each call
    MaxInstalls,    \* bound: setCallback() calls on one PendingReply
    NoCall          \* no call

Calls == HandleCalls \cup CallbackCalls

\* What Reply<Ret> reads from the message: nothing, a string, something else.
RetType == {"void", "string", "other"}

ASSUME AsyncReplyAssumption ==
    /\ HandleCalls \cap CallbackCalls = {}
    /\ Abandoners \subseteq HandleCalls
    /\ Ret \in [Calls -> RetType]
    /\ MaxInstalls \in Nat \ {0}
    /\ NoCall \notin Calls

Task == {"invoke", "delete"} \X Calls

VARIABLES
    queue,      \* the tasks posted to the looper, oldest first
    lpc,        \* where the loop thread is inside onReply, or "idle"
    cur,        \* the call whose onReply runs
    taken,      \* the callback onReply has copied, 0 for none
    app,        \* where the thread of each call is
    handler,    \* the ReplyAsyncHandler of each call
    refs,       \* who holds the shared pointer to it
    slot,       \* its mSlot, the pending call sd-bus knows
    wire,       \* the reply on its way from the peer
    status,     \* its mStatus, set when the call was sent and never again
    got,        \* the Reply the promise holds, by what its isError() says
    fin,        \* its isFinished
    installed,  \* the callback in *mCallback: the n-th installed, 0 for none
    fired,      \* the callbacks run, in order
    crashed     \* shared_from_this() threw inside sd-bus

vars == <<queue, lpc, cur, taken, app, handler, refs, slot, wire, status, got,
          fin, installed, fired, crashed>>

loopVars == <<lpc, cur, taken>>
replyVars == <<got, fin, installed, fired>>
handlerVars == <<handler, refs, slot>>

AppPlace == {"new", "calling", "holding", "waiting", "installing", "firing",
             "done"}

TypeOK ==
    /\ queue \in Seq(Task)
    /\ lpc \in {"idle", "deliver", "take", "call", "finish", "leave"}
    /\ cur \in Calls \cup {NoCall}
    /\ taken \in 0 .. MaxInstalls
    /\ app \in [Calls -> AppPlace]
    /\ handler \in [Calls -> {"none", "live", "dying", "deleted"}]
    /\ refs \in [Calls -> SUBSET {"app", "reps", "guard"}]
    /\ slot \in [Calls -> {"none", "pending", "released"}]
    /\ wire \in [Calls -> {"none", "asked", "value", "error"}]
    /\ status \in [Calls -> {"ok", "error"}]
    /\ got \in [Calls -> {"none", "ok", "error"}]
    /\ fin \in [Calls -> BOOLEAN]
    /\ installed \in [Calls -> 0 .. MaxInstalls]
    /\ fired \in [Calls -> Seq(1 .. MaxInstalls)]
    /\ crashed \in BOOLEAN

Init ==
    /\ queue = <<>>
    /\ lpc = "idle"
    /\ cur = NoCall
    /\ taken = 0
    /\ app = [c \in Calls |-> "new"]
    /\ handler = [c \in Calls |-> "none"]
    /\ refs = [c \in Calls |-> {}]
    /\ slot = [c \in Calls |-> "none"]
    /\ wire = [c \in Calls |-> "none"]
    /\ status = [c \in Calls |-> "ok"]
    /\ got = [c \in Calls |-> "none"]
    /\ fin = [c \in Calls |-> FALSE]
    /\ installed = [c \in Calls |-> 0]
    /\ fired = [c \in Calls |-> <<>>]
    /\ crashed = FALSE

-----------------------------------------------------------------------------
(* The promise and the Reply                                               *)

\* promise.set_value() has been called: mFuture.get() does not block.
Resolved(c) == got[c] # "none"

\* Reply<Ret> has the status of the handler's message, which onReply never
\* sets, and the result of reading a Ret from it.  Reply<void> reads nothing,
\* and an error message carries a string, its text.
ReplyOf(c) ==
    IF wire[c] = "error" /\ Ret[c] = "other" THEN "error" ELSE "ok"

-----------------------------------------------------------------------------
(* Mutated steps: plausible mistakes in the code, which the properties must *)
(* tell from the steps below.  They are no part of the specification.       *)

\* Mutant of SendCallback: the callback is not installed before the task returns.
SendOnly(c) ==
    /\ c \in CallbackCalls
    /\ handler' = [handler EXCEPT ![c] = "live"]
    /\ refs' = [refs EXCEPT ![c] = {"reps"}]
    /\ slot' = [slot EXCEPT ![c] = "pending"]
    /\ wire' = [wire EXCEPT ![c] = "asked"]
    /\ app' = [app EXCEPT ![c] = "done"]
    /\ UNCHANGED <<status, replyVars>>

\* Mutant of FailHandle: the handler is born finished, and the constructor of
\* PendingReply does not resolve the promise.
FailUnresolved(c) ==
    /\ c \in HandleCalls
    /\ handler' = [handler EXCEPT ![c] = "live"]
    /\ refs' = [refs EXCEPT ![c] = {"app"}]
    /\ status' = [status EXCEPT ![c] = "error"]
    /\ fin' = [fin EXCEPT ![c] = TRUE]
    /\ app' = [app EXCEPT ![c] = "holding"]
    /\ UNCHANGED <<slot, wire, got, installed, fired>>

\* Mutant of FailHandle: the call is reported as failed after sd-bus has taken
\* it, and stays registered.
FailAfterSend(c) ==
    /\ c \in HandleCalls
    /\ handler' = [handler EXCEPT ![c] = "live"]
    /\ refs' = [refs EXCEPT ![c] = {"app"}]
    /\ slot' = [slot EXCEPT ![c] = "pending"]
    /\ wire' = [wire EXCEPT ![c] = "asked"]
    /\ status' = [status EXCEPT ![c] = "error"]
    /\ got' = [got EXCEPT ![c] = "error"]
    /\ fin' = [fin EXCEPT ![c] = TRUE]
    /\ app' = [app EXCEPT ![c] = "holding"]
    /\ UNCHANGED <<installed, fired>>

\* Mutant of OnReply: the handler takes no reference to itself.
OnReplyUnguarded(c) ==
    /\ ~crashed
    /\ lpc = "idle"
    /\ slot[c] = "pending"
    /\ wire[c] \in {"value", "error"}
    /\ refs[c] # {}
    /\ slot' = [slot EXCEPT ![c] = "released"]
    /\ cur' = c
    /\ lpc' = "deliver"
    /\ UNCHANGED <<queue, taken, app, handler, refs, wire, status, replyVars,
                   crashed>>

\* Mutant of Deliver: the promise is not resolved.
DeliverNothing ==
    /\ lpc = "deliver"
    /\ lpc' = "take"
    /\ UNCHANGED <<queue, cur, taken, app, handlerVars, wire, status, replyVars,
                   crashed>>

\* Mutant of Deliver: the handler counts as finished before its callback ran.
DeliverFinished ==
    /\ lpc = "deliver"
    /\ got' = [got EXCEPT ![cur] = ReplyOf(cur)]
    /\ fin' = [fin EXCEPT ![cur] = TRUE]
    /\ lpc' = "take"
    /\ UNCHANGED <<queue, cur, taken, app, handlerVars, wire, status, installed,
                   fired, crashed>>

\* Mutant of RunCallback: the entry of mRepsPtr is not erased.
RunAndKeep ==
    /\ lpc = "call"
    /\ fired' = IF taken = 0 THEN fired
                ELSE [fired EXCEPT ![cur] = Append(@, taken)]
    /\ lpc' = "finish"
    /\ UNCHANGED <<queue, cur, taken, app, handlerVars, wire, status, got, fin,
                   installed, crashed>>

\* Mutant of Drop: the handler is deleted on the thread that drops it.
DropInPlace(c) ==
    /\ ~crashed
    /\ app[c] = "holding"
    /\ got[c] # "none" \/ c \in Abandoners
    /\ app' = [app EXCEPT ![c] = "done"]
    /\ refs' = [refs EXCEPT ![c] = @ \ {"app"}]
    /\ handler' = [handler EXCEPT ![c] = IF refs[c] = {"app"} THEN "deleted" ELSE @]
    /\ slot' = [slot EXCEPT ![c] =
                   IF refs[c] = {"app"} /\ @ = "pending" THEN "released" ELSE @]
    /\ UNCHANGED <<queue, loopVars, wire, status, replyVars, crashed>>

-----------------------------------------------------------------------------
(* Starting a call                                                         *)

\* Client::callAsync off the loop thread: post, then block on the future.
Call(c) ==
    /\ app[c] = "new"
    /\ app' = [app EXCEPT ![c] = "calling"]
    /\ queue' = Append(queue, <<"invoke", c>>)
    /\ UNCHANGED <<loopVars, handlerVars, wire, status, replyVars, crashed>>

\* The posted task up to the send: sd-bus has the call and the handler.
SendHandle(c) ==
    /\ c \in HandleCalls
    /\ handler' = [handler EXCEPT ![c] = "live"]
    /\ refs' = [refs EXCEPT ![c] = {"app"}]
    /\ slot' = [slot EXCEPT ![c] = "pending"]
    /\ wire' = [wire EXCEPT ![c] = "asked"]
    /\ app' = [app EXCEPT ![c] = "holding"]
    /\ UNCHANGED <<status, replyVars>>

\* In callback form the PendingReply is kept in mRepsPtr and the callback is
\* installed before the task returns.
SendCallback(c) ==
    /\ c \in CallbackCalls
    /\ handler' = [handler EXCEPT ![c] = "live"]
    /\ refs' = [refs EXCEPT ![c] = {"reps"}]
    /\ slot' = [slot EXCEPT ![c] = "pending"]
    /\ wire' = [wire EXCEPT ![c] = "asked"]
    /\ installed' = [installed EXCEPT ![c] = 1]
    /\ app' = [app EXCEPT ![c] = "done"]
    /\ UNCHANGED <<status, got, fin, fired>>

\* The arguments could not be written, or sd-bus refused the call: the handler
\* is born finished and the PendingReply resolves its promise with the error.
FailHandle(c) ==
    /\ c \in HandleCalls
    /\ handler' = [handler EXCEPT ![c] = "live"]
    /\ refs' = [refs EXCEPT ![c] = {"app"}]
    /\ status' = [status EXCEPT ![c] = "error"]
    /\ got' = [got EXCEPT ![c] = "error"]
    /\ fin' = [fin EXCEPT ![c] = TRUE]
    /\ app' = [app EXCEPT ![c] = "holding"]
    /\ UNCHANGED <<slot, wire, installed, fired>>

\* In callback form setCallback() then runs the callback at once, which erases
\* the entry of mRepsPtr: the handler is deleted before the task returns.
FailCallback(c) ==
    /\ c \in CallbackCalls
    /\ handler' = [handler EXCEPT ![c] = "deleted"]
    /\ status' = [status EXCEPT ![c] = "error"]
    /\ got' = [got EXCEPT ![c] = "error"]
    /\ fin' = [fin EXCEPT ![c] = TRUE]
    /\ installed' = [installed EXCEPT ![c] = 1]
    /\ fired' = [fired EXCEPT ![c] = Append(@, 1)]
    /\ app' = [app EXCEPT ![c] = "done"]
    /\ UNCHANGED <<refs, slot, wire>>

\* The loop runs the posted call.
RunInvoke(c) ==
    /\ ~crashed
    /\ lpc = "idle"
    /\ queue # <<>>
    /\ Head(queue) = <<"invoke", c>>
    /\ queue' = Tail(queue)
    /\ SendHandle(c) \/ SendCallback(c) \/ FailHandle(c) \/ FailCallback(c)
    /\ UNCHANGED <<loopVars, crashed>>

-----------------------------------------------------------------------------
(* The reply                                                               *)

\* The peer answers or fails, or sd-bus makes up an error when the time is up.
Answer(c) ==
    /\ wire[c] = "asked"
    /\ \E r \in {"value", "error"} : wire' = [wire EXCEPT ![c] = r]
    /\ UNCHANGED <<queue, loopVars, app, handlerVars, status, replyVars, crashed>>

\* sd-bus has an answer for a call whose slot is registered.
Answered(c) ==
    /\ ~crashed
    /\ lpc = "idle"
    /\ slot[c] = "pending"
    /\ wire[c] \in {"value", "error"}

\* onReply: it takes a reference of its own to the handler and releases the slot.
OnReply(c) ==
    /\ Answered(c)
    /\ refs[c] # {}
    /\ refs' = [refs EXCEPT ![c] = @ \cup {"guard"}]
    /\ slot' = [slot EXCEPT ![c] = "released"]
    /\ cur' = c
    /\ lpc' = "deliver"
    /\ UNCHANGED <<queue, taken, app, handler, wire, status, replyVars, crashed>>

\* The handler's last reference is gone, its deletion is posted but has not run:
\* shared_from_this() throws std::bad_weak_ptr through sd-bus.
OnReplyDying(c) ==
    /\ Answered(c)
    /\ refs[c] = {}
    /\ crashed' = TRUE
    /\ UNCHANGED <<queue, loopVars, app, handlerVars, wire, status, replyVars>>

\* The callback of PendingReply::onGetReply: resolve the promise ...
Deliver ==
    /\ lpc = "deliver"
    /\ got' = [got EXCEPT ![cur] = ReplyOf(cur)]
    /\ lpc' = "take"
    /\ UNCHANGED <<queue, cur, taken, app, handlerVars, wire, status, fin,
                   installed, fired, crashed>>

\* ... copy *mCallback under mMutex, which setCallback() holds while installing,
Take ==
    /\ lpc = "take"
    /\ app[cur] # "installing"
    /\ taken' = installed[cur]
    /\ lpc' = "call"
    /\ UNCHANGED <<queue, cur, app, handlerVars, wire, status, replyVars, crashed>>

\* ... and run the copy.  In callback form the entry of mRepsPtr is then erased.
RunCallback ==
    /\ lpc = "call"
    /\ fired' = IF taken = 0 THEN fired
                ELSE [fired EXCEPT ![cur] = Append(@, taken)]
    /\ refs' = [refs EXCEPT ![cur] = @ \ {"reps"}]
    /\ lpc' = "finish"
    /\ UNCHANGED <<queue, cur, taken, app, handler, slot, wire, status, got, fin,
                   installed, crashed>>

\* Back in onReply.
Finish ==
    /\ lpc = "finish"
    /\ fin' = [fin EXCEPT ![cur] = TRUE]
    /\ lpc' = "leave"
    /\ UNCHANGED <<queue, cur, taken, app, handlerVars, wire, status, got,
                   installed, fired, crashed>>

\* onReply returns: without another reference the handler is deleted here.
Leave ==
    /\ lpc = "leave"
    /\ refs' = [refs EXCEPT ![cur] = @ \ {"guard"}]
    /\ handler' = IF refs[cur] = {"guard"}
                  THEN [handler EXCEPT ![cur] = "deleted"] ELSE handler
    /\ lpc' = "idle"
    /\ cur' = NoCall
    /\ taken' = 0
    /\ UNCHANGED <<queue, app, slot, wire, status, replyVars, crashed>>

\* The loop runs a posted deletion: the slot goes with its handler.
RunDelete(c) ==
    /\ ~crashed
    /\ lpc = "idle"
    /\ queue # <<>>
    /\ Head(queue) = <<"delete", c>>
    /\ queue' = Tail(queue)
    /\ handler' = [handler EXCEPT ![c] = "deleted"]
    /\ slot' = [slot EXCEPT ![c] = IF @ = "pending" THEN "released" ELSE @]
    /\ UNCHANGED <<loopVars, app, refs, wire, status, replyVars, crashed>>

-----------------------------------------------------------------------------
(* The PendingReply in the hands of its thread                             *)

\* setCallback(), under mMutex: install ...
Install(c) ==
    /\ ~crashed
    /\ app[c] = "holding"
    /\ installed[c] < MaxInstalls
    /\ installed' = [installed EXCEPT ![c] = @ + 1]
    /\ app' = [app EXCEPT ![c] = "installing"]
    /\ UNCHANGED <<queue, loopVars, handlerVars, wire, status, got, fin, fired,
                   crashed>>

\* ... then look whether the handler has finished.  mFuture.get() must not
\* block here, with the mutex held.
CheckFinished(c) ==
    /\ ~crashed
    /\ app[c] = "installing"
    /\ fin[c] => Resolved(c)
    /\ app' = [app EXCEPT ![c] = IF fin[c] THEN "firing" ELSE "holding"]
    /\ UNCHANGED <<queue, loopVars, handlerVars, wire, status, replyVars, crashed>>

\* The reply came first: the callback runs on the thread that installs it.
FireHere(c) ==
    /\ ~crashed
    /\ app[c] = "firing"
    /\ fired' = [fired EXCEPT ![c] = Append(@, installed[c])]
    /\ app' = [app EXCEPT ![c] = "holding"]
    /\ UNCHANGED <<queue, loopVars, handlerVars, wire, status, got, fin,
                   installed, crashed>>

\* wait() blocks on the future.  A waitFor() that runs out changes nothing.
Wait(c) ==
    /\ ~crashed
    /\ app[c] = "holding"
    /\ app' = [app EXCEPT ![c] = "waiting"]
    /\ UNCHANGED <<queue, loopVars, handlerVars, wire, status, replyVars, crashed>>

WaitReturns(c) ==
    /\ ~crashed
    /\ app[c] = "waiting"
    /\ Resolved(c)
    /\ app' = [app EXCEPT ![c] = "holding"]
    /\ UNCHANGED <<queue, loopVars, handlerVars, wire, status, replyVars, crashed>>

\* The PendingReply is destroyed.  When its reference was the last, the deleter
\* of Method::callAsync posts the deletion to the loop thread.
Drop(c) ==
    /\ ~crashed
    /\ app[c] = "holding"
    /\ Resolved(c) \/ c \in Abandoners
    /\ app' = [app EXCEPT ![c] = "done"]
    /\ refs' = [refs EXCEPT ![c] = @ \ {"app"}]
    /\ IF refs[c] = {"app"}
       THEN /\ handler' = [handler EXCEPT ![c] = "dying"]
            /\ queue' = Append(queue, <<"delete", c>>)
       ELSE UNCHANGED <<handler, queue>>
    /\ UNCHANGED <<loopVars, slot, wire, status, replyVars, crashed>>

-----------------------------------------------------------------------------
LoopStep ==
    \/ \E c \in Calls : RunInvoke(c) \/ RunDelete(c)
    \/ \E c \in Calls : OnReply(c) \/ OnReplyDying(c)
    \/ Deliver \/ Take \/ RunCallback \/ Finish \/ Leave

AppStep(c) ==
    \/ Call(c)
    \/ Install(c) \/ CheckFinished(c) \/ FireHere(c)
    \/ Wait(c) \/ WaitReturns(c)
    \/ Drop(c)

Next ==
    \/ LoopStep
    \/ \E c \in Calls : AppStep(c) \/ Answer(c)

Spec == Init /\ [][Next]_vars

\* The loop thread always goes on: it has finitely many calls to serve, so that
\* it comes to each (that it passes over no task and no source is shown of
\* module Looper).  A thread goes on inside setCallback() and wait(), and
\* sd-bus ends every call by its timeout at the latest.  Nobody is obliged to
\* make a call, to wait, to install a callback or to drop a PendingReply.
Fairness ==
    /\ WF_vars(LoopStep)
    /\ \A c \in Calls :
        /\ WF_vars(CheckFinished(c) \/ FireHere(c) \/ WaitReturns(c))
        /\ WF_vars(Answer(c))

FairSpec == Spec /\ Fairness

-----------------------------------------------------------------------------
(* Properties                                                              *)

\* A handler that says it has finished has its promise resolved, so that
\* setCallback() never blocks in mFuture.get() with mMutex held, which onReply
\* would wait for (PendingReply::setCallback, ReplyAsyncHandler::onReply).
FinishedIsResolved == \A c \in Calls : fin[c] => Resolved(c)

\* The promise is resolved once: onReply is never entered for a call that has
\* its answer already, as one that failed before it was sent has.
ResolvedOnce == lpc = "deliver" => ~Resolved(cur)

\* While sd-bus knows a handler by its raw pointer, the handler exists, and
\* while onReply runs it is alive, whatever the other threads drop meanwhile.
HandlerOutlivesSlot ==
    /\ \A c \in Calls : slot[c] = "pending" => handler[c] \in {"live", "dying"}
    /\ lpc # "idle" => handler[cur] = "live" /\ "guard" \in refs[cur]

\* onReply meets a handler without references only if a call was abandoned:
\* whoever has seen the answer may drop the PendingReply at once, also while
\* onReply is still in the middle of the handler.
CrashNeedsAbandon ==
    crashed => \E c \in Abandoners : app[c] = "done" /\ slot[c] = "pending"

\* No callback runs twice for one reply, neither by the loop thread and the
\* installing thread both, nor by one of them.
CallbackAtMostOnce == \A c \in Calls : IsInjective(fired[c])

\* The callers are promised a Completion: the promise is set once, callbacks run
\* after that, and never an older one after a newer one, whichever of the loop
\* thread and the installing thread runs them (setCallback, onGetReply).
Promised == INSTANCE Completion WITH result <- got, offered <- installed, run <- fired
ImplementsCompletion == Promised!Spec

\* No handler leaks: when the loop has nothing to do, a handler that is left is
\* one that a thread still has a PendingReply of, or one that waits for its
\* reply. The entry of mRepsPtr goes with its callback, and the last reference
\* has its deletion queued (Session::callAsync, the deleter in Method.hpp).
NoHandlerLeaks ==
    ~crashed /\ queue = <<>> /\ lpc = "idle" =>
        \A c \in Calls : handler[c] \in {"live", "dying"} =>
            "app" \in refs[c] \/ slot[c] = "pending"

\* Handlers and slots are torn down by the loop thread: a thread that holds a
\* PendingReply never does it itself ("must run on the session's driving
\* thread", Method.hpp).
TornDownByLoop ==
    [][\A c \in Calls :
          (\/ handler[c] # "deleted" /\ handler'[c] = "deleted"
           \/ slot[c] = "pending" /\ slot'[c] # "pending")
          => \A d \in Calls : app'[d] # app[d] => app[d] = "calling"]_vars

\* wait() returns: a call is answered, fails or times out, and the loop delivers
\* that (or an abandoned call has brought the process down).
WaitEnds == \A c \in Calls : app[c] = "waiting" ~> app[c] # "waiting" \/ crashed

\* The callback of a call made in callback form always runs.
CallbackRuns ==
    \A c \in CallbackCalls : app[c] = "calling" ~> fired[c] # <<>> \/ crashed

-----------------------------------------------------------------------------
(* What the documentation says and the code does not do                    *)

\* "the callback is invoked immediately with that reply so the completion is
\* never lost" (PendingReply.hpp, setCallback): once the handler has finished
\* and nobody is on the way, the callback installed last has run.
CompletionNotLost ==
    \A c \in Calls :
        (fin[c] /\ cur # c /\ app[c] \notin {"installing", "firing"}
            /\ installed[c] > 0)
        => installed[c] \in Range(fired[c])

\* "an async call abandoned (PendingReply destroyed) before its reply arrives
\* must not crash when the reply shows up later" (TestServerClient.cpp).
AbandonIsSafe == ~crashed

\* isError(): "True if either the payload parse failed or the underlying
\* message is an error" (Reply.en.md).
ErrorIsReported ==
    \A c \in Calls : wire[c] = "error" /\ Resolved(c) => got[c] = "error"
=============================================================================
