-------------------------- MODULE AsyncReplyProofs --------------------------
(***************************************************************************)
(* Theorems about module AsyncReply, for every set of calls, every choice  *)
(* of those that may be abandoned and every number of callbacks installed. *)
(***************************************************************************)
EXTENDS AsyncReply, SeqLemmas

-----------------------------------------------------------------------------
(* The inductive invariant                                                 *)

\* Every task is queued once.  A call is queued while its thread blocks on it,
\* and a deletion while the handler has no reference and is not yet deleted.
QueueInv ==
    /\ IsInjective(queue)
    /\ \A c \in Calls : <<"invoke", c>> \in Range(queue) => app[c] = "calling"
    /\ \A c \in Calls : <<"delete", c>> \in Range(queue) => handler[c] = "dying"

\* Until the loop has sent a call there is nothing of it.
Unsent(c) ==
    /\ handler[c] = "none"
    /\ refs[c] = {}
    /\ slot[c] = "none"
    /\ ~Resolved(c)
    /\ ~fin[c]
    /\ installed[c] = 0
    /\ fired[c] = <<>>

\* The handler is alive as long as someone refers to it, and sd-bus knows only
\* handlers that are there and have no answer yet.
HandlerInv(c) ==
    /\ app[c] \in {"new", "calling"} => Unsent(c)
    /\ app[c] \notin {"new", "calling"} => handler[c] # "none"
    /\ handler[c] = "live" <=> refs[c] # {}
    /\ "guard" \in refs[c] => cur = c
    /\ app[c] \in {"holding", "waiting", "installing", "firing"} =>
          "app" \in refs[c]
    /\ slot[c] = "pending" =>
          /\ handler[c] \in {"live", "dying"}
          /\ ~Resolved(c)
          /\ ~fin[c]
          /\ c \notin Abandoners => handler[c] = "live"
    /\ fin[c] => Resolved(c)

\* Callbacks have run only if the handler has finished or is about to, and the
\* one that is being installed, or run by the thread that installed it, is
\* younger than those.
CallbackInv(c) ==
    /\ IsInjective(fired[c])
    /\ fired[c] # <<>> => fin[c] \/ (cur = c /\ lpc = "finish")
    /\ \A v \in Range(fired[c]) : v <= installed[c]
    /\ app[c] \in {"installing", "firing"} =>
          /\ installed[c] > 0
          /\ \A v \in Range(fired[c]) : v < installed[c]
    /\ app[c] = "firing" => fin[c]

\* Inside onReply the handler is guarded, its slot is gone, and the promise is
\* resolved by the first step.
LoopInv ==
    /\ lpc = "idle" => cur = NoCall
    /\ lpc # "idle" =>
          /\ cur \in Calls
          /\ "guard" \in refs[cur]
          /\ slot[cur] = "released"
          /\ Resolved(cur) <=> lpc # "deliver"
          /\ fin[cur] <=> lpc = "leave"
    /\ lpc = "call" =>
          /\ taken <= installed[cur]
          /\ app[cur] = "installing" => taken < installed[cur]

AsyncInv ==
    /\ TypeOK
    /\ QueueInv
    /\ \A c \in Calls : HandlerInv(c) /\ CallbackInv(c)
    /\ LoopInv

USE DEF loopVars, replyVars, handlerVars

LEMMA EmptyFacts ==
    /\ IsInjective(<<>>)
    /\ Range(<<>>) = {}
  BY DEF IsInjective, Range

LEMMA InitInv == Init => AsyncInv
  <1> SUFFICES ASSUME Init PROVE AsyncInv
    OBVIOUS
  <1> USE DEF Init
  <1>1. TypeOK
    <2>1. <<>> \in Seq(Task) /\ <<>> \in Seq(1 .. MaxInstalls)
      BY EmptySeq
    <2>2. 0 \in 0 .. MaxInstalls
      BY AsyncReplyAssumption
    <2>3. [c \in Calls |-> <<>>] \in [Calls -> Seq(1 .. MaxInstalls)]
      BY <2>1
    <2>4. QED
      BY <2>1, <2>2, <2>3 DEF TypeOK, AppPlace
  <1>2. QueueInv
    BY EmptyFacts DEF QueueInv
  <1>3. ASSUME NEW c \in Calls PROVE HandlerInv(c) /\ CallbackInv(c)
    BY EmptyFacts, AsyncReplyAssumption
    DEF HandlerInv, CallbackInv, Unsent, Resolved
  <1>4. LoopInv
    BY DEF LoopInv
  <1>5. QED
    BY <1>1, <1>2, <1>3, <1>4 DEF AsyncInv

-----------------------------------------------------------------------------
(* The steps of the loop thread                                            *)

\* The queue's part of the invariant needs only that no call leaves "calling"
\* and no handler leaves "dying" unless its task leaves the queue.
LEMMA QueueKept ==
    ASSUME QueueInv, queue' = queue,
           \A c \in Calls : app[c] = "calling" => app'[c] = "calling",
           \A c \in Calls : handler[c] = "dying" => handler'[c] = "dying"
    PROVE  QueueInv'
  BY DEF QueueInv

LEMMA DeliverInv == AsyncInv /\ Deliver => AsyncInv'
  <1> SUFFICES ASSUME AsyncInv, Deliver PROVE AsyncInv'
    OBVIOUS
  <1> USE DEF Deliver
  <1>0. TypeOK /\ QueueInv /\ LoopInv /\ \A c \in Calls : HandlerInv(c) /\ CallbackInv(c)
    BY DEF AsyncInv
  <1>1. cur \in Calls /\ slot[cur] = "released" /\ ~Resolved(cur) /\ ~fin[cur]
    BY <1>0 DEF LoopInv
  <1>2. TypeOK'
    BY <1>0, <1>1 DEF TypeOK, ReplyOf
  <1>3. QueueInv'
    BY <1>0, QueueKept
  <1>4. \A c \in Calls : Resolved(c)' <=> Resolved(c) \/ c = cur
    BY <1>0, <1>1 DEF TypeOK, Resolved, ReplyOf
  <1>5. ASSUME NEW c \in Calls PROVE HandlerInv(c)' /\ CallbackInv(c)'
    <2>1. HandlerInv(c) /\ CallbackInv(c) /\ (c = cur => app[c] \notin {"new", "calling"})
      BY <1>0, <1>1 DEF HandlerInv, Unsent
    <2>2. HandlerInv(c)'
      BY <1>1, <1>4, <2>1 DEF HandlerInv, Unsent
    <2>3. CallbackInv(c)'
      BY <2>1 DEF CallbackInv
    <2>4. QED
      BY <2>2, <2>3
  <1>6. LoopInv'
    BY <1>0, <1>1, <1>4 DEF LoopInv
  <1>7. QED
    BY <1>2, <1>3, <1>5, <1>6 DEF AsyncInv

LEMMA TakeInv == AsyncInv /\ Take => AsyncInv'
  <1> SUFFICES ASSUME AsyncInv, Take PROVE AsyncInv'
    OBVIOUS
  <1> USE DEF Take
  <1>0. TypeOK /\ QueueInv /\ LoopInv /\ \A c \in Calls : HandlerInv(c) /\ CallbackInv(c)
    BY DEF AsyncInv
  <1>1. cur \in Calls /\ slot[cur] = "released" /\ Resolved(cur) /\ ~fin[cur]
    BY <1>0 DEF LoopInv
  <1>2. TypeOK'
    BY <1>0, <1>1 DEF TypeOK
  <1>3. QueueInv'
    BY <1>0, QueueKept
  <1>4. \A c \in Calls : HandlerInv(c)' /\ CallbackInv(c)'
    BY <1>0 DEF HandlerInv, CallbackInv, Unsent, Resolved
  <1>5. LoopInv'
    <2>1. installed[cur] \in Nat
      BY <1>0, <1>1, AsyncReplyAssumption DEF TypeOK
    <2>2. QED
      BY <1>0, <1>1, <2>1 DEF LoopInv, Resolved
  <1>6. QED
    BY <1>2, <1>3, <1>4, <1>5 DEF AsyncInv

LEMMA RunCallbackInv == AsyncInv /\ RunCallback => AsyncInv'
  <1> SUFFICES ASSUME AsyncInv, RunCallback PROVE AsyncInv'
    OBVIOUS
  <1> USE DEF RunCallback
  <1>0. TypeOK /\ QueueInv /\ LoopInv /\ \A c \in Calls : HandlerInv(c) /\ CallbackInv(c)
    BY DEF AsyncInv
  <1>1. /\ cur \in Calls /\ slot[cur] = "released" /\ "guard" \in refs[cur]
        /\ Resolved(cur) /\ ~fin[cur]
        /\ taken <= installed[cur]
        /\ app[cur] = "installing" => taken < installed[cur]
    BY <1>0 DEF LoopInv
  <1>2. fired[cur] = <<>>
    BY <1>0, <1>1 DEF CallbackInv
  <1>3. fired'[cur] = (IF taken = 0 THEN <<>> ELSE <<taken>>)
        /\ \A c \in Calls : c # cur => fired'[c] = fired[c]
    BY <1>0, <1>1, <1>2 DEF TypeOK
  <1>4. TypeOK'
    <2>1. taken \in 0 .. MaxInstalls
      BY <1>0 DEF TypeOK
    <2>2. taken # 0 => Append(fired[cur], taken) \in Seq(1 .. MaxInstalls)
      BY <1>2, <2>1, AsyncReplyAssumption, EmptySeq, AppendProperties
    <2>3. fired' \in [Calls -> Seq(1 .. MaxInstalls)]
      BY <1>0, <1>1, <2>2 DEF TypeOK
    <2>4. refs' \in [Calls -> SUBSET {"app", "reps", "guard"}]
      BY <1>0, <1>1 DEF TypeOK
    <2>5. QED
      BY <1>0, <2>3, <2>4 DEF TypeOK
  <1>5. QueueInv'
    BY <1>0, QueueKept
  <1>6. /\ refs'[cur] = refs[cur] \ {"reps"}
        /\ \A c \in Calls : c # cur => refs'[c] = refs[c]
    BY <1>0, <1>1 DEF TypeOK
  <1>7. ASSUME NEW c \in Calls PROVE HandlerInv(c)'
    <2>1. HandlerInv(c) /\ (Resolved(c)' <=> Resolved(c))
      BY <1>0 DEF Resolved
    <2>2. CASE c # cur
      BY <1>6, <2>1, <2>2 DEF HandlerInv, Unsent, CallbackInv
    <2>3. CASE c = cur
      BY <1>1, <1>6, <2>1, <2>3 DEF HandlerInv, Unsent
    <2>4. QED
      BY <2>2, <2>3
  <1>8. ASSUME NEW c \in Calls PROVE CallbackInv(c)'
    <2>1. CallbackInv(c)
      BY <1>0
    <2>2. CASE c # cur
      BY <1>3, <2>1, <2>2 DEF CallbackInv
    <2>3. CASE c = cur /\ taken = 0
      BY <1>1, <1>2, <1>3, <2>1, <2>3 DEF CallbackInv
    <2>4. CASE c = cur /\ taken # 0
      <3>1. fired'[c] = <<taken>> /\ IsInjective(<<taken>>) /\ Range(<<taken>>) = {taken}
        BY <1>3, <2>4 DEF IsInjective, Range
      <3>2. app[c] # "firing"
        BY <1>1, <2>1, <2>4 DEF CallbackInv
      <3>3. QED
        BY <1>1, <2>1, <2>4, <3>1, <3>2 DEF CallbackInv
    <2>5. QED
      BY <2>2, <2>3, <2>4
  <1>9. LoopInv'
    BY <1>0, <1>1, <1>6 DEF LoopInv, Resolved
  <1>10. QED
    BY <1>4, <1>5, <1>7, <1>8, <1>9 DEF AsyncInv

LEMMA FinishInv == AsyncInv /\ Finish => AsyncInv'
  <1> SUFFICES ASSUME AsyncInv, Finish PROVE AsyncInv'
    OBVIOUS
  <1> USE DEF Finish
  <1>0. TypeOK /\ QueueInv /\ LoopInv /\ \A c \in Calls : HandlerInv(c) /\ CallbackInv(c)
    BY DEF AsyncInv
  <1>1. /\ cur \in Calls /\ slot[cur] = "released" /\ "guard" \in refs[cur]
        /\ Resolved(cur)
    BY <1>0 DEF LoopInv
  <1>2. TypeOK'
    BY <1>0, <1>1 DEF TypeOK
  <1>3. QueueInv'
    BY <1>0, QueueKept
  <1>4. fin'[cur] = TRUE /\ \A c \in Calls : c # cur => fin'[c] = fin[c]
    BY <1>0, <1>1 DEF TypeOK
  <1>5. ASSUME NEW c \in Calls PROVE HandlerInv(c)' /\ CallbackInv(c)'
    <2>1. HandlerInv(c) /\ CallbackInv(c) /\ (Resolved(c)' <=> Resolved(c))
      BY <1>0 DEF Resolved
    <2>2. HandlerInv(c)'
      BY <1>1, <1>4, <2>1 DEF HandlerInv, Unsent
    <2>3. CallbackInv(c)'
      BY <1>1, <1>4, <2>1 DEF CallbackInv
    <2>4. QED
      BY <2>2, <2>3
  <1>6. LoopInv'
    BY <1>0, <1>1, <1>4 DEF LoopInv, Resolved
  <1>7. QED
    BY <1>2, <1>3, <1>5, <1>6 DEF AsyncInv

LEMMA LeaveInv == AsyncInv /\ Leave => AsyncInv'
  <1> SUFFICES ASSUME AsyncInv, Leave PROVE AsyncInv'
    OBVIOUS
  <1> USE DEF Leave
  <1>0. TypeOK /\ QueueInv /\ LoopInv /\ \A c \in Calls : HandlerInv(c) /\ CallbackInv(c)
    BY DEF AsyncInv
  <1>1. /\ cur \in Calls /\ slot[cur] = "released" /\ "guard" \in refs[cur]
        /\ Resolved(cur) /\ fin[cur] /\ handler[cur] = "live"
    BY <1>0 DEF LoopInv, HandlerInv
  <1>2. /\ refs'[cur] = refs[cur] \ {"guard"}
        /\ \A c \in Calls : c # cur => refs'[c] = refs[c] /\ handler'[c] = handler[c]
        /\ handler'[cur] = (IF refs[cur] = {"guard"} THEN "deleted" ELSE "live")
    BY <1>0, <1>1 DEF TypeOK
  <1>3. TypeOK'
    <2>1. 0 \in 0 .. MaxInstalls
      BY AsyncReplyAssumption
    <2>2. QED
      BY <1>0, <1>1, <2>1 DEF TypeOK
  <1>4. QueueInv'
    BY <1>0, <1>1, <1>2, QueueKept
  <1>5. ASSUME NEW c \in Calls PROVE HandlerInv(c)' /\ CallbackInv(c)'
    <2>1. HandlerInv(c) /\ CallbackInv(c) /\ (Resolved(c)' <=> Resolved(c))
      BY <1>0 DEF Resolved
    <2>2. HandlerInv(c)'
      <3>1. CASE c = cur
        BY <1>1, <1>2, <2>1, <3>1 DEF HandlerInv, Unsent
      <3>2. CASE c # cur
        BY <1>1, <1>2, <2>1, <3>2 DEF HandlerInv, Unsent
      <3>3. QED
        BY <3>1, <3>2
    <2>3. CallbackInv(c)'
      BY <1>1, <2>1 DEF CallbackInv
    <2>4. QED
      BY <2>2, <2>3
  <1>6. LoopInv'
    BY DEF LoopInv
  <1>7. QED
    BY <1>3, <1>4, <1>5, <1>6 DEF AsyncInv

LEMMA OnReplyInv ==
    ASSUME AsyncInv, NEW c \in Calls, OnReply(c) PROVE AsyncInv'
  <1> USE DEF OnReply, Answered
  <1>0. TypeOK /\ QueueInv /\ LoopInv /\ \A d \in Calls : HandlerInv(d) /\ CallbackInv(d)
    BY DEF AsyncInv
  <1>1. /\ handler[c] = "live" /\ ~Resolved(c) /\ ~fin[c] /\ fired[c] = <<>>
        /\ app[c] \notin {"new", "calling"}
        /\ cur = NoCall /\ NoCall \notin Calls
    BY <1>0, AsyncReplyAssumption DEF HandlerInv, CallbackInv, LoopInv, Unsent
  <1>2. /\ refs'[c] = refs[c] \cup {"guard"} /\ slot'[c] = "released"
        /\ \A d \in Calls : d # c => refs'[d] = refs[d] /\ slot'[d] = slot[d]
    BY <1>0 DEF TypeOK
  <1>3. TypeOK'
    BY <1>0 DEF TypeOK
  <1>4. QueueInv'
    BY <1>0, QueueKept
  <1>5. ASSUME NEW d \in Calls PROVE HandlerInv(d)' /\ CallbackInv(d)'
    <2>1. HandlerInv(d) /\ CallbackInv(d) /\ (Resolved(d)' <=> Resolved(d))
      BY <1>0 DEF Resolved
    <2>2. HandlerInv(d)'
      <3>1. CASE d = c
        BY <1>1, <1>2, <2>1, <3>1 DEF HandlerInv, Unsent
      <3>2. CASE d # c
        BY <1>1, <1>2, <2>1, <3>2 DEF HandlerInv, Unsent
      <3>3. QED
        BY <3>1, <3>2
    <2>3. CallbackInv(d)'
      BY <1>1, <2>1 DEF CallbackInv
    <2>4. QED
      BY <2>2, <2>3
  <1>6. LoopInv'
    BY <1>1, <1>2 DEF LoopInv, Resolved
  <1>7. QED
    BY <1>3, <1>4, <1>5, <1>6 DEF AsyncInv

LEMMA OnReplyDyingInv ==
    ASSUME AsyncInv, NEW c \in Calls, OnReplyDying(c) PROVE AsyncInv'
  <1> USE DEF OnReplyDying
  <1>0. TypeOK /\ QueueInv /\ LoopInv /\ \A d \in Calls : HandlerInv(d) /\ CallbackInv(d)
    BY DEF AsyncInv
  <1>1. TypeOK'
    BY <1>0 DEF TypeOK
  <1>2. QueueInv'
    BY <1>0, QueueKept
  <1>3. \A d \in Calls : HandlerInv(d)' /\ CallbackInv(d)'
    BY <1>0 DEF HandlerInv, CallbackInv, Unsent, Resolved
  <1>4. LoopInv'
    BY <1>0 DEF LoopInv, Resolved
  <1>5. QED
    BY <1>1, <1>2, <1>3, <1>4 DEF AsyncInv

LEMMA RunDeleteInv ==
    ASSUME AsyncInv, NEW c \in Calls, RunDelete(c) PROVE AsyncInv'
  <1> USE DEF RunDelete
  <1>0. TypeOK /\ QueueInv /\ LoopInv /\ \A d \in Calls : HandlerInv(d) /\ CallbackInv(d)
    BY DEF AsyncInv
  <1>1. /\ queue \in Seq(Task) /\ queue # <<>> /\ IsInjective(queue)
        /\ Head(queue) = <<"delete", c>> /\ queue' = Tail(queue)
    BY <1>0 DEF TypeOK, QueueInv
  <1>2. /\ IsInjective(queue')
        /\ Range(queue') \subseteq Range(queue)
        /\ <<"delete", c>> \in Range(queue)
        /\ <<"delete", c>> \notin Range(queue')
        /\ queue' \in Seq(Task)
    BY <1>1, InjectiveTail, HeadTailProperties
  <1>3. handler[c] = "dying" /\ refs[c] = {} /\ app[c] \notin {"new", "calling"}
    BY <1>0, <1>2 DEF QueueInv, HandlerInv, Unsent
  <1>4. /\ handler'[c] = "deleted" /\ slot'[c] # "pending"
        /\ \A d \in Calls : d # c => handler'[d] = handler[d] /\ slot'[d] = slot[d]
    BY <1>0 DEF TypeOK
  <1>5. TypeOK'
    BY <1>0, <1>2 DEF TypeOK
  <1>6. QueueInv'
    BY <1>0, <1>2, <1>4 DEF QueueInv
  <1>7. ASSUME NEW d \in Calls PROVE HandlerInv(d)' /\ CallbackInv(d)'
    <2>1. HandlerInv(d) /\ CallbackInv(d) /\ (Resolved(d)' <=> Resolved(d))
      BY <1>0 DEF Resolved
    <2>2. HandlerInv(d)'
      <3>1. CASE d = c
        BY <1>3, <1>4, <2>1, <3>1 DEF HandlerInv, Unsent
      <3>2. CASE d # c
        BY <1>4, <2>1, <3>2 DEF HandlerInv, Unsent
      <3>3. QED
        BY <3>1, <3>2
    <2>3. CallbackInv(d)'
      BY <2>1 DEF CallbackInv
    <2>4. QED
      BY <2>2, <2>3
  <1>8. LoopInv'
    BY <1>0 DEF LoopInv
  <1>9. QED
    BY <1>5, <1>6, <1>7, <1>8 DEF AsyncInv

\* A call that leaves the queue leaves "calling" as well.
LEMMA InvokeQueue ==
    ASSUME AsyncInv, NEW c \in Calls, queue # <<>>,
           Head(queue) = <<"invoke", c>>, queue' = Tail(queue),
           app[c] = "calling" => \A d \in Calls : d # c => app'[d] = app[d],
           app[c] = "calling" =>
              \A d \in Calls : d # c => handler'[d] = handler[d]
    PROVE  /\ QueueInv'
           /\ queue' \in Seq(Task)
           /\ app[c] = "calling"
           /\ Unsent(c)
           /\ cur # c
           /\ \A d \in Calls : d # c => app'[d] = app[d]
           /\ \A d \in Calls : d # c => handler'[d] = handler[d]
  <1>0. TypeOK /\ QueueInv /\ LoopInv /\ \A d \in Calls : HandlerInv(d) /\ CallbackInv(d)
    BY DEF AsyncInv
  <1>1. queue \in Seq(Task) /\ IsInjective(queue)
    BY <1>0 DEF TypeOK, QueueInv
  <1>2. /\ IsInjective(queue')
        /\ Range(queue') \subseteq Range(queue)
        /\ <<"invoke", c>> \in Range(queue)
        /\ <<"invoke", c>> \notin Range(queue')
        /\ queue' \in Seq(Task)
    BY <1>1, InjectiveTail, HeadTailProperties
  <1>3. app[c] = "calling" /\ Unsent(c)
    BY <1>0, <1>2 DEF QueueInv, HandlerInv
  <1>4. handler[c] # "dying" /\ <<"delete", c>> \notin Range(queue)
    BY <1>0, <1>3 DEF Unsent, QueueInv
  <1>5. cur # c
    BY <1>0, <1>3, AsyncReplyAssumption DEF LoopInv, Unsent
  <1>6. QueueInv'
    BY <1>0, <1>2, <1>3, <1>4 DEF QueueInv
  <1>7. QED
    BY <1>2, <1>3, <1>5, <1>6

LEMMA SendHandleInv ==
    ASSUME AsyncInv, NEW c \in Calls, RunInvoke(c), SendHandle(c) PROVE AsyncInv'
  <1> USE DEF RunInvoke, SendHandle
  <1>0. TypeOK /\ QueueInv /\ LoopInv /\ \A d \in Calls : HandlerInv(d) /\ CallbackInv(d)
    BY DEF AsyncInv
  <1>1. \A d \in Calls : d # c =>
           /\ app'[d] = app[d] /\ refs'[d] = refs[d] /\ handler'[d] = handler[d]
           /\ slot'[d] = slot[d]
    BY <1>0 DEF TypeOK
  <1>2. /\ app'[c] = "holding" /\ refs'[c] = {"app"} /\ handler'[c] = "live"
        /\ slot'[c] = "pending"
    BY <1>0, AsyncReplyAssumption DEF TypeOK
  <1>3. /\ QueueInv' /\ queue' \in Seq(Task) /\ app[c] = "calling"
        /\ Unsent(c) /\ cur # c
    BY <1>1, InvokeQueue
  <1>4. TypeOK'
    BY <1>0, <1>3 DEF TypeOK, AppPlace
  <1>5. ASSUME NEW d \in Calls, d # c PROVE HandlerInv(d)' /\ CallbackInv(d)'
    <2>1. HandlerInv(d) /\ CallbackInv(d) /\ (Resolved(d)' <=> Resolved(d))
      BY <1>0, <1>1, <1>5 DEF Resolved
    <2>2. QED
      BY <1>1, <1>5, <2>1 DEF HandlerInv, CallbackInv, Unsent
  <1>6. HandlerInv(c)'
    BY <1>0, <1>2, <1>3 DEF HandlerInv, Unsent, Resolved
  <1>7. CallbackInv(c)'
    BY <1>2, <1>3, EmptyFacts DEF CallbackInv, Unsent
  <1>8. LoopInv'
    BY <1>0 DEF LoopInv
  <1>9. QED
    BY <1>3, <1>4, <1>5, <1>6, <1>7, <1>8 DEF AsyncInv

LEMMA SendCallbackInv ==
    ASSUME AsyncInv, NEW c \in Calls, RunInvoke(c), SendCallback(c) PROVE AsyncInv'
  <1> USE DEF RunInvoke, SendCallback
  <1>0. TypeOK /\ QueueInv /\ LoopInv /\ \A d \in Calls : HandlerInv(d) /\ CallbackInv(d)
    BY DEF AsyncInv
  <1>1. \A d \in Calls : d # c =>
           /\ app'[d] = app[d] /\ refs'[d] = refs[d] /\ handler'[d] = handler[d]
           /\ slot'[d] = slot[d] /\ installed'[d] = installed[d]
    BY <1>0 DEF TypeOK
  <1>2. /\ app'[c] = "done" /\ refs'[c] = {"reps"} /\ handler'[c] = "live"
        /\ slot'[c] = "pending" /\ installed'[c] = 1
    BY <1>0, AsyncReplyAssumption DEF TypeOK
  <1>3. /\ QueueInv' /\ queue' \in Seq(Task) /\ app[c] = "calling"
        /\ Unsent(c) /\ cur # c
    BY <1>1, InvokeQueue
  <1>4. TypeOK'
    <2>1. 1 \in 0 .. MaxInstalls
      BY AsyncReplyAssumption
    <2>2. QED
      BY <1>0, <1>3, <2>1 DEF TypeOK, AppPlace
  <1>5. ASSUME NEW d \in Calls, d # c PROVE HandlerInv(d)' /\ CallbackInv(d)'
    <2>1. HandlerInv(d) /\ CallbackInv(d) /\ (Resolved(d)' <=> Resolved(d))
      BY <1>0, <1>1, <1>5 DEF Resolved
    <2>2. QED
      BY <1>1, <1>5, <2>1 DEF HandlerInv, CallbackInv, Unsent
  <1>6. HandlerInv(c)'
    BY <1>0, <1>2, <1>3, AsyncReplyAssumption DEF HandlerInv, Unsent, Resolved
  <1>7. CallbackInv(c)'
    BY <1>2, <1>3, EmptyFacts DEF CallbackInv, Unsent
  <1>8. LoopInv'
    BY <1>0 DEF LoopInv
  <1>9. QED
    BY <1>3, <1>4, <1>5, <1>6, <1>7, <1>8 DEF AsyncInv

LEMMA FailHandleInv ==
    ASSUME AsyncInv, NEW c \in Calls, RunInvoke(c), FailHandle(c) PROVE AsyncInv'
  <1> USE DEF RunInvoke, FailHandle
  <1>0. TypeOK /\ QueueInv /\ LoopInv /\ \A d \in Calls : HandlerInv(d) /\ CallbackInv(d)
    BY DEF AsyncInv
  <1>1. \A d \in Calls : d # c =>
           /\ app'[d] = app[d] /\ refs'[d] = refs[d] /\ handler'[d] = handler[d]
           /\ got'[d] = got[d] /\ fin'[d] = fin[d]
    BY <1>0 DEF TypeOK
  <1>2. /\ app'[c] = "holding" /\ refs'[c] = {"app"} /\ handler'[c] = "live"
        /\ got'[c] = "error" /\ fin'[c] = TRUE
    BY <1>0, AsyncReplyAssumption DEF TypeOK
  <1>3. /\ QueueInv' /\ queue' \in Seq(Task) /\ app[c] = "calling"
        /\ Unsent(c) /\ cur # c
    BY <1>1, InvokeQueue
  <1>4. TypeOK'
    BY <1>0, <1>3 DEF TypeOK, AppPlace
  <1>5. ASSUME NEW d \in Calls, d # c PROVE HandlerInv(d)' /\ CallbackInv(d)'
    <2>1. HandlerInv(d) /\ CallbackInv(d) /\ (Resolved(d)' <=> Resolved(d))
      BY <1>0, <1>1, <1>5 DEF Resolved
    <2>2. QED
      BY <1>1, <1>5, <2>1 DEF HandlerInv, CallbackInv, Unsent
  <1>6. HandlerInv(c)'
    BY <1>0, <1>2, <1>3 DEF HandlerInv, Unsent, Resolved
  <1>7. CallbackInv(c)'
    BY <1>2, <1>3, EmptyFacts DEF CallbackInv, Unsent
  <1>8. LoopInv'
    BY <1>0 DEF LoopInv
  <1>9. QED
    BY <1>3, <1>4, <1>5, <1>6, <1>7, <1>8 DEF AsyncInv

LEMMA FailCallbackInv ==
    ASSUME AsyncInv, NEW c \in Calls, RunInvoke(c), FailCallback(c) PROVE AsyncInv'
  <1> USE DEF RunInvoke, FailCallback
  <1>0. TypeOK /\ QueueInv /\ LoopInv /\ \A d \in Calls : HandlerInv(d) /\ CallbackInv(d)
    BY DEF AsyncInv
  <1>1. \A d \in Calls : d # c =>
           /\ app'[d] = app[d] /\ refs'[d] = refs[d] /\ handler'[d] = handler[d]
           /\ got'[d] = got[d] /\ fin'[d] = fin[d]
           /\ installed'[d] = installed[d] /\ fired'[d] = fired[d]
    BY <1>0 DEF TypeOK
  <1>2. /\ app'[c] = "done" /\ handler'[c] = "deleted" /\ refs'[c] = refs[c]
        /\ got'[c] = "error" /\ fin'[c] = TRUE
        /\ installed'[c] = 1 /\ fired'[c] = Append(fired[c], 1)
    BY <1>0, AsyncReplyAssumption DEF TypeOK
  <1>3. /\ QueueInv' /\ queue' \in Seq(Task) /\ app[c] = "calling"
        /\ Unsent(c) /\ cur # c
    BY <1>1, InvokeQueue
  <1>4. TypeOK'
    <2>1. 1 \in 0 .. MaxInstalls /\ 1 \in 1 .. MaxInstalls
      BY AsyncReplyAssumption
    <2>2. Append(fired[c], 1) \in Seq(1 .. MaxInstalls)
      BY <1>0, <2>1, AppendProperties DEF TypeOK
    <2>3. fired' \in [Calls -> Seq(1 .. MaxInstalls)]
      BY <1>0, <2>2 DEF TypeOK
    <2>4. QED
      BY <1>0, <1>3, <2>1, <2>3 DEF TypeOK, AppPlace
  <1>5. ASSUME NEW d \in Calls, d # c PROVE HandlerInv(d)' /\ CallbackInv(d)'
    <2>1. HandlerInv(d) /\ CallbackInv(d) /\ (Resolved(d)' <=> Resolved(d))
      BY <1>0, <1>1, <1>5 DEF Resolved
    <2>2. QED
      BY <1>1, <1>5, <2>1 DEF HandlerInv, CallbackInv, Unsent
  <1>6. HandlerInv(c)'
    BY <1>0, <1>2, <1>3, AsyncReplyAssumption DEF HandlerInv, Unsent, Resolved
  <1>7. CallbackInv(c)'
    <2>0. IsInjective(<<1>>) /\ Range(<<1>>) = {1}
      BY DEF IsInjective, Range
    <2>1. fired'[c] = <<1>> /\ IsInjective(<<1>>) /\ Range(<<1>>) = {1}
      BY <1>2, <1>3, <2>0 DEF Unsent
    <2>2. IsInjective(fired'[c])
      BY ONLY <2>1
    <2>3. \A v \in Range(fired'[c]) : v <= installed'[c]
      <3>1. installed'[c] = 1
        BY <1>2
      <3>2. QED
        BY ONLY <2>1, <3>1
    <2>4. app'[c] \notin {"installing", "firing"} /\ fin'[c]
      BY <1>2
    <2>5. QED
      BY ONLY <2>2, <2>3, <2>4 DEF CallbackInv
  <1>8. LoopInv'
    BY <1>0, <1>3 DEF LoopInv, Unsent
  <1>9. QED
    BY <1>3, <1>4, <1>5, <1>6, <1>7, <1>8 DEF AsyncInv

-----------------------------------------------------------------------------
(* The steps of the application threads and of the peer                    *)

LEMMA CallStarts ==
    ASSUME AsyncInv, NEW c \in Calls, Call(c) PROVE AsyncInv'
  <1> USE DEF Call
  <1>0. TypeOK /\ QueueInv /\ LoopInv /\ \A d \in Calls : HandlerInv(d) /\ CallbackInv(d)
    BY DEF AsyncInv
  <1>1. queue \in Seq(Task) /\ <<"invoke", c>> \in Task
        /\ <<"invoke", c>> \notin Range(queue)
    BY <1>0 DEF TypeOK, QueueInv, Task
  <1>2. /\ queue' \in Seq(Task) /\ IsInjective(queue')
        /\ Range(queue') = Range(queue) \cup {<<"invoke", c>>}
    <2>1. Append(queue, <<"invoke", c>>) \in Seq(Task)
      BY <1>1, AppendProperties
    <2>2. IsInjective(Append(queue, <<"invoke", c>>))
      BY <1>0, <1>1, InjectiveAppend DEF QueueInv
    <2>3. Range(Append(queue, <<"invoke", c>>)) = Range(queue) \cup {<<"invoke", c>>}
      BY <1>1, RangeAppend
    <2>4. QED
      BY <2>1, <2>2, <2>3
  <1>3. /\ app'[c] = "calling"
        /\ \A d \in Calls : d # c => app'[d] = app[d]
    BY <1>0 DEF TypeOK
  <1>4. TypeOK'
    BY <1>0, <1>2 DEF TypeOK, AppPlace
  <1>5. QueueInv'
    BY <1>0, <1>2, <1>3 DEF QueueInv
  <1>6. ASSUME NEW d \in Calls PROVE HandlerInv(d)' /\ CallbackInv(d)'
    <2>1. HandlerInv(d) /\ CallbackInv(d) /\ (Resolved(d)' <=> Resolved(d))
      BY <1>0 DEF Resolved
    <2>2. QED
      BY <1>3, <2>1 DEF HandlerInv, CallbackInv, Unsent
  <1>7. LoopInv'
    BY <1>0, <1>3 DEF LoopInv, Resolved
  <1>8. QED
    BY <1>4, <1>5, <1>6, <1>7 DEF AsyncInv

LEMMA AnswerInv ==
    ASSUME AsyncInv, NEW c \in Calls, Answer(c) PROVE AsyncInv'
  <1> USE DEF Answer
  <1>0. TypeOK /\ QueueInv /\ LoopInv /\ \A d \in Calls : HandlerInv(d) /\ CallbackInv(d)
    BY DEF AsyncInv
  <1>1. TypeOK'
    BY <1>0 DEF TypeOK
  <1>2. QueueInv'
    BY <1>0, QueueKept
  <1>3. \A d \in Calls : HandlerInv(d)' /\ CallbackInv(d)'
    BY <1>0 DEF HandlerInv, CallbackInv, Unsent, Resolved
  <1>4. LoopInv'
    BY <1>0 DEF LoopInv, Resolved
  <1>5. QED
    BY <1>1, <1>2, <1>3, <1>4 DEF AsyncInv

LEMMA InstallInv ==
    ASSUME AsyncInv, NEW c \in Calls, Install(c) PROVE AsyncInv'
  <1> USE DEF Install
  <1>0. TypeOK /\ QueueInv /\ LoopInv /\ \A d \in Calls : HandlerInv(d) /\ CallbackInv(d)
    BY DEF AsyncInv
  <1>1. /\ installed \in [Calls -> 0 .. MaxInstalls] /\ MaxInstalls \in Nat
        /\ installed[c] \in Nat
        /\ installed'[c] = installed[c] + 1 /\ app'[c] = "installing"
        /\ \A d \in Calls : d # c => installed'[d] = installed[d] /\ app'[d] = app[d]
    BY <1>0, AsyncReplyAssumption DEF TypeOK
  <1>2. TypeOK'
    BY <1>0, <1>1 DEF TypeOK, AppPlace
  <1>3. QueueInv'
    BY <1>0, <1>1, QueueKept
  <1>4. ASSUME NEW d \in Calls PROVE HandlerInv(d)' /\ CallbackInv(d)'
    <2>1. HandlerInv(d) /\ CallbackInv(d) /\ (Resolved(d)' <=> Resolved(d))
          /\ fired[d] \in Seq(1 .. MaxInstalls)
      BY <1>0 DEF Resolved, TypeOK
    <2>2. \A v \in Range(fired[d]) : v \in Nat
      <3>1. Range(fired[d]) \subseteq 1 .. MaxInstalls
        BY <2>1, RangeOfSeq DEF Range
      <3>2. QED
        BY <3>1, <1>1
    <2>3. HandlerInv(d)'
      BY <1>1, <2>1 DEF HandlerInv, Unsent
    <2>4. CallbackInv(d)'
      <3>1. CASE d = c
        <4>1. \A v \in Range(fired[d]) : v < installed'[d] /\ v <= installed'[d]
          BY <1>1, <2>1, <2>2, <3>1 DEF CallbackInv
        <4>2. QED
          BY <1>1, <2>1, <3>1, <4>1 DEF CallbackInv
      <3>2. CASE d # c
        BY <1>1, <2>1, <3>2 DEF CallbackInv
      <3>3. QED
        BY <3>1, <3>2
    <2>5. QED
      BY <2>3, <2>4
  <1>5. LoopInv'
    <2>1. taken \in Nat
      BY <1>0 DEF TypeOK
    <2>2. QED
      BY <1>0, <1>1, <2>1 DEF LoopInv, Resolved
  <1>6. QED
    BY <1>2, <1>3, <1>4, <1>5 DEF AsyncInv

LEMMA CheckFinishedInv ==
    ASSUME AsyncInv, NEW c \in Calls, CheckFinished(c) PROVE AsyncInv'
  <1> USE DEF CheckFinished
  <1>0. TypeOK /\ QueueInv /\ LoopInv /\ \A d \in Calls : HandlerInv(d) /\ CallbackInv(d)
    BY DEF AsyncInv
  <1>1. /\ app'[c] = (IF fin[c] THEN "firing" ELSE "holding")
        /\ \A d \in Calls : d # c => app'[d] = app[d]
    BY <1>0 DEF TypeOK
  <1>2. TypeOK'
    BY <1>0 DEF TypeOK, AppPlace
  <1>3. QueueInv'
    BY <1>0, <1>1, QueueKept
  <1>4. ASSUME NEW d \in Calls PROVE HandlerInv(d)' /\ CallbackInv(d)'
    <2>1. HandlerInv(d) /\ CallbackInv(d) /\ (Resolved(d)' <=> Resolved(d))
      BY <1>0 DEF Resolved
    <2>2. QED
      BY <1>1, <2>1 DEF HandlerInv, CallbackInv, Unsent
  <1>5. LoopInv'
    BY <1>0, <1>1 DEF LoopInv, Resolved
  <1>6. QED
    BY <1>2, <1>3, <1>4, <1>5 DEF AsyncInv

LEMMA FireHereInv ==
    ASSUME AsyncInv, NEW c \in Calls, FireHere(c) PROVE AsyncInv'
  <1> USE DEF FireHere
  <1>0. TypeOK /\ QueueInv /\ LoopInv /\ \A d \in Calls : HandlerInv(d) /\ CallbackInv(d)
    BY DEF AsyncInv
  <1>1. /\ app'[c] = "holding"
        /\ \A d \in Calls : d # c => app'[d] = app[d] /\ fired'[d] = fired[d]
        /\ fired'[c] = Append(fired[c], installed[c])
        /\ fired[c] \in Seq(1 .. MaxInstalls)
        /\ installed[c] \in 0 .. MaxInstalls
    BY <1>0 DEF TypeOK
  <1>2. /\ installed[c] \in 1 .. MaxInstalls /\ fin[c]
        /\ IsInjective(fired[c])
        /\ \A v \in Range(fired[c]) : v < installed[c]
    BY <1>0, <1>1, AsyncReplyAssumption DEF CallbackInv
  <1>3. installed[c] \notin Range(fired[c])
    BY <1>2
  <1>4. /\ fired'[c] \in Seq(1 .. MaxInstalls)
        /\ IsInjective(fired'[c])
        /\ Range(fired'[c]) = Range(fired[c]) \cup {installed[c]}
    <2>1. Append(fired[c], installed[c]) \in Seq(1 .. MaxInstalls)
      BY <1>1, <1>2, AppendProperties
    <2>2. IsInjective(Append(fired[c], installed[c]))
      BY <1>1, <1>2, <1>3, InjectiveAppend
    <2>3. Range(Append(fired[c], installed[c])) = Range(fired[c]) \cup {installed[c]}
      <3> DEFINE S == 1 .. MaxInstalls
      <3>1. fired[c] \in Seq(S) /\ installed[c] \in S
        BY <1>1, <1>2
      <3> HIDE DEF S
      <3>2. QED
        BY ONLY <3>1, RangeAppend
    <2>4. QED
      BY <1>1, <2>1, <2>2, <2>3
  <1>5. TypeOK'
    <2>1. fired' \in [Calls -> Seq(1 .. MaxInstalls)]
      BY <1>0, <1>1, <1>4 DEF TypeOK
    <2>2. QED
      BY <1>0, <2>1 DEF TypeOK, AppPlace
  <1>6. QueueInv'
    BY <1>0, <1>1, QueueKept
  <1>7. ASSUME NEW d \in Calls PROVE HandlerInv(d)' /\ CallbackInv(d)'
    <2>1. HandlerInv(d) /\ CallbackInv(d) /\ (Resolved(d)' <=> Resolved(d))
      BY <1>0 DEF Resolved
    <2>2. HandlerInv(d)'
      BY <1>1, <2>1 DEF HandlerInv, Unsent
    <2>3. CallbackInv(d)'
      <3>1. CASE d = c
        <4>1. \A v \in Range(fired'[d]) : v <= installed'[d]
          <5>1. Range(fired'[d]) = Range(fired[c]) \cup {installed[c]}
            BY <1>4, <3>1
          <5>2. installed'[d] = installed[c] /\ installed[c] \in Nat
            BY <1>1, <3>1
          <5>3. \A v \in Range(fired[c]) : v <= installed[c]
            BY <1>0 DEF CallbackInv
          <5>4. QED
            BY ONLY <5>1, <5>2, <5>3
        <4>2. QED
          BY <1>1, <1>2, <1>4, <3>1, <4>1 DEF CallbackInv
      <3>2. CASE d # c
        BY <1>1, <2>1, <3>2 DEF CallbackInv
      <3>3. QED
        BY <3>1, <3>2
    <2>4. QED
      BY <2>2, <2>3
  <1>8. LoopInv'
    BY <1>0, <1>1 DEF LoopInv, Resolved
  <1>9. QED
    BY <1>5, <1>6, <1>7, <1>8 DEF AsyncInv

LEMMA WaitingInv ==
    ASSUME AsyncInv, NEW c \in Calls, Wait(c) \/ WaitReturns(c) PROVE AsyncInv'
  <1> USE DEF Wait, WaitReturns
  <1>0. TypeOK /\ QueueInv /\ LoopInv /\ \A d \in Calls : HandlerInv(d) /\ CallbackInv(d)
    BY DEF AsyncInv
  <1>1. /\ app[c] \in {"holding", "waiting"} /\ app'[c] \in {"holding", "waiting"}
        /\ app' \in [Calls -> AppPlace]
        /\ \A d \in Calls : d # c => app'[d] = app[d]
        /\ UNCHANGED <<queue, loopVars, handlerVars, wire, status, replyVars, crashed>>
    BY <1>0 DEF TypeOK, AppPlace
  <1>2. TypeOK'
    BY <1>0, <1>1 DEF TypeOK
  <1>3. QueueInv'
    BY <1>0, <1>1, QueueKept
  <1>4. ASSUME NEW d \in Calls PROVE HandlerInv(d)' /\ CallbackInv(d)'
    <2>1. HandlerInv(d) /\ CallbackInv(d) /\ (Resolved(d)' <=> Resolved(d))
      BY <1>0, <1>1 DEF Resolved
    <2>2. QED
      BY <1>1, <2>1 DEF HandlerInv, CallbackInv, Unsent
  <1>5. LoopInv'
    BY <1>0, <1>1 DEF LoopInv, Resolved
  <1>6. QED
    BY <1>2, <1>3, <1>4, <1>5 DEF AsyncInv

LEMMA DropInv ==
    ASSUME AsyncInv, NEW c \in Calls, Drop(c) PROVE AsyncInv'
  <1> USE DEF Drop
  <1>0. TypeOK /\ QueueInv /\ LoopInv /\ \A d \in Calls : HandlerInv(d) /\ CallbackInv(d)
    BY DEF AsyncInv
  <1>1. /\ handler[c] = "live" /\ "app" \in refs[c]
        /\ c \notin Abandoners => slot[c] # "pending"
    BY <1>0 DEF HandlerInv
  <1>2. /\ app'[c] = "done" /\ refs'[c] = refs[c] \ {"app"}
        /\ handler'[c] = (IF refs[c] = {"app"} THEN "dying" ELSE "live")
        /\ \A d \in Calls : d # c => /\ app'[d] = app[d] /\ refs'[d] = refs[d]
                                     /\ handler'[d] = handler[d]
    BY <1>0, <1>1 DEF TypeOK
  <1>3. queue \in Seq(Task) /\ <<"delete", c>> \in Task
        /\ <<"delete", c>> \notin Range(queue)
    BY <1>0, <1>1 DEF TypeOK, QueueInv, Task
  <1>4. /\ queue' \in Seq(Task) /\ IsInjective(queue')
        /\ Range(queue') = (IF refs[c] = {"app"}
                            THEN Range(queue) \cup {<<"delete", c>>} ELSE Range(queue))
    <2>1. Append(queue, <<"delete", c>>) \in Seq(Task)
      BY <1>3, AppendProperties
    <2>2. IsInjective(Append(queue, <<"delete", c>>))
      BY <1>0, <1>3, InjectiveAppend DEF QueueInv
    <2>3. Range(Append(queue, <<"delete", c>>)) = Range(queue) \cup {<<"delete", c>>}
      BY <1>3, RangeAppend
    <2>4. QED
      BY <1>0, <1>3, <2>1, <2>2, <2>3 DEF QueueInv
  <1>5. TypeOK'
    BY <1>0, <1>4 DEF TypeOK, AppPlace
  <1>6. QueueInv'
    BY <1>0, <1>1, <1>2, <1>4 DEF QueueInv
  <1>7. ASSUME NEW d \in Calls PROVE HandlerInv(d)' /\ CallbackInv(d)'
    <2>1. HandlerInv(d) /\ CallbackInv(d) /\ (Resolved(d)' <=> Resolved(d))
      BY <1>0 DEF Resolved
    <2>2. HandlerInv(d)'
      <3>1. CASE d = c
        BY <1>1, <1>2, <2>1, <3>1 DEF HandlerInv, Unsent
      <3>2. CASE d # c
        BY <1>2, <2>1, <3>2 DEF HandlerInv, Unsent
      <3>3. QED
        BY <3>1, <3>2
    <2>3. CallbackInv(d)'
      BY <1>2, <2>1 DEF CallbackInv
    <2>4. QED
      BY <2>2, <2>3
  <1>8. LoopInv'
    <2>1. lpc # "idle" => "guard" \in refs'[cur]
      BY <1>0, <1>2 DEF LoopInv
    <2>2. QED
      BY <1>0, <1>2, <2>1 DEF LoopInv, Resolved
  <1>9. QED
    BY <1>5, <1>6, <1>7, <1>8 DEF AsyncInv

-----------------------------------------------------------------------------
(* The theorems                                                            *)

LEMMA AsyncInvKept == AsyncInv /\ [Next]_vars => AsyncInv'
  <1> SUFFICES ASSUME AsyncInv, [Next]_vars PROVE AsyncInv'
    OBVIOUS
  <1>1. ASSUME NEW c \in Calls, RunInvoke(c) PROVE AsyncInv'
    <2>1. SendHandle(c) \/ SendCallback(c) \/ FailHandle(c) \/ FailCallback(c)
      BY <1>1 DEF RunInvoke
    <2>2. QED
      BY <1>1, <2>1, SendHandleInv, SendCallbackInv, FailHandleInv, FailCallbackInv
  <1>2. CASE LoopStep
    BY <1>1, <1>2, RunDeleteInv, OnReplyInv, OnReplyDyingInv, DeliverInv, TakeInv,
       RunCallbackInv, FinishInv, LeaveInv DEF LoopStep
  <1>3. ASSUME NEW c \in Calls, AppStep(c) \/ Answer(c) PROVE AsyncInv'
    BY <1>3, CallStarts, InstallInv, CheckFinishedInv, FireHereInv, WaitingInv,
       DropInv, AnswerInv DEF AppStep
  <1>4. CASE UNCHANGED vars
    <2> USE <1>4 DEF vars
    <2>1. TypeOK' /\ QueueInv' /\ LoopInv'
      BY DEF AsyncInv, TypeOK, QueueInv, LoopInv, Resolved
    <2>2. \A c \in Calls : HandlerInv(c)' /\ CallbackInv(c)'
      BY DEF AsyncInv, HandlerInv, CallbackInv, Unsent, Resolved
    <2>3. QED
      BY <2>1, <2>2 DEF AsyncInv
  <1>5. QED
    BY <1>2, <1>3, <1>4 DEF Next

LEMMA AsyncInvAlways == Spec => []AsyncInv
  BY InitInv, AsyncInvKept, PTL DEF Spec

\* The variables of the calls and of the loop keep their types.
THEOREM TypeCorrect == Spec => []TypeOK
  <1>1. AsyncInv => TypeOK
    BY DEF AsyncInv
  <1>2. QED
    BY <1>1, AsyncInvAlways, PTL

\* setCallback() never waits for the promise with the mutex held that onReply
\* waits for: no thread and no loop blocks the other.
THEOREM FinishedHasReply == Spec => []FinishedIsResolved
  <1>1. AsyncInv => FinishedIsResolved
    BY DEF AsyncInv, HandlerInv, FinishedIsResolved
  <1>2. QED
    BY <1>1, AsyncInvAlways, PTL

\* The promise of a call is never resolved a second time.
THEOREM PromiseResolvedOnce == Spec => []ResolvedOnce
  <1>1. AsyncInv => ResolvedOnce
    BY DEF AsyncInv, LoopInv, ResolvedOnce
  <1>2. QED
    BY <1>1, AsyncInvAlways, PTL

\* sd-bus never holds a pointer to a deleted handler, and onReply's handler
\* lives until onReply is through with it.
THEOREM HandlerIsThere == Spec => []HandlerOutlivesSlot
  <1>1. AsyncInv => HandlerOutlivesSlot
    <2> SUFFICES ASSUME AsyncInv PROVE HandlerOutlivesSlot
      OBVIOUS
    <2>1. LoopInv /\ \A c \in Calls : HandlerInv(c)
      BY DEF AsyncInv
    <2>2. \A c \in Calls : slot[c] = "pending" => handler[c] \in {"live", "dying"}
      BY <2>1 DEF HandlerInv
    <2>3. lpc # "idle" => handler[cur] = "live" /\ "guard" \in refs[cur]
      BY <2>1 DEF HandlerInv, LoopInv
    <2>4. QED
      BY <2>2, <2>3 DEF HandlerOutlivesSlot
  <1>2. QED
    BY <1>1, AsyncInvAlways, PTL

\* No callback of a call runs twice, for any number of them.
THEOREM CallbackRunsOnce == Spec => []CallbackAtMostOnce
  <1>1. AsyncInv => CallbackAtMostOnce
    BY DEF AsyncInv, CallbackInv, CallbackAtMostOnce
  <1>2. QED
    BY <1>1, AsyncInvAlways, PTL

\* A callback that is newer than those that ran may run once there is a result.
LEMMA NewerIsNotified ==
    ASSUME TypeOK, NEW c \in Calls, NEW n \in 1 .. installed[c], Resolved(c),
           \A v \in Range(fired[c]) : v < n,
           fired' = [fired EXCEPT ![c] = Append(@, n)], UNCHANGED <<got, installed>>
    PROVE  Promised!Next
  <1>1. fired[c] \in Seq(1 .. MaxInstalls)
    BY DEF TypeOK
  <1>2. \A k \in 1 .. Len(fired[c]) : fired[c][k] < n
    BY <1>1 DEF Range
  <1>3. Promised!Notify(c)
    BY <1>2 DEF Promised!Notify, Promised!Newer, Resolved
  <1>4. QED
    BY <1>3 DEF Promised!Next

\* The task of a call offers its callback, refuses the call, or leaves it to the reply.
LEMMA InvokeIsCompletion ==
    ASSUME AsyncInv, NEW c \in Calls, RunInvoke(c)
    PROVE  [Promised!Next]_Promised!vars
  <1>0. TypeOK
    BY DEF AsyncInv
  <1>1. app[c] = "calling"
    <2>1. queue \in Seq(Task) /\ queue # <<>> /\ IsInjective(queue)
          /\ Head(queue) = <<"invoke", c>>
      BY DEF AsyncInv, TypeOK, QueueInv, RunInvoke
    <2>2. <<"invoke", c>> \in Range(queue)
      BY <2>1, InjectiveTail
    <2>3. QED
      BY <2>2 DEF AsyncInv, QueueInv
  <1>2. got[c] = "none" /\ installed[c] = 0 /\ fired[c] = <<>>
    BY <1>1 DEF AsyncInv, HandlerInv, Unsent, Resolved
  <1>3. CASE SendHandle(c)
    BY <1>3 DEF SendHandle, Promised!vars
  <1>4. CASE SendCallback(c)
    <2>1. installed' = [installed EXCEPT ![c] = @ + 1]
      BY <1>0, <1>2, <1>4 DEF SendCallback, TypeOK
    <2>2. Promised!Offer(c)
      BY <2>1, <1>4 DEF SendCallback, Promised!Offer
    <2>3. QED
      BY <2>2 DEF Promised!Next
  <1>5. CASE FailHandle(c)
    <2>1. Promised!Complete(c)
      BY <1>2, <1>5 DEF FailHandle, Promised!Complete
    <2>2. QED
      BY <2>1 DEF Promised!Next
  <1>6. CASE FailCallback(c)
    <2>1. fired' = [fired EXCEPT ![c] = <<1>>]
      BY <1>0, <1>2, <1>6 DEF FailCallback, TypeOK
    <2>2. Promised!Refuse(c)
      BY <2>1, <1>2, <1>6 DEF FailCallback, Promised!Refuse
    <2>3. QED
      BY <2>2 DEF Promised!Next
  <1>7. QED
    BY <1>3, <1>4, <1>5, <1>6 DEF RunInvoke

\* Through all its handlers, slots and locks an asynchronous call is a completion:
\* one result, then callbacks, and never an older one after a newer one.
THEOREM AsyncReplyIsCompletion == Spec => ImplementsCompletion
  <1>1. Init => Promised!Init
    BY DEF Init, Promised!Init
  <1>2. AsyncInv /\ [Next]_vars => [Promised!Next]_Promised!vars
    <2> SUFFICES ASSUME AsyncInv, [Next]_vars PROVE [Promised!Next]_Promised!vars
      OBVIOUS
    <2>0. TypeOK /\ LoopInv /\ \A c \in Calls : HandlerInv(c) /\ CallbackInv(c)
      BY DEF AsyncInv
    <2>1. CASE Deliver
      <3>1. cur \in Calls /\ got[cur] = "none" /\ ReplyOf(cur) \in {"ok", "error"}
        BY <2>0, <2>1 DEF LoopInv, Deliver, Resolved, ReplyOf
      <3>2. Promised!Complete(cur)
        BY <3>1, <2>1 DEF Deliver, Promised!Complete
      <3>3. QED
        BY <3>1, <3>2 DEF Promised!Next
    <2>2. CASE RunCallback
      <3>1. cur \in Calls /\ Resolved(cur) /\ taken <= installed[cur] /\ fired[cur] = <<>>
        BY <2>0, <2>2 DEF LoopInv, CallbackInv, RunCallback
      <3>2. CASE taken = 0
        BY <3>2, <2>2 DEF RunCallback, Promised!vars
      <3>3. CASE taken # 0
        <4>1. taken \in 1 .. installed[cur] /\ \A v \in Range(fired[cur]) : v < taken
          BY <2>0, <3>1, <3>3, EmptyFacts DEF TypeOK
        <4>2. QED
          BY <2>0, <2>2, <3>1, <3>3, <4>1, NewerIsNotified DEF RunCallback
      <3>4. QED
        BY <3>2, <3>3
    <2>3. ASSUME NEW c \in Calls, FireHere(c) PROVE Promised!Next
      <3>1. Resolved(c) /\ installed[c] \in 1 .. installed[c]
            /\ \A v \in Range(fired[c]) : v < installed[c]
        BY <2>0, <2>3 DEF TypeOK, HandlerInv, CallbackInv, FireHere
      <3>2. QED
        BY <2>0, <2>3, <3>1, NewerIsNotified DEF FireHere
    <2>4. ASSUME NEW c \in Calls, Install(c) PROVE Promised!Next
      BY <2>4 DEF Install, Promised!Offer, Promised!Next
    <2>5. ASSUME NEW c \in Calls, RunInvoke(c) PROVE [Promised!Next]_Promised!vars
      BY <2>5, InvokeIsCompletion
    <2>6. ASSUME UNCHANGED <<got, installed, fired>> PROVE UNCHANGED Promised!vars
      BY <2>6 DEF Promised!vars
    <2>7. QED
      BY <2>1, <2>2, <2>3, <2>4, <2>5, <2>6 DEF Next, LoopStep, AppStep, vars,
         RunDelete, OnReply, OnReplyDying, Take, Finish, Leave, Call, CheckFinished,
         Wait, WaitReturns, Drop, Answer
  <1>3. QED
    BY <1>1, <1>2, AsyncInvAlways, PTL
    DEF Spec, ImplementsCompletion, Promised!Spec

\* Only a call that was dropped before its reply can bring the process down.
THEOREM OnlyAbandonCrashes == Spec => []CrashNeedsAbandon
  <1>1. Init => CrashNeedsAbandon
    BY DEF Init, CrashNeedsAbandon
  <1>2. AsyncInv /\ CrashNeedsAbandon /\ [Next]_vars => CrashNeedsAbandon'
    <2> SUFFICES ASSUME AsyncInv, CrashNeedsAbandon, [Next]_vars, crashed'
                 PROVE  \E c \in Abandoners : app'[c] = "done" /\ slot'[c] = "pending"
      BY DEF CrashNeedsAbandon
    <2>0. TypeOK /\ Abandoners \subseteq Calls /\ \A c \in Calls : HandlerInv(c)
      BY AsyncReplyAssumption DEF AsyncInv, Calls
    <2>1. CASE ~crashed
      <3>1. PICK c \in Calls : OnReplyDying(c)
        BY <2>1 DEF Next, LoopStep, AppStep, vars, RunInvoke, RunDelete, OnReply,
           Deliver, Take, RunCallback, Finish, Leave, Call, Install, CheckFinished,
           FireHere, Wait, WaitReturns, Drop, Answer
      <3>2. slot[c] = "pending" /\ refs[c] = {} /\ app' = app /\ slot' = slot
        BY <3>1 DEF OnReplyDying, Answered
      <3>3. app[c] = "done" /\ c \in Abandoners
        BY <2>0, <3>2 DEF HandlerInv, Unsent, TypeOK, AppPlace
      <3>4. QED
        BY <3>2, <3>3
    <2>2. CASE crashed
      <3>1. PICK c \in Abandoners : app[c] = "done" /\ slot[c] = "pending"
        BY <2>2 DEF CrashNeedsAbandon
      <3>2. slot' = slot
        BY <2>2 DEF Next, LoopStep, AppStep, vars, RunInvoke, RunDelete, OnReply,
           OnReplyDying, Answered, Deliver, Take, RunCallback, Finish, Leave, Call,
           Install, CheckFinished, FireHere, Wait, WaitReturns, Drop, Answer
      <3>3. app'[c] = "done"
        <4>1. ASSUME NEW d \in Calls, Call(d) PROVE app'[c] = "done"
          BY <2>0, <3>1, <4>1 DEF Call, TypeOK
        <4>2. QED
          BY <2>2, <3>1, <4>1 DEF Next, LoopStep, AppStep, vars, RunInvoke,
             RunDelete, OnReply, OnReplyDying, Answered, Deliver, Take, RunCallback,
             Finish, Leave, Install, CheckFinished, FireHere, Wait, WaitReturns,
             Drop, Answer
      <3>4. QED
        BY <3>1, <3>2, <3>3
    <2>3. QED
      BY <2>1, <2>2, <2>0 DEF TypeOK
  <1>3. QED
    BY <1>1, <1>2, AsyncInvAlways, PTL DEF Spec

\* No step of an application thread deletes a handler or releases a slot.
THEOREM LoopTearsDown == Spec => TornDownByLoop
  <1> DEFINE Quiet ==
        \A c \in Calls :
          (\/ handler[c] # "deleted" /\ handler'[c] = "deleted"
           \/ slot[c] = "pending" /\ slot'[c] # "pending")
          => \A d \in Calls : app'[d] # app[d] => app[d] = "calling"
  <1>1. AsyncInv /\ [Next]_vars => [Quiet]_vars
    <2> SUFFICES ASSUME AsyncInv, Next PROVE Quiet
      OBVIOUS
    <2>0. TypeOK
      BY DEF AsyncInv
    <2>1. ASSUME NEW c \in Calls, RunInvoke(c) PROVE Quiet
      <3>1. app[c] = "calling"
        <4>1. queue \in Seq(Task) /\ queue # <<>> /\ IsInjective(queue)
              /\ Head(queue) = <<"invoke", c>>
          BY <2>1 DEF AsyncInv, TypeOK, QueueInv, RunInvoke
        <4>2. <<"invoke", c>> \in Range(queue)
          BY <4>1, InjectiveTail
        <4>3. QED
          BY <4>2 DEF AsyncInv, QueueInv
      <3>2. \A d \in Calls : d # c => app'[d] = app[d]
        BY <2>0, <2>1 DEF RunInvoke, SendHandle, SendCallback, FailHandle,
           FailCallback, TypeOK
      <3>3. QED
        BY <3>1, <3>2
    <2>2. ASSUME app' = app PROVE Quiet
      BY <2>2
    <2>3. ASSUME handler' = handler, slot' = slot PROVE Quiet
      BY <2>3
    <2>4. ASSUME NEW c \in Calls, Drop(c) PROVE Quiet
      <3>1. slot' = slot /\ \A d \in Calls : handler'[d] \in {handler[d], "dying"}
        BY <2>0, <2>4 DEF Drop, TypeOK
      <3>2. QED
        BY <3>1
    <2>5. QED
      BY <2>1, <2>2, <2>3, <2>4 DEF Next, LoopStep, AppStep, RunDelete, OnReply,
         OnReplyDying, Deliver, Take, RunCallback, Finish, Leave, Call, Install,
         CheckFinished, FireHere, Wait, WaitReturns, Answer
  <1>2. QED
    BY <1>1, AsyncInvAlways, PTL DEF Spec, TornDownByLoop

-----------------------------------------------------------------------------
(* Nothing is left behind                                                  *)

\* The last reference leaves a queued deletion, and mRepsPtr keeps a handler
\* only until its callback has run.
LeakInv ==
    \A c \in Calls :
        /\ handler[c] = "dying" => <<"delete", c>> \in Range(queue)
        /\ "reps" \in refs[c] =>
              slot[c] = "pending" \/ (cur = c /\ lpc \in {"deliver", "take", "call"})

\* A task that is not the head of the queue stays in it when the head leaves.
LEMMA OthersStay ==
    ASSUME TypeOK, queue # <<>>, queue' = Tail(queue)
    PROVE  \A t \in Range(queue) : t # Head(queue) => t \in Range(queue')
  <1>1. queue \in Seq(Task)
    BY DEF TypeOK
  <1>2. Range(queue) = {Head(queue)} \cup Range(Tail(queue))
    BY <1>1, RangeHeadTail
  <1>3. QED
    BY <1>2

\* A call whose task is queued has no handler yet.
LEMMA InvokeIsFirst ==
    ASSUME AsyncInv, NEW c \in Calls, RunInvoke(c) PROVE Unsent(c)
  <1>1. queue \in Seq(Task) /\ queue # <<>> /\ IsInjective(queue)
        /\ Head(queue) = <<"invoke", c>>
    BY DEF AsyncInv, TypeOK, QueueInv, RunInvoke
  <1>2. <<"invoke", c>> \in Range(queue)
    BY <1>1, InjectiveTail
  <1>3. app[c] = "calling"
    BY <1>2 DEF AsyncInv, QueueInv
  <1>4. QED
    BY <1>3 DEF AsyncInv, HandlerInv

LEMMA LeakInvInvoke ==
    ASSUME AsyncInv, LeakInv, NEW c \in Calls, RunInvoke(c) PROVE LeakInv'
  <1>0. TypeOK
    BY DEF AsyncInv
  <1>1. Unsent(c)
    BY InvokeIsFirst
  <1>2. \A t \in Range(queue) : t # Head(queue) => t \in Range(queue')
    BY <1>0, OthersStay DEF RunInvoke
  <1>3. ASSUME NEW d \in Calls, handler'[d] = "dying"
        PROVE  <<"delete", d>> \in Range(queue')
    <2>1. handler[d] = "dying"
      BY <1>0, <1>3 DEF RunInvoke, SendHandle, SendCallback, FailHandle, FailCallback, TypeOK
    <2>2. <<"delete", d>> \in Range(queue) /\ <<"delete", d>> # Head(queue)
      BY <2>1 DEF LeakInv, RunInvoke
    <2>3. QED
      BY <1>2, <2>2
  <1>4. ASSUME NEW d \in Calls, "reps" \in refs'[d]
        PROVE  slot'[d] = "pending" \/ (cur' = d /\ lpc' \in {"deliver", "take", "call"})
    <2>1. CASE d = c
      BY <1>0, <1>1, <1>4, <2>1
      DEF RunInvoke, SendHandle, SendCallback, FailHandle, FailCallback, TypeOK, Unsent
    <2>2. CASE d # c
      BY <1>0, <1>4, <2>2
      DEF RunInvoke, SendHandle, SendCallback, FailHandle, FailCallback, TypeOK, LeakInv
    <2>3. QED
      BY <2>1, <2>2
  <1>5. QED
    BY <1>3, <1>4 DEF LeakInv

LEMMA LeakInvDelete ==
    ASSUME AsyncInv, LeakInv, NEW c \in Calls, RunDelete(c) PROVE LeakInv'
  <1>0. TypeOK
    BY DEF AsyncInv
  <1>1. handler[c] = "dying" /\ refs[c] = {}
    <2>1. queue \in Seq(Task) /\ queue # <<>> /\ IsInjective(queue)
          /\ Head(queue) = <<"delete", c>>
      BY DEF AsyncInv, TypeOK, QueueInv, RunDelete
    <2>2. <<"delete", c>> \in Range(queue)
      BY <2>1, InjectiveTail
    <2>3. handler[c] = "dying"
      BY <2>2 DEF AsyncInv, QueueInv
    <2>4. QED
      BY <2>3 DEF AsyncInv, HandlerInv
  <1>2. \A t \in Range(queue) : t # Head(queue) => t \in Range(queue')
    BY <1>0, OthersStay DEF RunDelete
  <1>3. ASSUME NEW d \in Calls, handler'[d] = "dying"
        PROVE  <<"delete", d>> \in Range(queue')
    <2>1. handler[d] = "dying" /\ d # c
      BY <1>0, <1>3 DEF RunDelete, TypeOK
    <2>2. <<"delete", d>> \in Range(queue) /\ <<"delete", d>> # Head(queue)
      BY <2>1 DEF LeakInv, RunDelete
    <2>3. QED
      BY <1>2, <2>2
  <1>4. ASSUME NEW d \in Calls, "reps" \in refs'[d]
        PROVE  slot'[d] = "pending" \/ (cur' = d /\ lpc' \in {"deliver", "take", "call"})
    BY <1>0, <1>1, <1>4 DEF RunDelete, TypeOK, LeakInv
  <1>5. QED
    BY <1>3, <1>4 DEF LeakInv

\* A task that is posted leaves those before it in the queue.
LEMMA LeakInvPost ==
    ASSUME AsyncInv, LeakInv, NEW c \in Calls, Call(c) \/ Drop(c) PROVE LeakInv'
  <1>0. TypeOK
    BY DEF AsyncInv
  <1>1. /\ Range(queue) \subseteq Range(queue')
        /\ queue' # queue => <<"delete", c>> \in Range(queue') \/ Call(c)
    <2>1. queue \in Seq(Task) /\ <<"invoke", c>> \in Task /\ <<"delete", c>> \in Task
      BY <1>0 DEF TypeOK, Task
    <2>2. /\ Range(Append(queue, <<"invoke", c>>)) = Range(queue) \cup {<<"invoke", c>>}
          /\ Range(Append(queue, <<"delete", c>>)) = Range(queue) \cup {<<"delete", c>>}
      BY <2>1, RangeAppend
    <2>3. CASE Call(c)
      BY <2>2, <2>3 DEF Call
    <2>4. CASE Drop(c)
      BY <2>2, <2>4 DEF Drop
    <2>5. QED
      BY <2>3, <2>4
  <1>2. ASSUME NEW d \in Calls, handler'[d] = "dying"
        PROVE  <<"delete", d>> \in Range(queue')
    <2>1. CASE handler[d] = "dying"
      BY <1>1, <2>1 DEF LeakInv
    <2>2. CASE handler[d] # "dying"
      <3>1. Drop(c) /\ refs[c] = {"app"} /\ d = c
        BY <1>0, <1>2, <2>2 DEF Call, Drop, TypeOK
      <3>2. queue' = Append(queue, <<"delete", c>>)
        BY <3>1 DEF Drop
      <3>3. queue \in Seq(Task) /\ <<"delete", c>> \in Task
        BY <1>0 DEF TypeOK, Task
      <3>4. QED
        BY <3>1, <3>2, <3>3, RangeAppend
    <2>3. QED
      BY <2>1, <2>2
  <1>3. ASSUME NEW d \in Calls, "reps" \in refs'[d]
        PROVE  slot'[d] = "pending" \/ (cur' = d /\ lpc' \in {"deliver", "take", "call"})
    <2>1. slot' = slot /\ cur' = cur /\ lpc' = lpc
      BY DEF Call, Drop
    <2>2. refs'[d] \subseteq refs[d]
      <3>1. CASE Call(c)
        BY <3>1 DEF Call
      <3>2. CASE Drop(c)
        BY <1>0, <3>2 DEF Drop, TypeOK
      <3>3. QED
        BY <3>1, <3>2
    <2>3. QED
      BY <1>3, <2>1, <2>2 DEF LeakInv
  <1>4. QED
    BY <1>2, <1>3 DEF LeakInv

\* Inside onReply, and where neither the queue nor a handler is touched.
LEMMA LeakInvOther ==
    ASSUME AsyncInv, LeakInv,
           \/ UNCHANGED vars
           \/ Deliver \/ Take \/ RunCallback \/ Finish \/ Leave
           \/ \E c \in Calls :
                 \/ OnReply(c) \/ OnReplyDying(c) \/ Answer(c)
                 \/ Install(c) \/ CheckFinished(c) \/ FireHere(c)
                 \/ Wait(c) \/ WaitReturns(c)
    PROVE  LeakInv'
  <1>0. TypeOK /\ LoopInv /\ \A d \in Calls : HandlerInv(d)
    BY DEF AsyncInv
  <1>1. CASE Deliver \/ Take
    BY <1>0, <1>1 DEF LeakInv, Deliver, Take
  <1>2. CASE RunCallback
    <2>1. cur \in Calls
      BY <1>0, <1>2 DEF LoopInv, RunCallback
    <2>2. QED
      BY <1>0, <1>2, <2>1 DEF LeakInv, RunCallback, TypeOK
  <1>3. CASE Finish
    BY <1>0, <1>3 DEF LeakInv, Finish
  <1>4. CASE Leave
    <2>1. cur \in Calls
      BY <1>0, <1>4 DEF LoopInv, Leave
    <2>2. QED
      BY <1>0, <1>4, <2>1 DEF LeakInv, Leave, TypeOK
  <1>5. ASSUME NEW c \in Calls, OnReply(c) PROVE LeakInv'
    <2>1. lpc = "idle" /\ slot'[c] = "released" /\ cur' = c /\ lpc' = "deliver"
      BY <1>0, <1>5 DEF OnReply, Answered, TypeOK
    <2>2. /\ handler' = handler /\ queue' = queue
          /\ \A d \in Calls : d # c => refs'[d] = refs[d] /\ slot'[d] = slot[d]
      BY <1>0, <1>5 DEF OnReply, TypeOK
    <2>3. QED
      BY <2>1, <2>2 DEF LeakInv
  <1>6. CASE \/ UNCHANGED vars
             \/ \E c \in Calls :
                   \/ OnReplyDying(c) \/ Answer(c) \/ Install(c) \/ CheckFinished(c)
                   \/ FireHere(c) \/ Wait(c) \/ WaitReturns(c)
    <2>1. UNCHANGED <<handler, refs, slot, queue, cur, lpc>>
      BY <1>6 DEF vars, OnReplyDying, Answer, Install, CheckFinished, FireHere, Wait, WaitReturns
    <2>2. QED
      BY <2>1 DEF LeakInv
  <1>7. QED
    BY <1>1, <1>2, <1>3, <1>4, <1>5, <1>6

LEMMA LeakInvKept == AsyncInv /\ LeakInv /\ [Next]_vars => LeakInv'
  <1> SUFFICES ASSUME AsyncInv, LeakInv, [Next]_vars PROVE LeakInv'
    OBVIOUS
  <1>1. ASSUME NEW c \in Calls, RunInvoke(c) PROVE LeakInv'
    BY <1>1, LeakInvInvoke
  <1>2. ASSUME NEW c \in Calls, RunDelete(c) PROVE LeakInv'
    BY <1>2, LeakInvDelete
  <1>3. ASSUME NEW c \in Calls, Call(c) \/ Drop(c) PROVE LeakInv'
    BY <1>3, LeakInvPost
  <1>4. QED
    BY <1>1, <1>2, <1>3, LeakInvOther DEF Next, LoopStep, AppStep

\* When the loop has nothing to do, a handler that is left has its PendingReply
\* or waits for its reply.
THEOREM HandlersAreReclaimed == Spec => []NoHandlerLeaks
  <1>1. Init => LeakInv
    BY DEF Init, LeakInv
  <1>2. AsyncInv /\ LeakInv => NoHandlerLeaks
    <2> SUFFICES ASSUME AsyncInv, LeakInv, queue = <<>>, lpc = "idle",
                        NEW c \in Calls, handler[c] \in {"live", "dying"}
                 PROVE  "app" \in refs[c] \/ slot[c] = "pending"
      BY DEF NoHandlerLeaks
    <2>0. TypeOK /\ LoopInv /\ HandlerInv(c)
      BY DEF AsyncInv
    <2>1. handler[c] = "live"
      BY EmptyFacts DEF LeakInv
    <2>2. refs[c] # {} /\ refs[c] \subseteq {"app", "reps", "guard"}
      BY <2>0, <2>1 DEF TypeOK, HandlerInv
    <2>3. "guard" \notin refs[c]
      BY <2>0, AsyncReplyAssumption DEF HandlerInv, LoopInv
    <2>4. "reps" \in refs[c] => slot[c] = "pending"
      BY DEF LeakInv
    <2>5. QED
      BY <2>2, <2>3, <2>4
  <1>3. QED
    BY <1>1, <1>2, LeakInvKept, AsyncInvAlways, PTL DEF Spec
=============================================================================
