---------------------------- MODULE ServerProofs ----------------------------
(***************************************************************************)
(* Theorems about module Server, for all sets of threads, all bounds and   *)
(* any number of groups.  The server is shown to drive its looper as       *)
(* module Looper says, so that the theorems of LooperProofs hold of it;    *)
(* what is shown of the calls rests on those: that a task is queued once   *)
(* is the order of the looper's queue.  Together they make the server an   *)
(* atomic service.                                                         *)
(***************************************************************************)
EXTENDS Server, SeqLemmas

LP == INSTANCE LooperProofs

-----------------------------------------------------------------------------
(* The looper's theorems, in terms of the server's looper                  *)

LEMMA LooperAssumed == LP!LooperAssumption
  BY ServerAssumption DEF LP!LooperAssumption

LEMMA SameTask == L!Task = LP!Task
  BY DEF L!Task, LP!Task, L!Threads, LP!Threads

LEMMA SameTypeOK == (L!TypeOK <=> LP!TypeOK) /\ (L!TypeOK' <=> LP!TypeOK')
  BY SameTask DEF L!TypeOK, LP!TypeOK, L!LoopPlace, LP!LoopPlace, L!Threads,
     LP!Threads

LEMMA SameQueued == L!Queued = LP!Queued /\ L!Queued' = LP!Queued'
  BY DEF L!Queued, LP!Queued, L!Range, LP!Range

LEMMA SameInit == L!Init <=> LP!Init
  BY DEF L!Init, LP!Init, L!Threads, LP!Threads

LEMMA SameNext == [L!Next]_L!vars <=> [LP!Next]_LP!vars
  BY DEF L!Next, LP!Next, L!vars, LP!vars, L!Push, LP!Push, L!Wake, LP!Wake,
     L!Stop, LP!Stop, L!OnReady, LP!OnReady, L!RunFails, LP!RunFails,
     L!RunEnters, LP!RunEnters, L!DispatchExit, LP!DispatchExit,
     L!DispatchWake, LP!DispatchWake, L!TakeTasks, LP!TakeTasks,
     L!RunTask, LP!RunTask, L!BatchDone, LP!BatchDone, L!LoopPost, LP!LoopPost,
     L!DispatchAccept, LP!DispatchAccept, L!ReadyTask, LP!ReadyTask

LEMMA PushQueues ==
    ASSUME NEW p \in Posters, L!TypeOK, L!TypeOK', LP!QueueInv, L!Push(p)
    PROVE  L!Queued' = L!Queued \cup {<<p, posted[p] + 1>>}
  <1>1. LP!TypeOK /\ LP!TypeOK' /\ LP!Push(p)
    BY SameTypeOK DEF L!Push, LP!Push
  <1>2. LP!Queued' = LP!Queued \cup {<<p, posted[p] + 1>>}
    BY <1>1, LooperAssumed, LP!PushQueues DEF LP!PushQueues
  <1>3. QED
    BY <1>2, SameQueued

LEMMA RunUnqueues ==
    ASSUME L!TypeOK, LP!PostOrder, L!RunTask
    PROVE  Head(batch) \in L!Queued /\ L!Queued' = L!Queued \ {Head(batch)}
  <1>1. LP!TypeOK /\ LP!RunTask
    BY SameTypeOK DEF L!RunTask, LP!RunTask, L!ReadyTask, LP!ReadyTask
  <1>2. Head(batch) \in LP!Queued /\ LP!Queued' = LP!Queued \ {Head(batch)}
    BY <1>1, LooperAssumed, LP!RunUnqueues DEF LP!RunUnqueues
  <1>3. QED
    BY <1>2, SameQueued

\* Entering the loop and its steps, apart from running a task, leave what other
\* threads have queued as it is.
LEMMA LoopQueues ==
    ASSUME L!TypeOK, L!TypeOK', LP!QueueInv,
           L!RunFails \/ L!RunEnters \/ L!DispatchExit \/ L!DispatchWake
               \/ L!TakeTasks \/ L!BatchDone \/ L!LoopPost \/ L!DispatchAccept,
           NEW e, e[1] # LoopThread
    PROVE  e \in L!Queued' <=> e \in L!Queued
  <1>1. LP!TypeOK /\ LP!TypeOK'
    BY SameTypeOK
  <1>2. CASE L!LoopPost \/ L!RunEnters
    <2>1. LP!LoopPost \/ LP!RunEnters
      BY <1>2 DEF L!LoopPost, LP!LoopPost, L!RunEnters, LP!RunEnters, L!ReadyTask,
         LP!ReadyTask
    <2>2. e \in LP!Queued' <=> e \in LP!Queued
      BY <1>1, <2>1, LooperAssumed, LP!LoopThreadQueues DEF LP!LoopThreadQueues
    <2>3. QED
      BY <2>2, SameQueued
  <1>3. CASE L!TakeTasks
    <2>1. LP!TakeTasks
      BY <1>3 DEF L!TakeTasks, LP!TakeTasks
    <2>2. LP!Queued' = LP!Queued
      BY <1>1, <2>1, LooperAssumed, LP!TakeKeepsQueued DEF LP!TakeKeepsQueued
    <2>3. QED
      BY <2>2, SameQueued
  <1>4. CASE L!RunFails \/ L!DispatchExit \/ L!DispatchWake \/ L!BatchDone
             \/ L!DispatchAccept
    BY <1>4 DEF L!RunFails, L!DispatchExit, L!DispatchWake, L!BatchDone,
       L!DispatchAccept, L!Queued
  <1>5. QED
    BY <1>2, <1>3, <1>4

-----------------------------------------------------------------------------
\* Every step of the server is a step of its looper or leaves it alone.
LEMMA StepOfLooper == [Next]_vars => [L!Next]_L!vars
  <1> SUFFICES ASSUME [Next]_vars PROVE L!Next \/ UNCHANGED L!vars
    OBVIOUS
  <1>1. CASE Run
    BY <1>1 DEF Run, L!Next
  <1>2. CASE EnterLoop
    BY <1>2 DEF EnterLoop, L!Next
  <1>3. CASE BeginInit \/ CommitGroup \/ SetInited
    BY <1>3 DEF BeginInit, CommitGroup, SetInited, looperVars, L!vars
  <1>4. CASE ReadyReturns \/ AcceptFails \/ RunPosted \/ LoopStep
    BY <1>4 DEF ReadyReturns, AcceptFails, RunPosted, LoopStep, L!Next
  <1>5. ASSUME NEW t \in Posters, PushTask(t) \/ WakeLoop(t) PROVE L!Next
    BY <1>5 DEF PushTask, WakeLoop, L!Next
  <1>6. ASSUME NEW t \in Posters, CheckCall(t) \/ CheckPost(t) \/ CallReturns(t)
        PROVE  UNCHANGED L!vars
    BY <1>6 DEF CheckCall, CheckPost, CallReturns, looperVars, L!vars
  <1>7. ASSUME NEW s \in Stoppers, CheckStop(s) \/ IgnoreStop(s)
        PROVE  UNCHANGED L!vars
    BY <1>7 DEF CheckStop, IgnoreStop, looperVars, L!vars
  <1>8. ASSUME NEW s \in Stoppers, WriteStop(s) PROVE L!Next
    BY <1>8 DEF WriteStop, L!Next
  <1>9. CASE UNCHANGED vars
    BY <1>9 DEF vars, looperVars, L!vars
  <1>10. QED
    BY <1>1, <1>2, <1>3, <1>4, <1>5, <1>6, <1>7, <1>8, <1>9 DEF Next

LEMMA LooperInvariants ==
    Spec => [](L!TypeOK /\ LP!QueueInv /\ LP!PostOrder)
  <1>1. Init => LP!Init
    BY SameInit DEF Init
  <1>2. [Next]_vars => [LP!Next]_LP!vars
    BY SameNext, StepOfLooper
  <1>3. Spec => LP!Spec
    BY <1>1, <1>2, PTL DEF Spec, LP!Spec
  <1>4. LP!Spec => []LP!TypeOK
    BY LooperAssumed, LP!TypeCorrect DEF LP!TypeCorrect
  <1>5. LP!Spec => []LP!QueueInv
    BY LooperAssumed, LP!QueueInvAlways DEF LP!QueueInvAlways
  <1>6. LP!Spec => []LP!PostOrder
    BY LooperAssumed, LP!TasksKeepTheirOrder DEF LP!TasksKeepTheirOrder
  <1>7. QED
    BY <1>3, <1>4, <1>5, <1>6, SameTypeOK, PTL

-----------------------------------------------------------------------------
(* Types, and the registration                                             *)

\* The server's variables keep their types.
THEOREM TypeCorrect == Spec => []TypeOK
  <1> DEFINE Own == /\ runCalled \in BOOLEAN
                    /\ srvStatus \in {"ok", "error"}
                    /\ inited \in BOOLEAN
                    /\ committed \in 0 .. Groups
                    /\ init \in {"none", "running", "returned"}
                    /\ thread \in [Posters -> {"out", "calling", "posting", "waiting"}]
                    /\ calls \subseteq L!Task
                    /\ answered \subseteq calls
                    /\ stopper \in [Stoppers -> {"out", "checked", "ignored", "stopped"}]
  <1>1. Init => Own
    <2> SUFFICES ASSUME Init PROVE Own
      OBVIOUS
    <2>1. committed \in 0 .. Groups
      BY ServerAssumption DEF Init
    <2>2. calls \subseteq L!Task /\ answered \subseteq calls
      BY DEF Init
    <2>3. QED
      BY <2>1, <2>2 DEF Init
  <1>2. L!TypeOK /\ Own /\ [Next]_vars => Own'
    <2> SUFFICES ASSUME L!TypeOK, Own, [Next]_vars PROVE Own'
      OBVIOUS
    <2>1. CASE Run \/ EnterLoop
      BY <2>1 DEF Run, EnterLoop, initVars, callVars
    <2>2. CASE BeginInit \/ SetInited \/ ReadyReturns \/ AcceptFails
      BY <2>2 DEF BeginInit, SetInited, ReadyReturns, AcceptFails, initVars, callVars
    <2>3. CASE CommitGroup
      BY <2>3, ServerAssumption DEF CommitGroup, callVars
    <2>4. CASE RunPosted \/ LoopStep
      BY <2>4 DEF RunPosted, LoopStep, initVars, callVars
    <2>5. ASSUME NEW t \in Posters, CheckCall(t) \/ CheckPost(t) \/ WakeLoop(t)
                                        \/ CallReturns(t)
          PROVE  Own'
      BY <2>5 DEF CheckCall, CheckPost, WakeLoop, CallReturns, initVars
    <2>6. ASSUME NEW t \in Posters, PushTask(t) PROVE Own'
      <3>1. <<t, posted[t] + 1>> \in L!Task
        <4>1. t \in L!Threads /\ posted[t] \in Nat /\ MaxPosts[t] \in Nat
          BY ServerAssumption DEF L!TypeOK, L!Threads
        <4>2. posted[t] + 1 \in 0 .. MaxPosts[t]
          BY <2>6, <4>1 DEF PushTask, L!Push
        <4>3. QED
          BY <4>1, <4>2 DEF L!Task
      <3>2. QED
        BY <2>6, <3>1 DEF PushTask, initVars
    <2>7. ASSUME NEW s \in Stoppers, CheckStop(s) \/ IgnoreStop(s) \/ WriteStop(s)
          PROVE  Own'
      BY <2>7 DEF CheckStop, IgnoreStop, WriteStop, initVars, callVars
    <2>8. CASE UNCHANGED vars
      BY <2>8 DEF vars, initVars, callVars
    <2>9. QED
      BY <2>1, <2>2, <2>3, <2>4, <2>5, <2>6, <2>7, <2>8 DEF Next
  <1>3. L!TypeOK /\ Own <=> TypeOK
    BY DEF TypeOK
  <1>4. QED
    BY <1>1, <1>2, <1>3, LooperInvariants, PTL DEF Spec

\* mInited is set by a registration that was complete and had no error, and
\* whoever passed the test of status() saw it.
InitInv ==
    /\ inited => committed = Groups /\ srvStatus = "ok"
    /\ calls # {} => inited
    /\ \A t \in Posters : thread[t] \in {"calling", "waiting"} => inited

LEMMA InitInvAlways == Spec => []InitInv
  <1>1. Init => InitInv
    BY DEF Init, InitInv
  <1>2. TypeOK /\ InitInv /\ [Next]_vars => InitInv'
    <2> SUFFICES ASSUME TypeOK, InitInv, [Next]_vars PROVE InitInv'
      OBVIOUS
    <2>0. thread \in [Posters -> {"out", "calling", "posting", "waiting"}]
          /\ inited \in BOOLEAN
      BY DEF TypeOK
    <2> USE DEF InitInv
    <2>1. CASE Run \/ EnterLoop
      BY <2>1 DEF Run, EnterLoop, initVars, callVars
    <2>2. CASE BeginInit \/ SetInited \/ ReadyReturns \/ AcceptFails
      BY <2>2 DEF BeginInit, SetInited, ReadyReturns, AcceptFails, initVars, callVars
    <2>3. CASE CommitGroup
      BY <2>3, ServerAssumption DEF CommitGroup, callVars, TypeOK
    <2>4. CASE RunPosted \/ LoopStep
      BY <2>4 DEF RunPosted, LoopStep, initVars, callVars
    <2>5. ASSUME NEW t \in Posters, CheckCall(t) \/ CheckPost(t) PROVE InitInv'
      BY <2>0, <2>5 DEF CheckCall, CheckPost, initVars, StatusIsError
    <2>6. ASSUME NEW t \in Posters, WakeLoop(t) \/ CallReturns(t) PROVE InitInv'
      BY <2>0, <2>6 DEF WakeLoop, CallReturns, initVars
    <2>7. ASSUME NEW t \in Posters, PushTask(t) PROVE InitInv'
      BY <2>0, <2>7 DEF PushTask, initVars
    <2>8. ASSUME NEW s \in Stoppers, CheckStop(s) \/ IgnoreStop(s) \/ WriteStop(s)
          PROVE  InitInv'
      BY <2>8 DEF CheckStop, IgnoreStop, WriteStop, initVars, callVars
    <2>9. CASE UNCHANGED vars
      BY <2>9 DEF vars, initVars, callVars
    <2>10. QED
      BY <2>1, <2>2, <2>3, <2>4, <2>5, <2>6, <2>7, <2>8, <2>9 DEF Next
  <1>3. QED
    BY <1>1, <1>2, TypeCorrect, PTL DEF Spec

\* No call of another thread reaches the loop before every group has been
\* registered.
THEOREM NoCallBeforeInit == Spec => []CallsAfterInit
  <1>1. InitInv => CallsAfterInit
    BY DEF InitInv, CallsAfterInit
  <1>2. QED
    BY <1>1, InitInvAlways, PTL

\* The first failure to register a group is final.
THEOREM FirstFailureIsFinal == Spec => FailureIsFinal
  <1>1. InitInv /\ TypeOK /\ [Next]_vars
            => (srvStatus = "error" =>
                    srvStatus' = "error" /\ ~inited' /\ committed' = committed)
    <2> SUFFICES ASSUME InitInv, TypeOK, [Next]_vars, srvStatus = "error"
                 PROVE  srvStatus' = "error" /\ ~inited' /\ committed' = committed
      OBVIOUS
    <2>0. ~inited
      BY DEF InitInv
    <2>1. UNCHANGED initVars \/ UNCHANGED <<srvStatus, inited, committed>>
      BY DEF Next, Run, EnterLoop, BeginInit, CommitGroup, SetInited, ReadyReturns,
         AcceptFails, RunPosted, LoopStep, CheckCall, CheckPost, PushTask, WakeLoop,
         CallReturns, CheckStop, IgnoreStop, WriteStop, initVars, vars
    <2>2. QED
      BY <2>0, <2>1 DEF initVars
  <1>2. InitInv /\ TypeOK /\ [Next]_vars
            => [srvStatus = "error" =>
                    srvStatus' = "error" /\ ~inited' /\ committed' = committed]_vars
    BY <1>1
  <1>3. QED
    BY <1>2, InitInvAlways, TypeCorrect, PTL DEF Spec, FailureIsFinal

-----------------------------------------------------------------------------
(* The calls of other threads                                              *)

\* Calls are posted by the posters, with numbers they have used, and only a
\* thread inside a method is inside the looper's post().
CallsAreNumbered == \A e \in calls : e[1] \in Posters /\ e[2] <= posted[e[1]]

PushingInMethod ==
    \A t \in Posters : poster[t] = "unlocked" => thread[t] \in {"calling", "posting"}

\* What is queued belongs to a thread in its call and is not answered, and a
\* thread in its call has its task queued or answered.
QueuedIsPending ==
    \A e \in L!Queued \cap calls :
        InCall(e[1]) /\ e[2] = posted[e[1]] /\ e \notin answered

PendingIsQueued ==
    \A t \in Posters :
        InCall(t) => <<t, posted[t]>> \in (L!Queued \cap calls) \cup answered

CallInv ==
    /\ CallsAreNumbered
    /\ PushingInMethod
    /\ QueuedIsPending
    /\ PendingIsQueued

LEMMA CallInvInit == Init => CallInv
  <1> SUFFICES ASSUME Init PROVE CallInv
    OBVIOUS
  <1>1. calls = {} /\ \A t \in Posters : thread[t] = "out" /\ poster[t] = "out"
    BY DEF Init, L!Init
  <1>2. QED
    BY <1>1 DEF CallInv, CallsAreNumbered, PushingInMethod, QueuedIsPending,
       PendingIsQueued, InCall

\* A step that changes neither the calls nor the threads, nor what is queued of
\* the calls, keeps the invariant.
LEMMA QuietStepKeeps ==
    ASSUME TypeOK, CallInv, UNCHANGED <<callVars, poster>>,
           \A t \in Posters : posted'[t] = posted[t],
           \A e \in calls : e \in L!Queued' <=> e \in L!Queued
    PROVE  CallInv'
  <1>1. thread' = thread /\ calls' = calls /\ answered' = answered /\ poster' = poster
    BY DEF callVars
  <1>2. answered \subseteq calls
    BY DEF TypeOK
  <1>3. \A t \in Posters : InCall(t)' <=> InCall(t)
    BY <1>1 DEF InCall
  <1>4. CallsAreNumbered' /\ PushingInMethod'
    BY <1>1 DEF CallInv, CallsAreNumbered, PushingInMethod
  <1>5. QueuedIsPending'
    <2> SUFFICES ASSUME NEW e \in L!Queued' \cap calls
                 PROVE  InCall(e[1])' /\ e[2] = posted'[e[1]] /\ e \notin answered
      BY <1>1 DEF QueuedIsPending
    <2>1. e \in L!Queued \cap calls /\ e[1] \in Posters
      BY DEF CallInv, CallsAreNumbered
    <2>2. QED
      BY <1>3, <2>1 DEF CallInv, QueuedIsPending
  <1>6. PendingIsQueued'
    <2> SUFFICES ASSUME NEW t \in Posters, InCall(t)
                 PROVE  <<t, posted'[t]>> \in (L!Queued' \cap calls) \cup answered
      BY <1>1, <1>3 DEF PendingIsQueued
    <2>1. <<t, posted[t]>> \in (L!Queued \cap calls) \cup answered
      BY DEF CallInv, PendingIsQueued
    <2>2. QED
      BY <2>1
  <1>7. QED
    BY <1>4, <1>5, <1>6 DEF CallInv

\* The push of a task by a thread that has passed its test.
LEMMA PushKeeps ==
    ASSUME TypeOK, L!TypeOK', LP!QueueInv, CallInv, NEW t \in Posters, PushTask(t)
    PROVE  CallInv'
  <1> DEFINE new == <<t, posted[t] + 1>>
  <1>1. L!Queued' = L!Queued \cup {new}
    BY PushQueues DEF PushTask, TypeOK
  <1>2. /\ poster \in [Posters -> {"out", "unlocked"}] /\ poster[t] = "out"
        /\ poster' = [poster EXCEPT ![t] = "unlocked"]
        /\ posted \in [L!Threads -> Nat] /\ t \in L!Threads /\ posted[t] \in Nat
        /\ posted' = [posted EXCEPT ![t] = @ + 1]
        /\ thread' = thread /\ answered' = answered /\ answered \subseteq calls
        /\ thread[t] \in {"calling", "posting"}
        /\ calls' = IF thread[t] = "calling" THEN calls \cup {new} ELSE calls
    BY DEF PushTask, L!Push, TypeOK, L!TypeOK, L!Threads
  <1>3. ~InCall(t) /\ \A u \in Posters \ {t} : InCall(u)' <=> InCall(u)
    BY <1>2 DEF InCall
  <1>4. /\ posted'[t] = posted[t] + 1
        /\ \A u \in Posters \ {t} : posted'[u] = posted[u] /\ poster'[u] = poster[u]
    BY <1>2 DEF L!Threads
  <1>5. new \notin calls
    BY <1>2 DEF CallInv, CallsAreNumbered
  <1>6. CallsAreNumbered'
    <2> SUFFICES ASSUME NEW e \in calls'
                 PROVE  e[1] \in Posters /\ e[2] <= posted'[e[1]]
      BY DEF CallsAreNumbered
    <2>1. CASE e = new
      BY <1>2, <1>4, <2>1
    <2>2. CASE e \in calls
      <3>1. e[1] \in Posters /\ e[2] <= posted[e[1]]
        BY <2>2 DEF CallInv, CallsAreNumbered
      <3>2. e \in L!Task
        BY <2>2 DEF TypeOK
      <3>3. e[2] \in Nat
        <4>1. PICK u \in L!Threads : e \in {u} \X (0 .. MaxPosts[u])
          BY <3>2 DEF L!Task
        <4>2. QED
          BY <4>1
      <3>4. QED
        BY <1>2, <1>4, <3>1, <3>3
    <2>3. QED
      BY <1>2, <2>1, <2>2
  <1>7. PushingInMethod'
    BY <1>2, <1>4 DEF CallInv, PushingInMethod
  <1>8. QueuedIsPending'
    <2> SUFFICES ASSUME NEW e \in L!Queued' \cap calls'
                 PROVE  InCall(e[1])' /\ e[2] = posted'[e[1]] /\ e \notin answered
      BY <1>2 DEF QueuedIsPending
    <2>1. CASE e = new
      <3>1. thread[t] = "calling"
        BY <1>2, <1>5, <2>1
      <3>2. QED
        BY <1>2, <1>4, <1>5, <2>1, <3>1 DEF InCall
    <2>2. CASE e # new
      <3>1. e \in L!Queued \cap calls
        BY <1>1, <1>2, <2>2
      <3>2. InCall(e[1]) /\ e[2] = posted[e[1]] /\ e \notin answered /\ e[1] \in Posters
        BY <3>1 DEF CallInv, QueuedIsPending, CallsAreNumbered
      <3>3. QED
        BY <1>3, <1>4, <3>2
    <2>3. QED
      BY <2>1, <2>2
  <1>9. PendingIsQueued'
    <2> SUFFICES ASSUME NEW u \in Posters, InCall(u)'
                 PROVE  <<u, posted'[u]>> \in (L!Queued' \cap calls') \cup answered
      BY <1>2 DEF PendingIsQueued
    <2>1. CASE u = t
      <3>1. thread[t] = "calling"
        BY <1>2, <2>1 DEF InCall
      <3>2. QED
        BY <1>1, <1>2, <1>4, <2>1, <3>1
    <2>2. CASE u # t
      <3>1. <<u, posted[u]>> \in (L!Queued \cap calls) \cup answered
        BY <1>3, <2>2 DEF CallInv, PendingIsQueued
      <3>2. QED
        BY <1>1, <1>2, <1>4, <2>2, <3>1
    <2>3. QED
      BY <2>1, <2>2
  <1>10. QED
    BY <1>6, <1>7, <1>8, <1>9 DEF CallInv

\* The loop runs a task of another thread: the one that is answered is queued no
\* longer, for it was queued once.
LEMMA RunKeeps ==
    ASSUME TypeOK, LP!PostOrder, CallInv, RunPosted
    PROVE  CallInv'
  <1> DEFINE h == Head(batch)
  <1>1. h \in L!Queued /\ L!Queued' = L!Queued \ {h}
    BY RunUnqueues DEF RunPosted, TypeOK
  <1>2. /\ thread' = thread /\ calls' = calls /\ poster' = poster /\ posted' = posted
        /\ answered' = answered \cup ({h} \cap calls)
    BY DEF RunPosted, L!RunTask
  <1>3. \A t \in Posters : InCall(t)' <=> InCall(t)
    BY <1>2 DEF InCall
  <1>4. CallsAreNumbered' /\ PushingInMethod'
    BY <1>2 DEF CallInv, CallsAreNumbered, PushingInMethod
  <1>5. QueuedIsPending'
    <2> SUFFICES ASSUME NEW e \in L!Queued' \cap calls
                 PROVE  InCall(e[1])' /\ e[2] = posted[e[1]] /\ e \notin answered'
      BY <1>2 DEF QueuedIsPending
    <2>1. e \in L!Queued \cap calls /\ e # h /\ e[1] \in Posters
      BY <1>1 DEF CallInv, CallsAreNumbered
    <2>2. QED
      BY <1>2, <1>3, <2>1 DEF CallInv, QueuedIsPending
  <1>6. PendingIsQueued'
    <2> SUFFICES ASSUME NEW t \in Posters, InCall(t)
                 PROVE  <<t, posted[t]>> \in (L!Queued' \cap calls) \cup answered'
      BY <1>2, <1>3 DEF PendingIsQueued
    <2>1. <<t, posted[t]>> \in (L!Queued \cap calls) \cup answered
      BY DEF CallInv, PendingIsQueued
    <2>2. QED
      BY <1>1, <1>2, <2>1
  <1>7. QED
    BY <1>4, <1>5, <1>6 DEF CallInv

\* A thread that passes a test, or has written the eventfd, is in its call if it
\* was before.
LEMMA PlaceKeeps ==
    ASSUME TypeOK, CallInv, NEW t \in Posters,
           CheckCall(t) \/ CheckPost(t) \/ WakeLoop(t)
    PROVE  CallInv'
  <1>1. /\ poster \in [Posters -> {"out", "unlocked"}]
        /\ thread \in [Posters -> {"out", "calling", "posting", "waiting"}]
    BY DEF TypeOK, L!TypeOK
  <1>2. posted' = posted /\ calls' = calls /\ answered' = answered
        /\ L!Queued' = L!Queued
    BY DEF CheckCall, CheckPost, WakeLoop, L!Wake, looperVars, L!Queued
  <1>3. /\ \A u \in Posters : InCall(u)' <=> InCall(u)
        /\ PushingInMethod'
    <2>1. CASE CheckCall(t) \/ CheckPost(t)
      <3>1. thread[t] = "out" /\ poster' = poster
            /\ \/ thread' = [thread EXCEPT ![t] = "calling"]
               \/ thread' = [thread EXCEPT ![t] = "posting"]
        BY <2>1 DEF CheckCall, CheckPost, looperVars
      <3>2. poster[t] # "unlocked"
        BY <3>1 DEF CallInv, PushingInMethod
      <3>3. QED
        BY <1>1, <3>1, <3>2 DEF InCall, CallInv, PushingInMethod
    <2>2. CASE WakeLoop(t)
      <3>1. /\ poster[t] = "unlocked" /\ poster' = [poster EXCEPT ![t] = "out"]
            /\ thread' = [thread EXCEPT ![t] =
                              IF @ = "calling" THEN "waiting" ELSE "out"]
        BY <2>2 DEF WakeLoop, L!Wake
      <3>2. thread[t] \in {"calling", "posting"}
        BY <3>1 DEF CallInv, PushingInMethod
      <3>3. QED
        BY <1>1, <3>1, <3>2 DEF InCall, CallInv, PushingInMethod
    <2>3. QED
      BY <2>1, <2>2
  <1>4. CallsAreNumbered' /\ QueuedIsPending' /\ PendingIsQueued'
    <2>1. CallsAreNumbered'
      BY <1>2 DEF CallInv, CallsAreNumbered
    <2>2. QueuedIsPending'
      <3> SUFFICES ASSUME NEW e \in L!Queued \cap calls
                   PROVE  InCall(e[1])' /\ e[2] = posted[e[1]] /\ e \notin answered
        BY <1>2 DEF QueuedIsPending
      <3>1. e[1] \in Posters
        BY DEF CallInv, CallsAreNumbered
      <3>2. QED
        BY <1>3, <3>1 DEF CallInv, QueuedIsPending
    <2>3. PendingIsQueued'
      <3> SUFFICES ASSUME NEW u \in Posters, InCall(u)
                   PROVE  <<u, posted[u]>> \in (L!Queued \cap calls) \cup answered
        BY <1>2, <1>3 DEF PendingIsQueued
      <3>1. QED
        BY DEF CallInv, PendingIsQueued
    <2>4. QED
      BY <2>1, <2>2, <2>3
  <1>5. QED
    BY <1>3, <1>4 DEF CallInv

\* A call that returns has nothing queued: its task was answered.
LEMMA ReturnKeeps ==
    ASSUME TypeOK, CallInv, NEW t \in Posters, CallReturns(t)
    PROVE  CallInv'
  <1>1. /\ thread[t] = "waiting" /\ <<t, posted[t]>> \in answered
        /\ thread' = [thread EXCEPT ![t] = "out"]
        /\ posted' = posted /\ calls' = calls /\ answered' = answered
        /\ poster' = poster /\ L!Queued' = L!Queued
    BY DEF CallReturns, looperVars, L!Queued
  <1>2. /\ poster \in [Posters -> {"out", "unlocked"}]
        /\ thread \in [Posters -> {"out", "calling", "posting", "waiting"}]
    BY DEF TypeOK, L!TypeOK
  <1>3. ~InCall(t)' /\ \A u \in Posters \ {t} : InCall(u)' <=> InCall(u)
    BY <1>1, <1>2 DEF InCall
  <1>4. \A e \in L!Queued \cap calls : e[1] # t
    <2> SUFFICES ASSUME NEW e \in L!Queued \cap calls, e[1] = t PROVE FALSE
      OBVIOUS
    <2>1. e[2] = posted[t] /\ e \notin answered
      BY DEF CallInv, QueuedIsPending
    <2>2. e \in L!Task
      BY DEF TypeOK
    <2>3. e = <<e[1], e[2]>>
      <3>1. PICK u \in L!Threads : e \in {u} \X (0 .. MaxPosts[u])
        BY <2>2 DEF L!Task
      <3>2. QED
        BY <3>1
    <2>4. QED
      BY <1>1, <2>1, <2>3
  <1>5. CallsAreNumbered'
    BY <1>1 DEF CallInv, CallsAreNumbered
  <1>6. PushingInMethod'
    BY <1>1, <1>2 DEF CallInv, PushingInMethod
  <1>7. QueuedIsPending'
    <2> SUFFICES ASSUME NEW e \in L!Queued \cap calls
                 PROVE  InCall(e[1])' /\ e[2] = posted[e[1]] /\ e \notin answered
      BY <1>1 DEF QueuedIsPending
    <2>1. e[1] \in Posters \ {t}
      BY <1>4 DEF CallInv, CallsAreNumbered
    <2>2. QED
      BY <1>3, <2>1 DEF CallInv, QueuedIsPending
  <1>8. PendingIsQueued'
    <2> SUFFICES ASSUME NEW u \in Posters, InCall(u)'
                 PROVE  <<u, posted[u]>> \in (L!Queued \cap calls) \cup answered
      BY <1>1 DEF PendingIsQueued
    <2>1. InCall(u)
      BY <1>3
    <2>2. QED
      BY <2>1 DEF CallInv, PendingIsQueued
  <1>9. QED
    BY <1>5, <1>6, <1>7, <1>8 DEF CallInv

LEMMA CallInvKept ==
    ASSUME TypeOK, L!TypeOK', LP!QueueInv, LP!PostOrder, CallInv, [Next]_vars
    PROVE  CallInv'
  <1>0. L!TypeOK /\ \A e \in calls : e[1] # LoopThread
    BY ServerAssumption DEF TypeOK, CallInv, CallsAreNumbered
  <1>00. posted \in [L!Threads -> Nat] /\ Posters \subseteq L!Threads
    BY <1>0 DEF L!TypeOK, L!Threads
  <1>1. CASE Run
    <2>1. UNCHANGED <<callVars, poster, posted, tasks, batch>>
      BY <1>1 DEF Run, L!OnReady
    <2>2. QED
      BY <2>1, QuietStepKeeps DEF L!Queued
  <1>2. CASE EnterLoop \/ AcceptFails \/ LoopStep
    <2>1. /\ UNCHANGED <<callVars, poster>>
          /\ L!RunFails \/ L!RunEnters \/ L!DispatchExit \/ L!DispatchWake
                 \/ L!TakeTasks \/ L!BatchDone \/ L!LoopPost \/ L!DispatchAccept
      BY <1>2 DEF EnterLoop, AcceptFails, LoopStep, L!RunFails, L!RunEnters,
         L!DispatchExit, L!DispatchWake, L!TakeTasks, L!BatchDone, L!LoopPost,
         L!DispatchAccept
    <2>2. posted' = posted \/ posted' = [posted EXCEPT ![LoopThread] = @ + 1]
      BY <2>1 DEF L!RunFails, L!RunEnters, L!DispatchExit, L!DispatchWake,
         L!TakeTasks, L!BatchDone, L!LoopPost, L!DispatchAccept
    <2>3. \A t \in Posters : posted'[t] = posted[t]
      BY <1>00, <2>2, ServerAssumption
    <2>4. \A e \in calls : e \in L!Queued' <=> e \in L!Queued
      BY <1>0, <2>1, LoopQueues
    <2>5. QED
      BY <2>1, <2>3, <2>4, QuietStepKeeps
  <1>3. CASE BeginInit \/ CommitGroup \/ SetInited
    <2>1. UNCHANGED <<callVars, poster, posted, tasks, batch>>
      BY <1>3 DEF BeginInit, CommitGroup, SetInited, looperVars
    <2>2. QED
      BY <2>1, QuietStepKeeps DEF L!Queued
  <1>4. CASE ReadyReturns
    <2>1. UNCHANGED <<callVars, poster, posted>>
      BY <1>4 DEF ReadyReturns, L!RunTask, L!DispatchAccept
    <2>2. \A e \in calls : e \in L!Queued' <=> e \in L!Queued
      <3>1. CASE L!DispatchAccept
        BY <1>0, <3>1, LoopQueues
      <3>2. CASE L!RunTask /\ Head(batch) = L!ReadyTask
        <4>1. L!Queued' = L!Queued \ {L!ReadyTask}
          BY <1>0, <3>2, RunUnqueues
        <4>2. QED
          BY <1>0, <4>1 DEF L!ReadyTask
      <3>3. QED
        BY <1>4, <3>1, <3>2 DEF ReadyReturns
    <2>3. QED
      BY <2>1, <2>2, QuietStepKeeps
  <1>5. CASE RunPosted
    BY <1>5, RunKeeps
  <1>6. ASSUME NEW t \in Posters, CheckCall(t) \/ CheckPost(t) \/ WakeLoop(t)
        PROVE  CallInv'
    BY <1>6, PlaceKeeps
  <1>7. ASSUME NEW t \in Posters, PushTask(t) PROVE CallInv'
    BY <1>7, PushKeeps
  <1>8. ASSUME NEW t \in Posters, CallReturns(t) PROVE CallInv'
    BY <1>8, ReturnKeeps
  <1>9. ASSUME NEW s \in Stoppers, CheckStop(s) \/ IgnoreStop(s) \/ WriteStop(s)
        PROVE  CallInv'
    <2>1. UNCHANGED <<callVars, poster, posted, tasks, batch>>
      BY <1>9 DEF CheckStop, IgnoreStop, WriteStop, L!Stop, looperVars
    <2>2. QED
      BY <2>1, QuietStepKeeps DEF L!Queued
  <1>10. CASE UNCHANGED vars
    <2>1. UNCHANGED <<callVars, poster, posted, tasks, batch>>
      BY <1>10 DEF vars, looperVars
    <2>2. QED
      BY <2>1, QuietStepKeeps DEF L!Queued
  <1>11. QED
    BY <1>1, <1>2, <1>3, <1>4, <1>5, <1>6, <1>7, <1>8, <1>9, <1>10 DEF Next

LEMMA CallInvAlways == Spec => []CallInv
  <1>1. TypeOK /\ (L!TypeOK /\ LP!QueueInv /\ LP!PostOrder)
            /\ (L!TypeOK /\ LP!QueueInv /\ LP!PostOrder)' /\ CallInv /\ [Next]_vars
            => CallInv'
    BY CallInvKept
  <1>2. QED
    BY <1>1, CallInvInit, TypeCorrect, LooperInvariants, PTL DEF Spec

\* A queued task that refers to its caller's stack has its caller in the call,
\* and its promise is not set yet.
THEOREM PromiseOutlivesTask == Spec => []PromiseIsAlive
  <1>1. CallInv => PromiseIsAlive
    BY DEF CallInv, QueuedIsPending, InCall, PromiseIsAlive
  <1>2. QED
    BY <1>1, CallInvAlways, PTL

\* Whoever blocks on a call has its task queued or its answer.
THEOREM NoCallIsLost == Spec => []WaiterIsServed
  <1>1. CallInv => WaiterIsServed
    BY DEF CallInv, PendingIsQueued, InCall, WaiterIsServed
  <1>2. QED
    BY <1>1, CallInvAlways, PTL

-----------------------------------------------------------------------------
(* The server is an atomic service                                         *)

\* The calls that the loop has run are those whose promise it has set.
RanIsAnswered == Range(ran) \cap calls = answered

\* The task of a new call has not run: its number is a new one.
LEMMA NewNotRun ==
    ASSUME TypeOK, LP!QueueInv, NEW t \in Posters
    PROVE  <<t, posted[t] + 1>> \notin Range(ran)
  <1> DEFINE new == <<t, posted[t] + 1>>
  <1>1. /\ ran \in Seq(L!Task) /\ batch \in Seq(L!Task) /\ tasks \in Seq(L!Task)
        /\ t \in L!Threads /\ posted[t] \in Nat
    BY DEF TypeOK, L!TypeOK, L!Threads
  <1>2. Range(ran) \subseteq Range(ran \o batch \o tasks)
    <2>1. ran \o batch \in Seq(L!Task)
      BY <1>1, ConcatProperties
    <2>2. Range(ran \o batch) = Range(ran) \cup Range(batch)
      BY <1>1, RangeConcat
    <2>3. Range(ran \o batch \o tasks) = Range(ran \o batch) \cup Range(tasks)
      BY <1>1, <2>1, RangeConcat
    <2>4. QED
      BY <2>2, <2>3
  <1>3. \A e \in Range(ran \o batch \o tasks) : e[2] <= posted[e[1]]
    BY DEF LP!QueueInv, LP!NumbersUsed, LP!History, LP!Range, Range
  <1>4. new \in Range(ran) => posted[t] + 1 <= posted[t]
    BY <1>2, <1>3
  <1>5. QED
    BY <1>1, <1>4

\* A task of the loop adds itself to those that ran.
LEMMA RunAddsHead ==
    ASSUME TypeOK, L!RunTask
    PROVE  Range(ran') = Range(ran) \cup {Head(batch)}
  <1>1. /\ ran \in Seq(L!Task) /\ batch \in Seq(L!Task) /\ batch # <<>>
        /\ ran' = Append(ran, Head(batch))
    BY DEF TypeOK, L!TypeOK, L!RunTask
  <1>2. Head(batch) \in L!Task
    BY <1>1, HeadTailProperties
  <1>3. QED
    BY <1>1, <1>2, RangeAppend

\* The ready callback is the loop thread's task and no call.
LEMMA ReadyIsNoCall ==
    ASSUME CallInv
    PROVE  L!ReadyTask \notin calls
  <1>1. \A e \in calls : e[1] # LoopThread
    BY ServerAssumption DEF CallInv, CallsAreNumbered
  <1>2. QED
    BY <1>1 DEF L!ReadyTask

\* A step of the ready callback runs no call.
LEMMA ReadyRunsNoCall ==
    ASSUME TypeOK, CallInv, ReadyReturns
    PROVE  Range(ran') \cap calls = Range(ran) \cap calls
  <1>1. CASE L!RunTask /\ Head(batch) = L!ReadyTask
    BY <1>1, RunAddsHead, ReadyIsNoCall
  <1>2. CASE L!DispatchAccept
    BY <1>2 DEF L!DispatchAccept
  <1>3. QED
    BY <1>1, <1>2 DEF ReadyReturns

LEMMA RanIsAnsweredKept ==
    ASSUME TypeOK, LP!QueueInv, CallInv, RanIsAnswered, [Next]_vars
    PROVE  RanIsAnswered'
  <1> USE DEF RanIsAnswered
  <1>1. CASE Run \/ EnterLoop
    BY <1>1 DEF Run, EnterLoop, callVars, L!OnReady, L!RunFails, L!RunEnters
  <1>2. CASE BeginInit \/ CommitGroup \/ SetInited
    BY <1>2 DEF BeginInit, CommitGroup, SetInited, callVars, looperVars
  <1>3. CASE ReadyReturns
    BY <1>3, ReadyRunsNoCall DEF ReadyReturns, callVars
  <1>4. CASE AcceptFails \/ LoopStep
    BY <1>4 DEF AcceptFails, LoopStep, callVars, L!DispatchAccept, L!DispatchExit,
       L!DispatchWake, L!TakeTasks, L!BatchDone, L!LoopPost
  <1>5. CASE RunPosted
    <2>1. /\ Range(ran') = Range(ran) \cup {Head(batch)} /\ calls' = calls
          /\ answered' = answered \cup ({Head(batch)} \cap calls)
      BY <1>5, RunAddsHead DEF RunPosted
    <2>2. QED
      BY <2>1
  <1>6. ASSUME NEW t \in Posters, PushTask(t) PROVE RanIsAnswered'
    <2>1. /\ ran' = ran /\ answered' = answered
          /\ calls' \in {calls, calls \cup {<<t, posted[t] + 1>>}}
      BY <1>6 DEF PushTask, L!Push
    <2>2. QED
      BY <2>1, NewNotRun
  <1>7. ASSUME NEW t \in Posters,
               CheckCall(t) \/ CheckPost(t) \/ WakeLoop(t) \/ CallReturns(t)
        PROVE  RanIsAnswered'
    BY <1>7 DEF CheckCall, CheckPost, WakeLoop, CallReturns, L!Wake, looperVars
  <1>8. ASSUME NEW s \in Stoppers, CheckStop(s) \/ IgnoreStop(s) \/ WriteStop(s)
        PROVE  RanIsAnswered'
    BY <1>8 DEF CheckStop, IgnoreStop, WriteStop, L!Stop, looperVars, callVars
  <1>9. CASE UNCHANGED vars
    BY <1>9 DEF vars, looperVars, callVars
  <1>10. QED
    BY <1>1, <1>2, <1>3, <1>4, <1>5, <1>6, <1>7, <1>8, <1>9 DEF Next

LEMMA RanIsAnsweredAlways == Spec => []RanIsAnswered
  <1>1. Init => RanIsAnswered
    BY DEF Init, RanIsAnswered
  <1>2. TypeOK /\ (L!TypeOK /\ LP!QueueInv /\ LP!PostOrder) /\ CallInv
            /\ RanIsAnswered /\ [Next]_vars => RanIsAnswered'
    BY RanIsAnsweredKept
  <1>3. QED
    BY <1>1, <1>2, TypeCorrect, LooperInvariants, CallInvAlways, PTL DEF Spec

\* The server's variables as the service sees them.
Places == [t \in Posters |-> Place(t)]
Served == Range(ran) \cap calls
Registered == inited /\ committed = Groups /\ srvStatus = "ok"
Ended == loop = "returned"

\* Where nothing is done about the calls, they stand where they stood.
LEMMA QuietPlaces ==
    ASSUME UNCHANGED <<callVars, poster>>, \A t \in Posters : posted'[t] = posted[t]
    PROVE  Places' = Places
  <1>1. \A t \in Posters : Place(t)' = Place(t)
    BY DEF Place, InCall, callVars
  <1>2. QED
    BY <1>1 DEF Places

\* A registration that is complete stays so.
LEMMA RegisteredStays ==
    ASSUME TypeOK, InitInv, [Next]_vars, ~SetInited
    PROVE  Registered' <=> Registered
  <1>1. CASE CommitGroup
    <2>1. committed \in Nat /\ ~Registered /\ inited' = inited /\ ~inited
      BY <1>1, ServerAssumption DEF CommitGroup, TypeOK, Registered, InitInv
    <2>2. QED
      BY <2>1 DEF Registered
  <1>2. CASE ~CommitGroup
    <2>1. UNCHANGED <<srvStatus, inited, committed>>
      BY <1>2 DEF Next, Run, EnterLoop, BeginInit, ReadyReturns, AcceptFails, RunPosted,
         LoopStep, CheckCall, CheckPost, PushTask, WakeLoop, CallReturns, CheckStop,
         IgnoreStop, WriteStop, initVars, vars
    <2>2. QED
      BY <2>1 DEF Registered
  <1>3. QED
    BY <1>1, <1>2

\* The loop executes a call: its caller is in that call and gets the answer.
LEMMA RunServes ==
    ASSUME TypeOK, L!TypeOK', LP!PostOrder, InitInv, CallInv, RanIsAnswered, RunPosted,
           NEW h \in calls, h = Head(batch), NEW c, c = h[1]
    PROVE  /\ c \in Posters
           /\ Registered /\ ~Ended /\ ~Ended'
           /\ Places[c] = "asked"
           /\ Places' = [Places EXCEPT ![c] = "done"]
           /\ h \in L!Task \ Served /\ Served' = Served \cup {h}
  <1>1. h \in L!Queued /\ h \in calls
    BY RunUnqueues DEF RunPosted, TypeOK
  <1>2. /\ c \in Posters /\ InCall(c) /\ h[2] = posted[c] /\ h \notin answered
        /\ h \in L!Task
    BY <1>1 DEF CallInv, QueuedIsPending, CallsAreNumbered, TypeOK
  <1>3. h = <<c, posted[c]>>
    <2>1. PICK u \in L!Threads : h \in {u} \X (0 .. MaxPosts[u])
      BY <1>2 DEF L!Task
    <2>2. QED
      BY <1>2, <2>1
  <1>4. /\ thread' = thread /\ calls' = calls /\ poster' = poster /\ posted' = posted
        /\ answered' = answered \cup {h}
        /\ loop = "running" /\ loop' = "running"
    BY <1>1 DEF RunPosted, L!RunTask
  <1>5. Range(ran') = Range(ran) \cup {h}
    BY RunAddsHead DEF RunPosted
  <1>6. Registered /\ ~Ended /\ ~Ended'
    BY <1>1, <1>4 DEF InitInv, Registered, Ended
  <1>7. Place(c) = "asked" /\ Place(c)' = "done"
    <2>1. thread[c] \notin {"out", "posting"}
      BY <1>2 DEF InCall
    <2>2. InCall(c)'
      BY <1>2, <1>4 DEF InCall
    <2>3. QED
      BY <1>2, <1>3, <1>4, <2>1, <2>2 DEF Place
  <1>8. \A u \in Posters \ {c} : Place(u)' = Place(u)
    <2> SUFFICES ASSUME NEW u \in Posters \ {c} PROVE Place(u)' = Place(u)
      OBVIOUS
    <2>1. <<u, posted[u]>> \in answered' <=> <<u, posted[u]>> \in answered
      BY <1>3, <1>4
    <2>2. QED
      BY <1>4, <2>1 DEF Place, InCall
  <1>9. Served' = Served \cup {h} /\ h \notin Served
    BY <1>1, <1>2, <1>4, <1>5 DEF Served, RanIsAnswered
  <1>10. Places' = [Places EXCEPT ![c] = "done"] /\ Places[c] = "asked"
    BY <1>2, <1>7, <1>8 DEF Places
  <1>11. QED
    BY <1>2, <1>6, <1>9, <1>10

\* The steps of the threads that call, one by one: a test that is passed invokes the
\* service, the push and the wake-up stutter, and the return is the service's.
LEMMA CallerSteps ==
    ASSUME TypeOK, LP!QueueInv, InitInv, CallInv, NEW t \in Posters,
           CheckCall(t) \/ CheckPost(t) \/ PushTask(t) \/ WakeLoop(t) \/ CallReturns(t)
    PROVE  /\ Served' = Served /\ (Ended' <=> Ended)
           /\ \/ Places' = Places
              \/ /\ Registered /\ Places[t] = "idle"
                 /\ Places' = [Places EXCEPT ![t] = "asked"]
              \/ /\ Places[t] = "done"
                 /\ Places' = [Places EXCEPT ![t] = "idle"]
  <1>0. /\ thread \in [Posters -> {"out", "calling", "posting", "waiting"}]
        /\ poster \in [Posters -> {"out", "unlocked"}]
        /\ posted \in [L!Threads -> Nat] /\ t \in L!Threads /\ Posters \subseteq L!Threads
        /\ answered \subseteq calls
    BY DEF TypeOK, L!TypeOK, L!Threads
  <1>1. ran' = ran /\ loop' = loop /\ answered' = answered
    BY DEF CheckCall, CheckPost, PushTask, WakeLoop, CallReturns, L!Push, L!Wake,
       looperVars
  <1>2. Served' = Served
    <2>1. calls' \in {calls, calls \cup {<<t, posted[t] + 1>>}}
      BY DEF CheckCall, CheckPost, PushTask, WakeLoop, CallReturns
    <2>2. QED
      BY <1>1, <2>1, NewNotRun DEF Served
  <1>3. \A u \in Posters \ {t} : Place(u)' = Place(u)
    <2> SUFFICES ASSUME NEW u \in Posters \ {t} PROVE Place(u)' = Place(u)
      OBVIOUS
    <2>1. thread'[u] = thread[u] /\ poster'[u] = poster[u] /\ posted'[u] = posted[u]
      BY <1>0 DEF CheckCall, CheckPost, PushTask, WakeLoop, CallReturns, L!Push, L!Wake,
         looperVars
    <2>2. QED
      BY <1>1, <2>1 DEF Place, InCall
  <1>4. CASE CheckCall(t)
    <2>1. thread[t] = "out" /\ thread'[t] = "calling" /\ poster' = poster
      BY <1>0, <1>4 DEF CheckCall, looperVars
    <2>2. poster[t] # "unlocked"
      BY <2>1 DEF CallInv, PushingInMethod
    <2>3. Place(t) = "idle" /\ Place(t)' = "asked"
      BY <2>1, <2>2 DEF Place, InCall
    <2>4. Registered
      BY <1>4 DEF CheckCall, StatusIsError, InitInv, Registered, TypeOK
    <2>5. Places[t] = "idle" /\ Places' = [Places EXCEPT ![t] = "asked"]
      BY <1>3, <2>3 DEF Places
    <2>6. QED
      BY <1>1, <1>2, <2>4, <2>5 DEF Ended
  <1>5. CASE CheckPost(t)
    <2>1. thread[t] = "out" /\ thread'[t] = "posting"
      BY <1>0, <1>5 DEF CheckPost
    <2>2. Place(t) = "idle" /\ Place(t)' = "idle"
      BY <2>1 DEF Place, InCall
    <2>3. QED
      BY <1>1, <1>2, <1>3, <2>2 DEF Places, Ended
  <1>6. CASE PushTask(t)
    <2>1. /\ thread' = thread /\ thread[t] \in {"calling", "posting"}
          /\ poster[t] = "out" /\ posted'[t] = posted[t] + 1
      BY <1>0, <1>6 DEF PushTask, L!Push
    <2>2. <<t, posted[t] + 1>> \notin answered
      <3>1. <<t, posted[t] + 1>> \notin calls
        BY <1>0 DEF CallInv, CallsAreNumbered
      <3>2. QED
        BY <1>0, <3>1
    <2>3. Place(t)' = Place(t)
      BY <1>1, <2>1, <2>2 DEF Place, InCall
    <2>4. QED
      BY <1>1, <1>2, <1>3, <2>3 DEF Places, Ended
  <1>7. CASE WakeLoop(t)
    <2>1. /\ poster[t] = "unlocked" /\ posted' = posted
          /\ thread'[t] = IF thread[t] = "calling" THEN "waiting" ELSE "out"
      BY <1>0, <1>7 DEF WakeLoop, L!Wake
    <2>2. thread[t] \in {"calling", "posting"}
      BY <2>1 DEF CallInv, PushingInMethod
    <2>3. Place(t)' = Place(t)
      BY <1>1, <2>1, <2>2 DEF Place, InCall
    <2>4. QED
      BY <1>1, <1>2, <1>3, <2>3 DEF Places, Ended
  <1>8. CASE CallReturns(t)
    <2>1. Place(t) = "done" /\ Place(t)' = "idle"
      BY <1>0, <1>8 DEF CallReturns, Place, InCall
    <2>2. Places[t] = "done" /\ Places' = [Places EXCEPT ![t] = "idle"]
      BY <1>3, <2>1 DEF Places
    <2>3. QED
      BY <1>1, <1>2, <2>2 DEF Ended
  <1>9. QED
    BY <1>4, <1>5, <1>6, <1>7, <1>8

\* The other steps leave the calls alone. The loop ends, or the registration is complete,
\* or nothing changes that the service knows of.
LEMMA OtherSteps ==
    ASSUME TypeOK, InitInv, CallInv,
           \/ Run \/ EnterLoop \/ BeginInit \/ CommitGroup \/ SetInited \/ ReadyReturns
           \/ AcceptFails \/ LoopStep
           \/ (RunPosted /\ Head(batch) \notin calls)
           \/ \E s \in Stoppers : CheckStop(s) \/ IgnoreStop(s) \/ WriteStop(s)
           \/ UNCHANGED vars
    PROVE  /\ Places' = Places /\ Served' = Served
           /\ \/ Ended' <=> Ended
              \/ ~SetInited /\ ~Ended /\ Ended'
  <1>0. posted \in [L!Threads -> Nat] /\ Posters \subseteq L!Threads
    BY DEF TypeOK, L!TypeOK, L!Threads
  <1>1. CASE Run \/ BeginInit \/ CommitGroup \/ SetInited \/ UNCHANGED vars
             \/ \E s \in Stoppers : CheckStop(s) \/ IgnoreStop(s) \/ WriteStop(s)
    <2>1. UNCHANGED <<callVars, poster, posted, ran, loop>>
      BY <1>1 DEF Run, BeginInit, CommitGroup, SetInited, CheckStop, IgnoreStop,
         WriteStop, L!OnReady, L!Stop, looperVars, vars
    <2>2. QED
      BY <2>1, QuietPlaces DEF Served, Ended, callVars
  <1>2. CASE EnterLoop \/ LoopStep
    <2>1. /\ UNCHANGED <<callVars, poster, ran>>
          /\ posted' = posted \/ posted' = [posted EXCEPT ![LoopThread] = @ + 1]
          /\ loop # "returned" /\ ~SetInited
      BY <1>2 DEF EnterLoop, LoopStep, SetInited, initVars, L!RunFails, L!RunEnters,
         L!DispatchExit, L!DispatchWake, L!TakeTasks, L!BatchDone, L!LoopPost
    <2>2. \A t \in Posters : posted'[t] = posted[t]
      BY <1>0, <2>1, ServerAssumption
    <2>3. QED
      BY <2>1, <2>2, QuietPlaces DEF Served, Ended, callVars
  <1>3. CASE ReadyReturns \/ AcceptFails
    <2>1. UNCHANGED <<callVars, poster, posted, loop>>
      BY <1>3 DEF ReadyReturns, AcceptFails, L!RunTask, L!DispatchAccept
    <2>2. Served' = Served
      BY <1>3, <2>1, ReadyRunsNoCall
         DEF Served, AcceptFails, L!DispatchAccept, callVars
    <2>3. QED
      BY <2>1, <2>2, QuietPlaces DEF Ended
  <1>4. CASE RunPosted /\ Head(batch) \notin calls
    <2>1. UNCHANGED <<callVars, poster, posted, loop>>
      BY <1>4 DEF RunPosted, L!RunTask, callVars
    <2>2. Served' = Served
      BY <1>4, <2>1, RunAddsHead DEF Served, RunPosted, callVars
    <2>3. QED
      BY <2>1, <2>2, QuietPlaces DEF Ended
  <1>5. QED
    BY <1>1, <1>2, <1>3, <1>4

\* Every call is executed once, on the loop, between its invocation and its return, with
\* the whole interface registered and the loop alive.
THEOREM ServerIsService == Spec => ImplementsService
  <1> USE DEF Places, Served, Registered, Ended
  <1>1. Init => Promised!Init
    <2> SUFFICES ASSUME Init PROVE Promised!Init
      OBVIOUS
    <2>1. \A t \in Posters : Place(t) = "idle"
      BY DEF Init, Place
    <2>2. QED
      BY <2>1 DEF Init, L!Init, Promised!Init
  <1>2. TypeOK /\ (L!TypeOK /\ LP!QueueInv /\ LP!PostOrder)
            /\ (L!TypeOK /\ LP!QueueInv /\ LP!PostOrder)' /\ InitInv /\ CallInv
            /\ RanIsAnswered /\ [Next]_vars
            => [Promised!Next]_Promised!vars
    <2> SUFFICES ASSUME TypeOK, L!TypeOK', LP!QueueInv, LP!PostOrder, InitInv, CallInv,
                        RanIsAnswered, [Next]_vars
                 PROVE  Promised!Next \/ UNCHANGED Promised!vars
      OBVIOUS
    <2>1. CASE RunPosted /\ Head(batch) \in calls
      <3>1. PICK k \in calls : k = Head(batch)
        BY <2>1
      <3>2. PICK c : c = k[1]
        OBVIOUS
      <3>3. /\ c \in Posters
            /\ Registered /\ ~Ended /\ ~Ended'
            /\ Places[c] = "asked"
            /\ Places' = [Places EXCEPT ![c] = "done"]
            /\ k \in L!Task \ Served /\ Served' = Served \cup {k}
        BY <2>1, <3>1, <3>2, RunServes
      <3>4. ~SetInited
        BY <2>1 DEF RunPosted, SetInited, initVars, L!RunTask
      <3>5. Registered'
        BY <3>3, <3>4, RegisteredStays
      <3>6. Promised!Execute(c)
        BY <3>2, <3>3, <3>5 DEF Promised!Execute
      <3>7. QED
        BY <3>3, <3>6 DEF Promised!Next
    <2>2. ASSUME NEW t \in Posters,
                 CheckCall(t) \/ CheckPost(t) \/ PushTask(t) \/ WakeLoop(t)
                     \/ CallReturns(t)
          PROVE  Promised!Next \/ UNCHANGED Promised!vars
      <3>1. ~SetInited
        BY <2>2 DEF CheckCall, CheckPost, PushTask, WakeLoop, CallReturns, SetInited,
           initVars
      <3>2. Registered' <=> Registered
        BY <3>1, RegisteredStays
      <3>3. Promised!Invoke(t) \/ Promised!Return(t) \/ UNCHANGED Promised!vars
        BY <2>2, <3>2, CallerSteps DEF Promised!Invoke, Promised!Return, Promised!vars
      <3>4. QED
        BY <3>3 DEF Promised!Next
    <2>3. CASE \/ Run \/ EnterLoop \/ BeginInit \/ CommitGroup \/ SetInited
               \/ ReadyReturns \/ AcceptFails \/ LoopStep
               \/ (RunPosted /\ Head(batch) \notin calls)
               \/ \E s \in Stoppers : CheckStop(s) \/ IgnoreStop(s) \/ WriteStop(s)
               \/ UNCHANGED vars
      <3>1. /\ Places' = Places /\ Served' = Served
            /\ \/ Ended' <=> Ended
               \/ ~SetInited /\ ~Ended /\ Ended'
        BY <2>3, OtherSteps
      <3>2. CASE SetInited
        <4>1. ~Registered /\ Registered' /\ (Ended' <=> Ended)
          BY <3>1, <3>2 DEF SetInited
        <4>2. Promised!Open
          BY <3>1, <4>1 DEF Promised!Open
        <4>3. QED
          BY <4>2 DEF Promised!Next
      <3>3. CASE ~SetInited
        <4>1. Registered' <=> Registered
          BY <3>3, RegisteredStays
        <4>2. Promised!Close \/ UNCHANGED Promised!vars
          BY <3>1, <4>1 DEF Promised!Close, Promised!vars
        <4>3. QED
          BY <4>2 DEF Promised!Next
      <3>4. QED
        BY <3>2, <3>3
    <2>4. QED
      BY <2>1, <2>2, <2>3 DEF Next
  <1>3. QED
    BY <1>1, <1>2, TypeCorrect, LooperInvariants, InitInvAlways, CallInvAlways,
       RanIsAnsweredAlways, PTL DEF Spec, ImplementsService, Promised!Spec
=============================================================================
