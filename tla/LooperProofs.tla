---------------------------- MODULE LooperProofs ----------------------------
(***************************************************************************)
(* Theorems about module Looper, for every set of posters and every bound. *)
(***************************************************************************)
EXTENDS Looper, SeqLemmas

LEMMA TaskPair ==
    ASSUME NEW t \in Threads, NEW n \in 0 .. MaxPosts[t]
    PROVE  <<t, n>> \in Task
  BY DEF Task

LEMMA ReadyIsTask == ReadyTask \in Task
  <1>1. LoopThread \in Threads /\ 0 \in 0 .. MaxPosts[LoopThread]
    BY LooperAssumption DEF Threads
  <1>2. QED
    BY <1>1, TaskPair DEF ReadyTask

\* The looper's variables keep their types.
THEOREM TypeCorrect == Spec => []TypeOK
  <1>1. Init => TypeOK
    BY LooperAssumption, EmptySeq, SMT DEF Init, TypeOK, LoopPlace, Threads
  <1>2. TypeOK /\ [Next]_vars => TypeOK'
    <2> SUFFICES ASSUME TypeOK, [Next]_vars PROVE TypeOK'
      OBVIOUS
    <2> USE DEF TypeOK, LoopPlace
    <2>1. ASSUME NEW p \in Posters, Push(p) PROVE TypeOK'
      <3>0. p \in Threads
        BY DEF Threads
      <3>1. posted[p] + 1 \in 0 .. MaxPosts[p]
        <4>1. posted[p] \in Nat /\ MaxPosts[p] \in Nat
          BY <3>0, LooperAssumption DEF Threads
        <4>2. QED
          BY <2>1, <4>1 DEF Push
      <3>2. <<p, posted[p] + 1>> \in Task
        BY <3>0, <3>1, TaskPair
      <3>3. tasks' \in Seq(Task)
        <4>1. Append(tasks, <<p, posted[p] + 1>>) \in Seq(Task)
          BY <3>2, AppendProperties
        <4>2. QED
          BY <2>1, <4>1 DEF Push
      <3>4. QED
        BY <2>1, <3>0, <3>3 DEF Push
    <2>2. ASSUME NEW p \in Posters, Wake(p) PROVE TypeOK'
      BY <2>2 DEF Wake
    <2>3. CASE Stop \/ OnReady
      BY <2>3, LooperAssumption DEF Stop, OnReady
    <2>4. CASE RunFails
      BY <2>4 DEF RunFails
    <2>5. CASE RunEnters
      <3>1. tasks' \in Seq(Task)
        <4>1. Append(tasks, ReadyTask) \in Seq(Task)
          BY ReadyIsTask, AppendProperties
        <4>2. QED
          BY <2>5, <4>1 DEF RunEnters
      <3>2. QED
        BY <2>5, <3>1 DEF RunEnters
    <2>6. CASE DispatchExit
      BY <2>6, LooperAssumption DEF DispatchExit
    <2>7. CASE DispatchWake
      BY <2>7 DEF DispatchWake
    <2>8. CASE TakeTasks
      BY <2>8, EmptySeq DEF TakeTasks
    <2>9. CASE RunTask
      <3>1. Head(batch) \in Task /\ Tail(batch) \in Seq(Task)
        BY <2>9, HeadTailProperties DEF RunTask
      <3>2. ran' \in Seq(Task)
        <4>1. Append(ran, Head(batch)) \in Seq(Task)
          BY <3>1, AppendProperties
        <4>2. QED
          BY <2>9, <4>1 DEF RunTask
      <3>3. QED
        BY <2>9, <3>1, <3>2 DEF RunTask
    <2>10. CASE BatchDone
      BY <2>10 DEF BatchDone
    <2>11. CASE LoopPost
      <3>1. /\ LoopThread \in Threads
            /\ posted[LoopThread] + 1 \in 0 .. MaxPosts[LoopThread]
        BY <2>11, LooperAssumption DEF LoopPost, Threads
      <3>2. <<LoopThread, posted[LoopThread] + 1>> \in Task
        BY <3>1, TaskPair
      <3>3. tasks' \in Seq(Task)
        <4>1. Append(tasks, <<LoopThread, posted[LoopThread] + 1>>) \in Seq(Task)
          BY <3>2, AppendProperties
        <4>2. QED
          BY <2>11, <4>1 DEF LoopPost
      <3>4. QED
        BY <2>11, <3>1, <3>3 DEF LoopPost
    <2>12. CASE DispatchAccept
      BY <2>12 DEF DispatchAccept
    <2>13. CASE UNCHANGED vars
      BY <2>13 DEF vars
    <2>14. QED
      BY <2>1, <2>2, <2>3, <2>4, <2>5, <2>6, <2>7, <2>8, <2>9, <2>10, <2>11,
         <2>12, <2>13 DEF Next
  <1>3. QED
    BY <1>1, <1>2, PTL DEF Spec

-----------------------------------------------------------------------------
\* While the loop lives, a queued task has its wake-up call on the way: a step
\* that takes one of the three kinds away (Wake, DispatchWake, TakeTasks) puts
\* another in its place or empties the queue.
THEOREM NoWakeupIsLost == Spec => []NoLostWakeup
  <1>1. Init => NoLostWakeup
    BY DEF Init, NoLostWakeup
  <1>2. TypeOK /\ NoLostWakeup /\ [Next]_vars => NoLostWakeup'
    <2> SUFFICES ASSUME TypeOK, NoLostWakeup, [Next]_vars PROVE NoLostWakeup'
      OBVIOUS
    <2>0. /\ wakeFd \in Nat
          /\ poster \in [Posters -> {"out", "unlocked"}]
      BY DEF TypeOK
    <2> USE DEF NoLostWakeup
    <2>1. ASSUME NEW p \in Posters, Push(p) PROVE NoLostWakeup'
      <3>1. poster'[p] = "unlocked"
        BY <2>0, <2>1 DEF Push
      <3>2. QED
        BY <3>1
    <2>2. ASSUME NEW p \in Posters, Wake(p) PROVE NoLostWakeup'
      BY <2>0, <2>2 DEF Wake
    <2>3. CASE Stop \/ OnReady
      BY <2>3 DEF Stop, OnReady
    <2>4. CASE RunFails
      BY <2>4 DEF RunFails
    <2>5. CASE RunEnters
      BY <2>0, <2>5 DEF RunEnters
    <2>6. CASE DispatchExit
      BY <2>6 DEF DispatchExit
    <2>7. CASE DispatchWake
      BY <2>7 DEF DispatchWake
    <2>8. CASE TakeTasks
      BY <2>8 DEF TakeTasks
    <2>9. CASE RunTask
      BY <2>9 DEF RunTask
    <2>10. CASE BatchDone
      BY <2>10 DEF BatchDone
    <2>11. CASE LoopPost
      BY <2>0, <2>11 DEF LoopPost
    <2>12. CASE DispatchAccept
      BY <2>12 DEF DispatchAccept
    <2>13. CASE UNCHANGED vars
      BY <2>13 DEF vars
    <2>14. QED
      BY <2>1, <2>2, <2>3, <2>4, <2>5, <2>6, <2>7, <2>8, <2>9, <2>10, <2>11,
         <2>12, <2>13 DEF Next
  <1>3. QED
    BY <1>1, <1>2, TypeCorrect, PTL DEF Spec

-----------------------------------------------------------------------------
(* The order of the tasks, and the abstract queue                          *)

\* A thread's tasks carry the numbers it has used, the loop thread posts
\* nothing before it is in the loop (where its first task is the ready
\* callback), and the handler's deque is empty outside the handler's loop.
NumbersUsed == \A e \in Range(History) : e[2] <= posted[e[1]]

LoopThreadSilent ==
    loop = "created" =>
        /\ posted[LoopThread] = 0
        /\ \A e \in Range(History) : e[1] # LoopThread

BatchOnlyInHandler == loop \in {"created", "polling", "woken"} => batch = <<>>

QueueInv ==
    /\ NumbersUsed
    /\ LoopThreadSilent
    /\ BatchOnlyInHandler

\* Task t, the n-th of its thread or the ready callback, joins the history.
Joins(t, n) ==
    /\ t \in Threads
    /\ n \in 0 .. MaxPosts[t]
    /\ tasks' = Append(tasks, <<t, n>>)
    /\ batch' = batch
    /\ ran' = ran
    /\ \A e \in Range(History) : e[1] = t => e[2] < n

LEMMA HistoryType == TypeOK => History \in Seq(Task)
  BY ConcatProperties DEF TypeOK, History

LEMMA TaskPart ==
    ASSUME NEW e \in Task
    PROVE  e[1] \in Threads /\ e[2] \in Nat /\ e = <<e[1], e[2]>>
  <1>1. PICK t \in Threads : e \in {t} \X (0 .. MaxPosts[t])
    BY DEF Task
  <1>2. MaxPosts[t] \in Nat
    BY LooperAssumption DEF Threads
  <1>3. QED
    BY <1>1, <1>2

LEMMA JoinsHistory ==
    ASSUME TypeOK, NEW t, NEW n, Joins(t, n)
    PROVE  /\ <<t, n>> \in Task
           /\ History' = Append(History, <<t, n>>)
           /\ Range(History') = Range(History) \cup {<<t, n>>}
  <1>1. <<t, n>> \in Task
    BY TaskPair DEF Joins
  <1>2. /\ tasks \in Seq(Task)
        /\ ran \o batch \in Seq(Task)
    BY ConcatProperties DEF TypeOK
  <1>3. (ran \o batch) \o Append(tasks, <<t, n>>)
            = Append((ran \o batch) \o tasks, <<t, n>>)
    BY <1>1, <1>2, ConcatAppend
  <1>4. History' = Append(History, <<t, n>>)
    BY <1>3 DEF Joins, History
  <1>5. QED
    BY <1>1, <1>4, HistoryType, RangeAppend

\* What a push by any thread, or by run() itself, does to the history.
LEMMA PushJoins ==
    ASSUME TypeOK, QueueInv, NEW p \in Posters, Push(p)
    PROVE  Joins(p, posted[p] + 1)
  <1>1. p \in Threads
    BY DEF Threads
  <1>2. posted[p] \in Nat /\ MaxPosts[p] \in Nat
    BY <1>1, LooperAssumption DEF TypeOK, Threads
  <1>3. posted[p] + 1 \in 0 .. MaxPosts[p]
    BY <1>2 DEF Push
  <1>4. ASSUME NEW e \in Range(History), e[1] = p PROVE e[2] < posted[p] + 1
    <2>1. e \in Task
      BY HistoryType, RangeOfSeq DEF Range
    <2>2. e[2] \in Nat
      BY <2>1, TaskPart
    <2>3. e[2] <= posted[p]
      BY <1>4 DEF QueueInv, NumbersUsed
    <2>4. QED
      BY <1>2, <2>2, <2>3
  <1>5. QED
    BY <1>1, <1>3, <1>4 DEF Joins, Push

LEMMA LoopPostJoins ==
    ASSUME TypeOK, QueueInv, LoopPost
    PROVE  Joins(LoopThread, posted[LoopThread] + 1)
  <1>1. LoopThread \in Threads
    BY DEF Threads
  <1>2. posted[LoopThread] \in Nat /\ MaxPosts[LoopThread] \in Nat
    BY <1>1, LooperAssumption DEF TypeOK, Threads
  <1>3. posted[LoopThread] + 1 \in 0 .. MaxPosts[LoopThread]
    BY <1>2 DEF LoopPost
  <1>4. ASSUME NEW e \in Range(History), e[1] = LoopThread
        PROVE  e[2] < posted[LoopThread] + 1
    <2>1. e \in Task
      BY HistoryType, RangeOfSeq DEF Range
    <2>2. e[2] \in Nat
      BY <2>1, TaskPart
    <2>3. e[2] <= posted[LoopThread]
      BY <1>4 DEF QueueInv, NumbersUsed
    <2>4. QED
      BY <1>2, <2>2, <2>3
  <1>5. QED
    BY <1>1, <1>3, <1>4 DEF Joins, LoopPost

LEMMA ReadyJoins ==
    ASSUME TypeOK, QueueInv, RunEnters, tasks' # tasks
    PROVE  Joins(LoopThread, 0)
  <1>1. LoopThread \in Threads /\ 0 \in 0 .. MaxPosts[LoopThread]
    BY LooperAssumption DEF Threads
  <1>2. \A e \in Range(History) : e[1] # LoopThread
    BY DEF RunEnters, QueueInv, LoopThreadSilent
  <1>3. QED
    BY <1>1, <1>2 DEF Joins, RunEnters, ReadyTask

\* Every other step leaves the history as it is: taking the tasks renames the
\* queue to the deque, running one moves it from the deque to the tasks run.
LEMMA TakeKeepsHistory ==
    ASSUME TypeOK, QueueInv, TakeTasks
    PROVE  History' = History
  <1>1. batch = <<>> /\ batch' = tasks /\ tasks' = <<>> /\ ran' = ran
    BY DEF TakeTasks, QueueInv, BatchOnlyInHandler
  <1>2. ran \in Seq(Task) /\ tasks \in Seq(Task) /\ ran \o tasks \in Seq(Task)
    BY ConcatProperties DEF TypeOK
  <1>3. ran \o <<>> = ran /\ (ran \o tasks) \o <<>> = ran \o tasks
    BY <1>2, ConcatEmptySeq
  <1>4. QED
    BY <1>1, <1>3 DEF History

LEMMA RunKeepsHistory ==
    ASSUME TypeOK, RunTask
    PROVE  History' = History
  <1>1. batch # <<>> /\ batch' = Tail(batch) /\ ran' = Append(ran, Head(batch))
        /\ tasks' = tasks
    BY DEF RunTask
  <1>2. ran \in Seq(Task) /\ batch \in Seq(Task)
    BY DEF TypeOK
  <1>3. Append(ran, Head(batch)) \o Tail(batch) = ran \o batch
    BY <1>1, <1>2, MoveHead
  <1>4. QED
    BY <1>1, <1>3 DEF History

\* The steps that touch neither the history nor the numbers.
OtherStep ==
    \/ \E p \in Posters : Wake(p)
    \/ Stop \/ OnReady \/ RunFails \/ DispatchExit \/ DispatchWake \/ BatchDone
    \/ DispatchAccept \/ UNCHANGED vars

LEMMA OtherKeeps ==
    ASSUME OtherStep
    PROVE  /\ <<tasks, batch, ran, posted>>' = <<tasks, batch, ran, posted>>
           /\ loop' = "created" => loop = "created"
           /\ loop' \in {"polling", "woken"} =>
                 loop \in {"polling", "woken"} \/ batch = <<>>
  BY DEF OtherStep, Wake, Stop, OnReady, RunFails, DispatchExit, DispatchWake, BatchDone,
         DispatchAccept, vars

LEMMA QueueInvKept ==
    ASSUME TypeOK, QueueInv, [Next]_vars
    PROVE  QueueInv'
  <1>0. posted \in [Threads -> Nat] /\ LoopThread \in Threads
    BY DEF TypeOK, Threads
  <1>00. \A e \in Range(History) : e[1] \in Threads /\ e[2] \in Nat
    <2> SUFFICES ASSUME NEW e \in Range(History)
                 PROVE  e[1] \in Threads /\ e[2] \in Nat
      OBVIOUS
    <2>1. e \in Task
      BY HistoryType, RangeOfSeq DEF Range
    <2>2. QED
      BY <2>1, TaskPart
  <1>1. ASSUME NEW p \in Posters, Push(p) PROVE QueueInv'
    <2>1. Range(History') = Range(History) \cup {<<p, posted[p] + 1>>}
      BY <1>1, PushJoins, JoinsHistory
    <2>2. /\ p \in Threads /\ p # LoopThread
          /\ posted' = [posted EXCEPT ![p] = @ + 1]
          /\ loop' = loop /\ batch' = batch
      BY <1>1, LooperAssumption DEF Push, Threads
    <2>3. NumbersUsed'
      <3> SUFFICES ASSUME NEW e \in Range(History')
                   PROVE  e[2] <= posted'[e[1]]
        BY DEF NumbersUsed
      <3>1. CASE e = <<p, posted[p] + 1>>
        BY <3>1, <2>2, <1>0
      <3>2. CASE e \in Range(History)
        <4>1. e[2] <= posted[e[1]] /\ e[1] \in Threads /\ e[2] \in Nat
          BY <3>2, <1>00 DEF QueueInv, NumbersUsed
        <4>2. posted[e[1]] \in Nat /\ posted[e[1]] <= posted'[e[1]]
              /\ posted'[e[1]] \in Nat
          BY <4>1, <2>2, <1>0
        <4>3. QED
          BY <4>1, <4>2
      <3>3. QED
        BY <2>1, <3>1, <3>2
    <2>4. LoopThreadSilent'
      <3>1. posted'[LoopThread] = posted[LoopThread]
        BY <2>2, <1>0
      <3>2. QED
        BY <2>1, <2>2, <3>1 DEF QueueInv, LoopThreadSilent
    <2>5. QED
      BY <2>2, <2>3, <2>4 DEF QueueInv, BatchOnlyInHandler
  <1>2. CASE LoopPost
    <2>1. Range(History')
            = Range(History) \cup {<<LoopThread, posted[LoopThread] + 1>>}
      BY <1>2, LoopPostJoins, JoinsHistory
    <2>2. /\ posted' = [posted EXCEPT ![LoopThread] = @ + 1]
          /\ loop' = loop /\ batch' = batch /\ loop # "created"
      BY <1>2 DEF LoopPost
    <2>3. NumbersUsed'
      <3> SUFFICES ASSUME NEW e \in Range(History')
                   PROVE  e[2] <= posted'[e[1]]
        BY DEF NumbersUsed
      <3>1. CASE e = <<LoopThread, posted[LoopThread] + 1>>
        BY <3>1, <2>2, <1>0
      <3>2. CASE e \in Range(History)
        <4>1. e[2] <= posted[e[1]] /\ e[1] \in Threads /\ e[2] \in Nat
          BY <3>2, <1>00 DEF QueueInv, NumbersUsed
        <4>2. posted[e[1]] \in Nat /\ posted[e[1]] <= posted'[e[1]]
              /\ posted'[e[1]] \in Nat
          BY <4>1, <2>2, <1>0
        <4>3. QED
          BY <4>1, <4>2
      <3>3. QED
        BY <2>1, <3>1, <3>2
    <2>4. QED
      BY <2>2, <2>3 DEF QueueInv, LoopThreadSilent, BatchOnlyInHandler
  <1>3. CASE RunEnters
    <2>1. loop = "created" /\ loop' = "polling" /\ batch' = batch /\ ran' = ran
          /\ posted' = posted /\ batch = <<>>
      BY <1>3 DEF RunEnters, QueueInv, BatchOnlyInHandler
    <2>2. CASE tasks' = tasks
      <3>1. History' = History
        BY <2>1, <2>2 DEF History
      <3>2. QED
        BY <2>1, <3>1 DEF QueueInv, NumbersUsed, LoopThreadSilent,
           BatchOnlyInHandler
    <2>3. CASE tasks' # tasks
      <3>1. Range(History') = Range(History) \cup {<<LoopThread, 0>>}
        BY <1>3, <2>3, ReadyJoins, JoinsHistory
      <3>2. posted[LoopThread] = 0
        BY <2>1 DEF QueueInv, LoopThreadSilent
      <3>3. NumbersUsed'
        BY <2>1, <3>1, <3>2 DEF QueueInv, NumbersUsed
      <3>4. QED
        BY <2>1, <3>3 DEF QueueInv, LoopThreadSilent, BatchOnlyInHandler
    <2>4. QED
      BY <2>2, <2>3
  <1>4. CASE TakeTasks
    <2>1. History' = History /\ posted' = posted /\ loop' = "running"
      BY <1>4, TakeKeepsHistory DEF TakeTasks
    <2>2. QED
      BY <2>1 DEF QueueInv, NumbersUsed, LoopThreadSilent, BatchOnlyInHandler
  <1>5. CASE RunTask
    <2>1. History' = History /\ posted' = posted /\ loop' = "running"
      BY <1>5, RunKeepsHistory DEF RunTask
    <2>2. QED
      BY <2>1 DEF QueueInv, NumbersUsed, LoopThreadSilent, BatchOnlyInHandler
  <1>6. CASE OtherStep
    <2>1. /\ History' = History /\ posted' = posted /\ batch' = batch
          /\ loop' = "created" => loop = "created"
          /\ loop' \in {"polling", "woken"} =>
                loop \in {"polling", "woken"} \/ batch = <<>>
      BY <1>6, OtherKeeps DEF History
    <2>2. QED
      BY <2>1 DEF QueueInv, NumbersUsed, LoopThreadSilent, BatchOnlyInHandler
  <1>7. QED
    BY <1>1, <1>2, <1>3, <1>4, <1>5, <1>6 DEF Next, OtherStep

LEMMA QueueInvInit == Init => QueueInv
  <1> SUFFICES ASSUME Init PROVE QueueInv
    OBVIOUS
  <1>1. History = <<>>
    BY DEF Init, History
  <1>2. Range(History) = {}
    BY <1>1 DEF Range
  <1>3. posted[LoopThread] = 0
    BY DEF Init, Threads
  <1>4. QED
    BY <1>2, <1>3 DEF Init, QueueInv, NumbersUsed, LoopThreadSilent,
       BatchOnlyInHandler

LEMMA QueueInvAlways == Spec => []QueueInv
  <1>1. QED
    BY QueueInvInit, QueueInvKept, TypeCorrect, PTL DEF Spec

-----------------------------------------------------------------------------
\* The looper is a FIFO queue: a push appends to the deque joined with the
\* queue, the swap of the two changes nothing, and a task that is run is the
\* oldest.  No task is run twice, and none once run() has returned.
THEOREM LooperIsTaskQueue == Spec => ImplementsTaskQueue
  <1>1. Init => TQ!Init
    BY DEF Init, TQ!Init
  <1>2. ASSUME TypeOK, QueueInv, NEW t, NEW n, Joins(t, n), loop' = "returned" <=> loop = "returned"
        PROVE  TQ!Post(<<t, n>>) /\ <<t, n>> \in Task
    <2>1. <<t, n>> \in Task
      BY <1>2, JoinsHistory
    <2>2. ran \in Seq(Task) /\ batch \in Seq(Task) /\ tasks \in Seq(Task)
          /\ batch \o tasks \in Seq(Task) /\ ran \o batch \in Seq(Task)
      BY <1>2, ConcatProperties DEF TypeOK
    <2>3. (batch \o tasks)' = Append(batch \o tasks, <<t, n>>)
      BY <1>2, <2>1, <2>2, ConcatAppend DEF Joins
    <2>4. Range(History) = Range(batch \o tasks) \cup Range(ran)
      <3>1. Range(History) = Range(ran \o batch) \cup Range(tasks)
        BY <2>2, RangeConcat DEF History
      <3>2. /\ Range(ran \o batch) = Range(ran) \cup Range(batch)
            /\ Range(batch \o tasks) = Range(batch) \cup Range(tasks)
        BY <2>2, RangeConcat
      <3>3. QED
        BY <3>1, <3>2
    <2>5. n \in Nat
      BY <1>2, LooperAssumption DEF Joins, Threads
    <2>6. <<t, n>> \notin Range(History)
      BY <1>2, <2>5 DEF Joins
    <2>7. <<t, n>> \notin TQ!Range(batch \o tasks) \cup TQ!Range(ran)
      BY <2>4, <2>6 DEF Range, TQ!Range
    <2>8. QED
      BY <1>2, <2>1, <2>3, <2>7 DEF TQ!Post, Joins
  <1>3. TypeOK /\ QueueInv /\ [Next]_vars => [TQ!Next]_TQ!vars
    <2> SUFFICES ASSUME TypeOK, QueueInv, [Next]_vars
                 PROVE  [TQ!Next]_TQ!vars
      OBVIOUS
    <2>0. ran \in Seq(Task) /\ batch \in Seq(Task) /\ tasks \in Seq(Task)
      BY DEF TypeOK
    <2>1. ASSUME NEW p \in Posters, Push(p) PROVE TQ!Next
      <3>1. Joins(p, posted[p] + 1) /\ loop' = loop
        BY <2>1, PushJoins DEF Push
      <3>2. QED
        BY <1>2, <3>1 DEF TQ!Next
    <2>2. CASE LoopPost
      <3>1. Joins(LoopThread, posted[LoopThread] + 1) /\ loop' = loop
        BY <2>2, LoopPostJoins DEF LoopPost
      <3>2. QED
        BY <1>2, <3>1 DEF TQ!Next
    <2>3. CASE RunEnters
      <3>1. loop' # "returned" /\ loop # "returned" /\ batch' = batch /\ ran' = ran
        BY <2>3 DEF RunEnters
      <3>2. CASE tasks' = tasks
        BY <3>1, <3>2 DEF TQ!vars
      <3>3. CASE tasks' # tasks
        <4>1. Joins(LoopThread, 0)
          BY <2>3, <3>3, ReadyJoins
        <4>2. QED
          BY <1>2, <3>1, <4>1 DEF TQ!Next
      <3>4. QED
        BY <3>2, <3>3
    <2>4. CASE TakeTasks
      <3>1. batch = <<>> /\ batch' = tasks /\ tasks' = <<>> /\ ran' = ran
            /\ loop # "returned" /\ loop' # "returned"
        BY <2>4 DEF TakeTasks, QueueInv, BatchOnlyInHandler
      <3>2. (batch \o tasks)' = batch \o tasks
        BY <2>0, <3>1, ConcatEmptySeq
      <3>3. QED
        BY <3>1, <3>2 DEF TQ!vars
    <2>5. CASE RunTask
      <3>1. /\ batch # <<>> /\ batch' = Tail(batch) /\ tasks' = tasks
            /\ ran' = Append(ran, Head(batch))
            /\ loop # "returned" /\ loop' # "returned"
        BY <2>5 DEF RunTask
      <3>2. /\ batch \o tasks # <<>>
            /\ Head(batch \o tasks) = Head(batch)
            /\ Tail(batch \o tasks) = Tail(batch) \o tasks
        BY <2>0, <3>1, HeadTailConcat
      <3>3. TQ!RunOldest
        BY <3>1, <3>2 DEF TQ!RunOldest
      <3>4. QED
        BY <3>3 DEF TQ!Next
    <2>6. CASE RunFails \/ DispatchExit
      <3>1. TQ!Close
        BY <2>6 DEF RunFails, DispatchExit, TQ!Close
      <3>2. QED
        BY <3>1 DEF TQ!Next
    <2>7. ASSUME NEW p \in Posters, Wake(p) PROVE UNCHANGED TQ!vars
      BY <2>7 DEF Wake, TQ!vars
    <2>8. CASE Stop \/ OnReady \/ DispatchWake \/ BatchDone \/ DispatchAccept
      BY <2>8 DEF Stop, OnReady, DispatchWake, BatchDone, DispatchAccept, TQ!vars
    <2>9. CASE UNCHANGED vars
      BY <2>9 DEF vars, TQ!vars
    <2>10. QED
      BY <2>1, <2>2, <2>3, <2>4, <2>5, <2>6, <2>7, <2>8, <2>9 DEF Next
  <1>4. QED
    BY <1>1, <1>3, TypeCorrect, QueueInvAlways, PTL
    DEF Spec, ImplementsTaskQueue, TQ!Spec

-----------------------------------------------------------------------------
\* The two parts of PostOrder.
Ordered ==
    \A i, j \in DOMAIN History :
        i < j /\ History[i][1] = History[j][1] => History[i][2] < History[j][2]

Complete ==
    \A p \in Posters : \A n \in 1 .. MaxPosts[p] :
        n <= posted[p] <=> <<p, n>> \in Range(History)

LEMMA JoinsOrdered ==
    ASSUME TypeOK, Ordered, NEW t, NEW n, Joins(t, n)
    PROVE  Ordered'
  <1> DEFINE e == <<t, n>>
  <1>1. History \in Seq(Task) /\ e \in Task /\ History' = Append(History, e)
    BY HistoryType, JoinsHistory
  <1>2. /\ Len(History) \in Nat
        /\ DOMAIN History = 1 .. Len(History)
        /\ DOMAIN Append(History, e) = 1 .. Len(History) + 1
        /\ \A i \in 1 .. Len(History) : Append(History, e)[i] = History[i]
        /\ Append(History, e)[Len(History) + 1] = e
    BY <1>1, AppendProperties, LenProperties
  <1>3. \A i \in DOMAIN History : History[i] \in Range(History)
    BY DEF Range
  <1>4. ASSUME NEW i \in DOMAIN History', NEW j \in DOMAIN History', i < j,
               History'[i][1] = History'[j][1]
        PROVE  History'[i][2] < History'[j][2]
    <2>1. i \in DOMAIN History /\ History'[i] = History[i]
      BY <1>1, <1>2, <1>4
    <2>2. CASE j \in DOMAIN History
      BY <1>1, <1>2, <1>4, <2>1, <2>2 DEF Ordered
    <2>3. CASE j \notin DOMAIN History
      <3>1. j = Len(History) + 1
        BY <1>1, <1>2, <1>4, <2>3
      <3>2. History'[j] = e
        BY <1>1, <1>2, <3>1
      <3>3. History[i][1] = t
        BY <1>4, <2>1, <3>2
      <3>4. History[i][2] < n
        BY <1>3, <2>1, <3>3 DEF Joins
      <3>5. QED
        BY <2>1, <3>2, <3>4
    <2>4. QED
      BY <2>2, <2>3
  <1>5. QED
    BY <1>4 DEF Ordered

\* The tasks of one thread run in the order in which it posted them, and what
\* it has posted is run, in the handler's deque or queued, and there once.
THEOREM TasksKeepTheirOrder == Spec => []PostOrder
  <1>1. Init => Ordered /\ Complete
    <2> SUFFICES ASSUME Init PROVE Ordered /\ Complete
      OBVIOUS
    <2>1. History = <<>>
      BY DEF Init, History
    <2>2. Range(History) = {} /\ DOMAIN History = {}
      BY <2>1 DEF Range
    <2>3. ASSUME NEW p \in Posters, NEW n \in 1 .. MaxPosts[p] PROVE ~(n <= posted[p])
      <3>1. posted[p] = 0 /\ MaxPosts[p] \in Nat
        BY LooperAssumption DEF Init, Threads
      <3>2. QED
        BY <3>1
    <2>4. QED
      BY <2>2, <2>3 DEF Ordered, Complete
  <1>2. TypeOK /\ QueueInv /\ Ordered /\ [Next]_vars => Ordered'
    <2> SUFFICES ASSUME TypeOK, QueueInv, Ordered, [Next]_vars PROVE Ordered'
      OBVIOUS
    <2>1. ASSUME NEW p \in Posters, Push(p) PROVE Ordered'
      BY <2>1, PushJoins, JoinsOrdered
    <2>2. CASE LoopPost
      BY <2>2, LoopPostJoins, JoinsOrdered
    <2>3. CASE RunEnters
      <3>1. CASE tasks' # tasks
        BY <2>3, <3>1, ReadyJoins, JoinsOrdered
      <3>2. CASE tasks' = tasks
        <4>1. History' = History
          BY <2>3, <3>2 DEF RunEnters, History
        <4>2. QED
          BY <4>1 DEF Ordered
      <3>3. QED
        BY <3>1, <3>2
    <2>4. CASE TakeTasks \/ RunTask \/ OtherStep
      <3>1. History' = History
        BY <2>4, TakeKeepsHistory, RunKeepsHistory, OtherKeeps DEF History
      <3>2. QED
        BY <3>1 DEF Ordered
    <2>5. QED
      BY <2>1, <2>2, <2>3, <2>4 DEF Next, OtherStep
  <1>3. TypeOK /\ QueueInv /\ Complete /\ [Next]_vars => Complete'
    <2> SUFFICES ASSUME TypeOK, QueueInv, Complete, [Next]_vars,
                        NEW p \in Posters, NEW n \in 1 .. MaxPosts[p]
                 PROVE  n <= posted'[p] <=> <<p, n>> \in Range(History')
      BY DEF Complete
    <2>0. /\ posted \in [Threads -> Nat] /\ p \in Threads /\ n \in Nat
          /\ LoopThread \in Threads /\ p # LoopThread
          /\ posted[p] \in Nat
          /\ n <= posted[p] <=> <<p, n>> \in Range(History)
      BY LooperAssumption DEF TypeOK, Threads, Complete
    <2>1. ASSUME NEW q \in Posters, Push(q)
          PROVE  n <= posted'[p] <=> <<p, n>> \in Range(History')
      <3>1. Range(History') = Range(History) \cup {<<q, posted[q] + 1>>}
        BY <2>1, PushJoins, JoinsHistory
      <3>2. posted' = [posted EXCEPT ![q] = @ + 1] /\ q \in Threads
        BY <2>1 DEF Push, Threads
      <3>3. CASE q = p
        <4>1. posted'[p] = posted[p] + 1
          BY <2>0, <3>2, <3>3
        <4>2. <<p, n>> \in Range(History') <=>
                 <<p, n>> \in Range(History) \/ n = posted[p] + 1
          BY <3>1, <3>3
        <4>3. QED
          BY <2>0, <4>1, <4>2
      <3>4. CASE q # p
        <4>1. posted'[p] = posted[p]
          BY <2>0, <3>2, <3>4
        <4>2. <<p, n>> \in Range(History') <=> <<p, n>> \in Range(History)
          BY <3>1, <3>4
        <4>3. QED
          BY <2>0, <4>1, <4>2
      <3>5. QED
        BY <3>3, <3>4
    <2>2. CASE LoopPost
      <3>1. Range(History')
              = Range(History) \cup {<<LoopThread, posted[LoopThread] + 1>>}
        BY <2>2, LoopPostJoins, JoinsHistory
      <3>2. posted'[p] = posted[p]
        BY <2>0, <2>2 DEF LoopPost
      <3>3. QED
        BY <2>0, <3>1, <3>2
    <2>3. CASE RunEnters
      <3>1. posted' = posted
        BY <2>3 DEF RunEnters
      <3>2. CASE tasks' # tasks
        <4>1. Range(History') = Range(History) \cup {<<LoopThread, 0>>}
          BY <2>3, <3>2, ReadyJoins, JoinsHistory
        <4>2. QED
          BY <2>0, <3>1, <4>1
      <3>3. CASE tasks' = tasks
        <4>1. History' = History
          BY <2>3, <3>3 DEF RunEnters, History
        <4>2. QED
          BY <2>0, <3>1, <4>1
      <3>4. QED
        BY <3>2, <3>3
    <2>4. CASE TakeTasks \/ RunTask \/ OtherStep
      <3>1. History' = History
        BY <2>4, TakeKeepsHistory, RunKeepsHistory, OtherKeeps DEF History
      <3>2. posted' = posted
        BY <2>4, OtherKeeps DEF TakeTasks, RunTask
      <3>3. QED
        BY <2>0, <3>1, <3>2
    <2>5. QED
      BY <2>1, <2>2, <2>3, <2>4 DEF Next, OtherStep
  <1>4. Ordered /\ Complete => PostOrder
    BY DEF Ordered, Complete, PostOrder
  <1>5. QED
    BY <1>1, <1>2, <1>3, <1>4, TypeCorrect, QueueInvAlways, PTL DEF Spec

-----------------------------------------------------------------------------
(* What each step does to the queued tasks, for those who use a looper     *)

LEMMA QueuedParts == TypeOK => Queued = Range(batch) \cup Range(tasks)
  BY RangeConcat DEF TypeOK, Queued

LEMMA AppendQueues ==
    ASSUME TypeOK, TypeOK', NEW e \in Task, tasks' = Append(tasks, e), batch' = batch
    PROVE  Queued' = Queued \cup {e}
  <1>1. Queued = Range(batch) \cup Range(tasks)
    BY QueuedParts
  <1>2. Queued' = Range(batch') \cup Range(tasks')
    <2>1. batch' \in Seq(Task) /\ tasks' \in Seq(Task)
      BY DEF TypeOK
    <2>2. Range(batch' \o tasks') = Range(batch') \cup Range(tasks')
      BY ONLY <2>1, RangeConcat
    <2>3. QED
      BY <2>2 DEF Queued
  <1>3. Range(tasks') = Range(tasks) \cup {e}
    BY RangeAppend DEF TypeOK
  <1>4. QED
    BY <1>1, <1>2, <1>3

\* A push adds its task.
LEMMA PushQueues ==
    \A p \in Posters :
        TypeOK /\ TypeOK' /\ QueueInv /\ Push(p)
            => Queued' = Queued \cup {<<p, posted[p] + 1>>}
  <1> SUFFICES ASSUME NEW p \in Posters, TypeOK, TypeOK', QueueInv, Push(p)
               PROVE  Queued' = Queued \cup {<<p, posted[p] + 1>>}
    OBVIOUS
  <1>1. Joins(p, posted[p] + 1)
    BY PushJoins
  <1>2. <<p, posted[p] + 1>> \in Task
    BY <1>1, JoinsHistory
  <1>3. QED
    BY <1>1, <1>2, AppendQueues DEF Joins

\* What the loop thread adds is its own.
LEMMA LoopThreadQueues ==
    TypeOK /\ TypeOK' /\ QueueInv /\ (LoopPost \/ RunEnters)
        => \A e : e[1] # LoopThread => (e \in Queued' <=> e \in Queued)
  <1> SUFFICES ASSUME TypeOK, TypeOK', QueueInv, LoopPost \/ RunEnters,
                      NEW e, e[1] # LoopThread
               PROVE  e \in Queued' <=> e \in Queued
    OBVIOUS
  <1>1. ASSUME NEW n, Joins(LoopThread, n) PROVE e \in Queued' <=> e \in Queued
    <2>1. <<LoopThread, n>> \in Task
      BY <1>1, JoinsHistory
    <2>2. Queued' = Queued \cup {<<LoopThread, n>>}
      BY <1>1, <2>1, AppendQueues DEF Joins
    <2>3. QED
      BY <2>2
  <1>2. CASE LoopPost
    BY <1>1, <1>2, LoopPostJoins
  <1>3. CASE RunEnters /\ tasks' # tasks
    BY <1>1, <1>3, ReadyJoins
  <1>4. CASE RunEnters /\ tasks' = tasks
    BY <1>4 DEF RunEnters, Queued
  <1>5. QED
    BY <1>2, <1>3, <1>4

LEMMA TakeKeepsQueued == TypeOK /\ QueueInv /\ TakeTasks => Queued' = Queued
  <1> SUFFICES ASSUME TypeOK, QueueInv, TakeTasks PROVE Queued' = Queued
    OBVIOUS
  <1>1. batch = <<>> /\ batch' = tasks /\ tasks' = <<>> /\ tasks \in Seq(Task)
    BY DEF TakeTasks, QueueInv, BatchOnlyInHandler, TypeOK
  <1>2. batch' \o tasks' = batch \o tasks
    BY <1>1, ConcatEmptySeq
  <1>3. QED
    BY <1>2 DEF Queued

\* Running a task takes that one away: it is not there a second time.
LEMMA RunUnqueues ==
    TypeOK /\ PostOrder /\ RunTask
        => Head(batch) \in Queued /\ Queued' = Queued \ {Head(batch)}
  <1> SUFFICES ASSUME TypeOK, PostOrder, RunTask
               PROVE  Head(batch) \in Queued /\ Queued' = Queued \ {Head(batch)}
    OBVIOUS
  <1> DEFINE q == batch \o tasks
  <1>1. /\ ran \in Seq(Task) /\ batch \in Seq(Task) /\ tasks \in Seq(Task)
        /\ batch # <<>> /\ batch' = Tail(batch) /\ tasks' = tasks
    BY DEF TypeOK, RunTask
  <1>2. /\ q \in Seq(Task) /\ q # <<>> /\ Head(q) = Head(batch)
        /\ batch' \o tasks' = Tail(q)
    BY <1>1, HeadTailConcat, ConcatProperties
  <1>3. History = ran \o q
    BY <1>1, ConcatAssociative DEF History
  <1>4. IsInjective(q)
    <2>1. /\ Len(ran) \in Nat /\ Len(q) \in Nat
          /\ DOMAIN q = 1 .. Len(q)
          /\ DOMAIN History = 1 .. Len(ran) + Len(q)
          /\ \A i \in 1 .. Len(q) : History[Len(ran) + i] = q[i]
      BY <1>1, <1>2, <1>3, ConcatProperties, LenProperties
    <2>2. ASSUME NEW i \in 1 .. Len(q), NEW j \in 1 .. Len(q), i < j, q[i] = q[j]
          PROVE  FALSE
      <3>1. /\ Len(ran) + i \in DOMAIN History /\ Len(ran) + j \in DOMAIN History
            /\ Len(ran) + i < Len(ran) + j
        BY <2>1, <2>2
      <3>2. q[i][2] < q[j][2]
        BY <2>1, <2>2, <3>1 DEF PostOrder
      <3>3. q[j] \in Task
        BY <1>2, <2>1
      <3>4. q[j][2] \in Nat
        BY <3>3, TaskPart
      <3>5. QED
        BY <2>2, <3>2, <3>4
    <2>3. QED
      BY <2>1, <2>2 DEF IsInjective
  <1>5. /\ Head(q) \in Range(q) /\ Head(q) \notin Range(Tail(q))
        /\ Range(Tail(q)) \subseteq Range(q)
    BY <1>2, <1>4, InjectiveTail
  <1>6. Range(q) = {Head(q)} \cup Range(Tail(q))
    BY <1>2, RangeHeadTail
  <1>7. QED
    BY <1>2, <1>5, <1>6 DEF Queued
=============================================================================
