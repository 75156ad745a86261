----------------------------- MODULE TaskQueue -----------------------------
(***************************************************************************)
(* What a Looper promises to the threads that call Looper::post(): the     *)
(* tasks form one queue, the loop thread runs them one after the other in  *)
(* the order in which they were posted, each at most once, and once the    *)
(* loop has ended nothing runs any more (what is still queued stays        *)
(* queued).  Nothing is said of event descriptors, locks or swapped        *)
(* deques: module Looper has those and is shown to implement this one.     *)
(***************************************************************************)
EXTENDS Naturals, Sequences, Functions

CONSTANT Task       \* the tasks that may be posted, each at most once

VARIABLES
    pending,        \* the tasks posted and not yet run, oldest first
    done,           \* the tasks run, in the order they ran
    closed          \* the loop has ended

vars == <<pending, done, closed>>

TypeOK ==
    /\ pending \in Seq(Task)
    /\ done \in Seq(Task)
    /\ closed \in BOOLEAN

Init ==
    /\ pending = <<>>
    /\ done = <<>>
    /\ closed = FALSE

\* Some thread posts a task that was never posted before.  Posting is always
\* possible, also when nobody will ever run the task.
Post(t) ==
    /\ t \notin Range(pending) \cup Range(done)
    /\ pending' = Append(pending, t)
    /\ UNCHANGED <<done, closed>>

\* The loop thread runs the oldest task.
RunOldest ==
    /\ ~closed
    /\ pending # <<>>
    /\ done' = Append(done, Head(pending))
    /\ pending' = Tail(pending)
    /\ UNCHANGED closed

Close ==
    /\ ~closed
    /\ closed' = TRUE
    /\ UNCHANGED <<pending, done>>

Next ==
    \/ \E t \in Task : Post(t)
    \/ RunOldest
    \/ Close

Spec == Init /\ [][Next]_vars
=============================================================================
