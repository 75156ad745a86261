------------------------------ MODULE Service ------------------------------
(***************************************************************************)
(* What a Server promises to the threads that call emit(), getProperty(),  *)
(* setProperty() and onPropertyChanged(): a call that is accepted takes    *)
(* effect once, in one step, between its invocation and its return, and    *)
(* only while the server serves: after all of its interface has been       *)
(* registered and before its loop has ended.  Nothing is said of tasks,    *)
(* queues or promises: module Server has those and is shown to implement   *)
(* this one.                                                               *)
(***************************************************************************)
CONSTANTS
    Callers,        \* the threads that call
    Call            \* the calls they may make, <<caller, number>>

VARIABLES
    place,          \* where each caller is
    executed,       \* the calls that took effect
    open,           \* all of the interface has been registered
    closed          \* the loop has ended

vars == <<place, executed, open, closed>>

Init ==
    /\ place = [c \in Callers |-> "idle"]
    /\ executed = {}
    /\ open = FALSE
    /\ closed = FALSE

Open ==
    /\ ~open
    /\ open' = TRUE
    /\ UNCHANGED <<place, executed, closed>>

Close ==
    /\ ~closed
    /\ closed' = TRUE
    /\ UNCHANGED <<place, executed, open>>

\* A call is accepted, also when nobody will serve it any more.
Invoke(c) ==
    /\ open
    /\ place[c] = "idle"
    /\ place' = [place EXCEPT ![c] = "asked"]
    /\ UNCHANGED <<executed, open, closed>>

\* It takes effect: the other calls see all of it or nothing of it.
Execute(c) ==
    /\ open /\ ~closed
    /\ place[c] = "asked"
    /\ place' = [place EXCEPT ![c] = "done"]
    /\ \E e \in Call \ executed : e[1] = c /\ executed' = executed \cup {e}
    /\ UNCHANGED <<open, closed>>

Return(c) ==
    /\ place[c] = "done"
    /\ place' = [place EXCEPT ![c] = "idle"]
    /\ UNCHANGED <<executed, open, closed>>

Next ==
    \/ Open \/ Close
    \/ \E c \in Callers : Invoke(c) \/ Execute(c) \/ Return(c)

Spec == Init /\ [][Next]_vars
=============================================================================
