----------------------------- MODULE Completion -----------------------------
(***************************************************************************)
(* What an asynchronous call promises to whoever made it: a result that is *)
(* set once and stays, and callbacks, numbered as they are offered, that   *)
(* run only when the result is there and never an older one after a newer  *)
(* one ("the latest one wins", PendingReply.hpp), so none of them twice.   *)
(* Nothing is said of handlers, slots, locks or threads: module AsyncReply *)
(* has those and is shown to implement this one.                           *)
(***************************************************************************)
EXTENDS Naturals, Sequences

CONSTANT Calls

VARIABLES
    result,         \* what each call has come to, "none" while it is under way
    offered,        \* how many callbacks were offered for it
    run             \* the callbacks that ran, in order

vars == <<result, offered, run>>

Init ==
    /\ result = [c \in Calls |-> "none"]
    /\ offered = [c \in Calls |-> 0]
    /\ run = [c \in Calls |-> <<>>]

Offer(c) ==
    /\ offered' = [offered EXCEPT ![c] = @ + 1]
    /\ UNCHANGED <<result, run>>

Complete(c) ==
    /\ result[c] = "none"
    /\ \E r \in {"ok", "error"} : result' = [result EXCEPT ![c] = r]
    /\ UNCHANGED <<offered, run>>

Newer(c, n) == \A k \in 1 .. Len(run[c]) : run[c][k] < n

Notify(c) ==
    /\ result[c] # "none"
    /\ \E n \in 1 .. offered[c] :
          Newer(c, n) /\ run' = [run EXCEPT ![c] = Append(@, n)]
    /\ UNCHANGED <<result, offered>>

\* A call that is refused when it is made: its callback hears of it at once.
Refuse(c) ==
    /\ result[c] = "none" /\ offered[c] = 0
    /\ result' = [result EXCEPT ![c] = "error"]
    /\ offered' = [offered EXCEPT ![c] = 1]
    /\ run' = [run EXCEPT ![c] = <<1>>]

Next == \E c \in Calls : Offer(c) \/ Complete(c) \/ Notify(c) \/ Refuse(c)

Spec == Init /\ [][Next]_vars
=============================================================================
