------------------------------ MODULE MCServer ------------------------------
(***************************************************************************)
(* Server for TLC: two threads that make a call or post once each, a loop  *)
(* thread that may post once itself, one thread that stops the server, and *)
(* a registry of two groups.                                               *)
(***************************************************************************)
EXTENDS Server, TLC

CONSTANTS p1, p2, s1, loopThread

MCPosters == {p1, p2}

MCStoppers == {s1}

MCMaxPosts == p1 :> 1 @@ p2 :> 1 @@ loopThread :> 1

\* One thread that makes two calls, for the configurations that end in a
\* counterexample.
MCOnePoster == {p1}

MCFewPosts == p1 :> 2 @@ loopThread :> 1
=============================================================================
