------------------------------ MODULE MCLooper ------------------------------
(***************************************************************************)
(* Looper for TLC: two outside threads, one of which posts twice, and the  *)
(* loop thread, which posts once besides the ready callback.               *)
(***************************************************************************)
EXTENDS Looper, TLC

CONSTANTS p1, p2, loopThread

MCPosters == {p1, p2}

MCMaxPosts == p1 :> 2 @@ p2 :> 1 @@ loopThread :> 1
=============================================================================
