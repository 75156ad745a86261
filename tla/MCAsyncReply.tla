---------------------------- MODULE MCAsyncReply ----------------------------
(***************************************************************************)
(* AsyncReply for TLC: handle calls, of which one may be abandoned, and a  *)
(* call in callback form.                                                  *)
(***************************************************************************)
EXTENDS AsyncReply, TLC

CONSTANTS kept, dropped, called

MCHandleCalls == {kept, dropped}

MCCallbackCalls == {called}

MCAbandoners == {dropped}

MCRet == [c \in Calls |-> IF c = kept THEN "void"
                          ELSE IF c = called THEN "string" ELSE "other"]
=============================================================================
