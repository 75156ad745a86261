----------------------------- MODULE MCSession ------------------------------
(***************************************************************************)
(* Session for TLC: two objects, one of which may get an entry that sd-bus *)
(* refuses, a signal and a remote property that are listened to, and three *)
(* connections, so that a session reconnects twice.                        *)
(***************************************************************************)
EXTENDS Session, TLC

CONSTANTS o1, o2, m1, m2, s1, w1

MCObjects == {o1, o2}

MCNames == {m1, m2}

MCBadEntries == {<<o2, m2>>}

MCSignals == {s1}

MCWatches == {w1}

\* For the configuration that looks at reconnection alone.
MCNoObjects == {}
=============================================================================
