------------------------------ MODULE MCClient ------------------------------
(* Instance of Client: two threads, one of which only makes, moves and       *)
(* destroys clients, one service and one bus, two pools and two clients.     *)
EXTENDS Client

CONSTANTS main, worker, calc, user, pool1, pool2, clientA, clientB

MCThreads == {main, worker}
MCPeers == {calc}
MCBuses == {user}
MCPools == {pool1, pool2}
MCCallers == {main, pool1, pool2}
MCClients == {clientA, clientB}
=============================================================================
