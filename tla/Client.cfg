SPECIFICATION FairSpec
CONSTANTS
    main = main
    worker = worker
    calc = calc
    user = user
    pool1 = pool1
    pool2 = pool2
    clientA = clientA
    clientB = clientB
    Threads <- MCThreads
    Peers <- MCPeers
    Buses <- MCBuses
    Pools <- MCPools
    Clients <- MCClients
    Callers <- MCCallers
    MaxListeners = 1
    None = None
    Gone = Gone
INVARIANTS
    TornDownAlone
    PeersShareOnePool
PROPERTY CallEnds
\* A program that was terminated stops, and so may loops that wait for one another.
CHECK_DEADLOCK FALSE
