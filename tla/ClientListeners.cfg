SPECIFICATION Spec
CONSTANTS
    main = main
    worker = worker
    calc = calc
    user = user
    pool1 = pool1
    pool2 = pool2
    clientA = clientA
    clientB = clientB
    Threads <- MCThreads
    Peers <- MCPeers
    Buses <- MCBuses
    Pools <- MCPools
    Clients <- MCClients
    Callers <- MCCallers
    MaxListeners = 1
    None = None
    Gone = Gone
INVARIANT NoCallbackAfterClient
CHECK_DEADLOCK FALSE
