SPECIFICATION FairSpec
CONSTANTS
    p1 = p1
    p2 = p2
    loopThread = loopThread
    Posters <- MCPosters
    LoopThread = loopThread
    MaxPosts <- MCMaxPosts
    MaxStops = 1
INVARIANTS
    TypeOK
    NoLostWakeup
    PostOrder
PROPERTIES
    ImplementsTaskQueue
    QueuedIsRun
    StopEndsRun
\* An idle loop waits for the next call, and a loop that has returned stays so.
CHECK_DEADLOCK FALSE
