SPECIFICATION FairSpec
CONSTANTS
    p1 = p1
    p2 = p2
    s1 = s1
    loopThread = loopThread
    Posters <- MCOnePoster
    LoopThread = loopThread
    MaxPosts <- MCFewPosts
    MaxStops = 1
    Stoppers <- MCStoppers
    Groups = 2
PROPERTY CallsReturn
\* An idle server waits for the next call, and one that was stopped stays so.
CHECK_DEADLOCK FALSE
