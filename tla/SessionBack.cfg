SPECIFICATION FairSpec
CONSTANTS
    o1 = o1
    o2 = o2
    m1 = m1
    m2 = m2
    s1 = s1
    w1 = w1
    Objects <- MCNoObjects
    Names <- MCNames
    BadEntries <- MCNoObjects
    Signals <- MCSignals
    Watches <- MCWatches
    Named = FALSE
    MaxVersions = 1
    MaxConnects = 3
PROPERTY ComesBack
\* After a crash, and with nothing left to register, the session stays as it is.
CHECK_DEADLOCK FALSE
