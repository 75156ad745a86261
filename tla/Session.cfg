SPECIFICATION FairSpec
CONSTANTS
    o1 = o1
    o2 = o2
    m1 = m1
    m2 = m2
    s1 = s1
    w1 = w1
    Objects <- MCObjects
    Names <- MCNames
    BadEntries <- MCBadEntries
    Signals <- MCSignals
    Watches <- MCWatches
    Named = TRUE
    MaxVersions = 2
    MaxConnects = 3
INVARIANTS
    PublishedDataAlive
    SlotsOfThisBus
    DeafOnlyIfRefused
    GivesUpForAReason
PROPERTIES
    ReconnectIsComplete
    LossIsNoticed
\* After a crash, and with nothing left to register, the session stays as it is.
CHECK_DEADLOCK FALSE
