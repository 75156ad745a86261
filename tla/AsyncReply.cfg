SPECIFICATION FairSpec
CONSTANTS
    kept = kept
    dropped = dropped
    called = called
    HandleCalls <- MCHandleCalls
    CallbackCalls <- MCCallbackCalls
    Abandoners <- MCAbandoners
    Ret <- MCRet
    MaxInstalls = 2
    NoCall = NoCall
INVARIANTS
    FinishedIsResolved
    ResolvedOnce
    HandlerOutlivesSlot
    NoHandlerLeaks
PROPERTIES
    ImplementsCompletion
    TornDownByLoop
    WaitEnds
    CallbackRuns
\* When every call is over, and after a crash, nothing is left to do.
CHECK_DEADLOCK FALSE
