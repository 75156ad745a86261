SPECIFICATION Spec
CONSTANTS
    kept = kept
    dropped = dropped
    called = called
    HandleCalls <- MCHandleCalls
    CallbackCalls <- MCCallbackCalls
    Abandoners <- MCAbandoners
    Ret <- MCRet
    MaxInstalls = 1
    NoCall = NoCall
INVARIANT ErrorIsReported
\* When every call is over, and after a crash, nothing is left to do.
CHECK_DEADLOCK FALSE
