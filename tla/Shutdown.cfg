\* Three requests on two io threads.
CONSTANTS
    Flows = {f1, f2, f3}
    IoThreads = 2
SPECIFICATION FairSpec
INVARIANT NoUseAfterDestroy
INVARIANT DestroyedOnce
INVARIANT NothingLeftBehind
PROPERTY MainReturns
CHECK_DEADLOCK FALSE
