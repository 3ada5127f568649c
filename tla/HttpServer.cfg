\* Two synchronous requests and one that is not, on two io threads, with completion and
\* the shutdown of main.  Two of them bring a session id, which the server may
\* generate for the third.
CONSTANTS
    r1 = r1
    r2 = r2
    r3 = r3
    Requests = {r1, r2, r3}
    Sync = {r1, r3}
    ServiceOf <- Routes
    Explicit <- SameChosen
    IoThreads = 2
    SessionModulus = 3
    NoRequest = none
SPECIFICATION FairSpec
INVARIANT AnsweredByItsKey
INVARIANT AnsweredByItsFlow
INVARIANT NoMissedCompletion
INVARIANT StopWakesWaiters
INVARIANT WaitersAreLive
INVARIANT CallbackInLiveServer
PROPERTY EveryRequestAnswered
PROPERTY ShutdownCompletes
CHECK_DEADLOCK FALSE
