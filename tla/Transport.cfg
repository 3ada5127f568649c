\* Two connections on one io thread, and a Stop and a second Start.
CONSTANTS
    Conns = {c1, c2}
    IoThreads = 1
    Starts = 2
    Deadline = 3
    SyncTimeout = 1
SPECIFICATION FairSpec
INVARIANT LateOnlyIfReadLate
PROPERTY EveryClientServed
CHECK_DEADLOCK FALSE
