\* As the manager uses it: StartTimer has no caller left when StopAndJoin runs.
CONSTANTS
    Starters = {s1, s2}
    IdModulus = 3
    MaxTimers = 4
SPECIFICATION FairSpec
INVARIANT CancelWins
INVARIANT NothingLeft
PROPERTY ImplementsTimerService
PROPERTY StopAndJoinReturns
