\* StopTimer against a timer thread that has read its flag.
CONSTANTS
    Starters = {s1}
    IdModulus = 8
    MaxTimers = 1
SPECIFICATION Spec
INVARIANT StopTimerPreventsPosting
