\* One controlling thread, as main.cpp; a second thread calls Run.
CONSTANTS
    Worker = w
    Callers = {a}
    Posters = {p, q}
    Controllers = {c}
    MaxPosts = 4
SPECIFICATION FairSpec
INVARIANT WakeUpOnItsWay
PROPERTY StartedOnce
PROPERTY ImplementsMessagePump
