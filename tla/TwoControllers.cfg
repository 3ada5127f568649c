\* Two threads that call Start, Stop and Join.
CONSTANTS
    Worker = w
    Callers = {}
    Posters = {p}
    Controllers = {c, d}
    MaxPosts = 1
SPECIFICATION Spec
INVARIANT JoinedOnce
