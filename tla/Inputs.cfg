\* Two arguments; targets of up to five texts; ports up to 2, 2-bit unsigned int,
\* 4-bit int64, uint64 and unsigned long.
CONSTANTS
    PortMax = 2
    UintMax = 3
    Int64Max = 7
    Uint64Max = 15
    ULongMax = 15
    MaxArgs = 2
    Numbers <- Texts
    MaxTarget = 5
SPECIFICATION Spec
INVARIANT WaitsIfAsked
INVARIANT SessionIsTheClients
INVARIANT RunsWithWhatWasRead
CHECK_DEADLOCK FALSE
