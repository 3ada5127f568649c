\* Ids 1, 2, 0, 1, 2: five flows with ids modulo 3.
CONSTANTS
    IdModulus = 3
    FSM_NUM_IN_FAC = 4
    Service = 3
    MaxFlows = 5
SPECIFICATION FairSpec
INVARIANT KillsTheReported
INVARIANT AsManyMessagesAsFsms
PROPERTY EveryFsmEnds
CHECK_DEADLOCK FALSE
