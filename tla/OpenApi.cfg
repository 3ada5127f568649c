\* Any client of the public SendMsg: events out of turn, unknown services.
CONSTANTS
    Worker = worker
    Pumpers = {}
    ClientMsgs <- ApiMsgs
    FSM_NUM_IN_FAC = 1
    FAC_NUM_IN_MGR_MAX = 1
    MaxPosts = 3
    MaxStarts = 2
SPECIFICATION FairSpec
INVARIANT NoDanglingFsm
INVARIANT CompletedOnce
INVARIANT WithinCapacity
PROPERTY FlowSteps
PROPERTY EveryFlowEnds
PROPERTY StopReturns
CHECK_DEADLOCK FALSE
