\* PumpOnce on a second thread while the worker runs.
CONSTANTS
    Worker = worker
    Pumpers = {pumper}
    ClientMsgs <- RegOnly
    FSM_NUM_IN_FAC = 1
    FAC_NUM_IN_MGR_MAX = 1
    MaxPosts = 1
    MaxStarts = 1
SPECIFICATION Spec
INVARIANT CompletedOnce
CHECK_DEADLOCK FALSE
