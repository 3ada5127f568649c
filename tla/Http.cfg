\* Clients as the HTTP server drives the manager: requests only.  A worker that is
\* stopped and started again, or one application thread that calls PumpOnce.
CONSTANTS
    Worker = worker
    Pumpers = {pumper}
    ClientMsgs <- HttpMsgs
    FSM_NUM_IN_FAC = 2
    FAC_NUM_IN_MGR_MAX = 2
    MaxPosts = 3
    MaxStarts = 2
SPECIFICATION AloneSpec
INVARIANT TypeOK
INVARIANT CompletionMatchesFlow
INVARIANT OneContinuation
INVARIANT EventsAreExpected
INVARIANT ServedInOrder
INVARIANT StopDrains
PROPERTY ImplementsFlowService
CHECK_DEADLOCK FALSE
