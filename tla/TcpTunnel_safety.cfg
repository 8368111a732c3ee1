CONSTANTS
    c1 = c1
    c2 = c2
    Conns = {c1, c2}
    Scenes <- MCScenes
    RelayMax = 1
    AgentMax = 1
    Window = 2
    Chunks = {1, 2}
    RelayQueue = 1
    AgentQueue = 1
    MaxQueuedMsgs = 1
    BulkCap = 1
    UplinkCap = 1
    BatchMsgs = 2
    None = None
SPECIFICATION Spec
INVARIANTS WindowsBalanced AgentNotBlamed SlotsReturned WholeStreams
CHECK_DEADLOCK FALSE
