SPECIFICATION FairSpec
CONSTANTS
    g1 = g1
    p1 = p1
    p2 = p2
    b1 = b1
    c1 = c1
    c2 = c2
    e1 = e1
    e2 = e2
    w1 = w1
    w2 = w2
    w3 = w3
    v1 = v1
    v2 = v2
    v3 = v3
    m1 = m1
    m2 = m2
    m3 = m3
    a1 = a1
    a2 = a2
    Gets = {g1}
    Puts = {p1, p2}
    Browsers = {b1}
    Calls = {c1, c2}
    Execs = {e1, e2}
    Pages = {w1, w2, w3}
    PageLen <- MCPageLen
    EventCap = 2
    UplinkCap = 1
    MaxInflight = 1
    MaxConcurrent = 1
    MaxSessions = 1
    StdinCap = 1
    MaxInputs = 2
    Visits = {v1, v2, v3}
    VisitKind <- MCVisitKind
    VisitMap <- MCVisitMap
    AnswerLen <- MCAnswerLen
    Maps = {m1, m2, m3}
    MapTarget <- MCMapTarget
    MaxMaps = 1
    MaxVisits = 1
    PoolSize = 1
    Acquirers = {a1, a2}
    Need <- MCNeed
    MaxNeed = 3
    MaxFrame = 5
    Frames = {5}
    Interactive = {1}
    Rates = {0, 2}
    BurstTicks = 2
    MinBurst = 4
    Load = 1
    MaxFrames = 1
    MaxSettings = 1
    MaxIdle = 2
    Requests <- MCRequests
    Ranges <- MCRanges
    FileLen = 2
    PutLen = 2
    SinkCap = 1
    BulkCap = 2
    InterCap = 1
    AgentIgnoresRange = FALSE
    MaxDrops = 1
    MaxFaults = 1
    Whole = Whole
    None = None
INVARIANTS
    BodyIsRange
    AnsweredIsWritten
    ExitedIsWhole
    PageIsPrefix
    OwnAnswer
    SentOnce
    RateKept
PROPERTY EveryRequestEnds
CHECK_DEADLOCK FALSE
