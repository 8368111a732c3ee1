CONSTANTS
    None = None
    a1 = a1
    s1 = s1
    k1 = k1
    Agent = {a1}
    Sid = {s1}
    Token = {k1, t1}
    Conn = {c1, c2}
    Stream = {b1}
    DesiredSid <- AllWantS1
    AgentKey <- FirstHasKey
    Operations = {"kick"}
    Scenes <- BrowsersOnly
    MaxLosses = 0
    MaxOperations = 1
    MaxMissed = 3
SPECIFICATION Spec
INVARIANTS KickedStreamsClosed
CHECK_DEADLOCK TRUE
