SPECIFICATION Spec
CONSTANTS
    i1 = i1
    i2 = i2
    e1 = e1
    e2 = e2
    e3 = e3
    e4 = e4
    u1 = u1
    d1 = d1
    q1 = q1
    m1 = m1
    NoID = NoID
    NoEvent = NoEvent
    EmptyQuery = EmptyQuery
    Instance = {i1, i2}
    Event = {e1, e2}
    Malformed = {}
    AckWait = 1
    MaxDeliver = 2
    MaxAckPending = 2
    UserID <- MCUserID
    SessionID <- NoIDs
    DeviceID <- NoIDs
    Query <- OneQuery
    Minute <- OneMinute
    StopMatch <- NoStopWords
    DedupWindow = 1
    MaxExec = 1
    Faults = {"stop", "ackloss", "ageout"}
PROPERTY OneCountPerKey
