SPECIFICATION FairSpec
CONSTANTS
    Type = {t1}
    NilHandled = {}
    Unknown = Unknown
    Name = {n1, n2}
    Version = {v1, v2}
    Absent = Absent
    NotSent = NotSent
    NoResponse = NoResponse
    InitialReconnectDelay = 1
    MaxReconnectDelay = 3
    MaxChanges = 3
    MaxFailures = 2
    MaxErrors = 1
    MaxInFlight = 2
PROPERTIES
    CancelStops
    Converges
CHECK_DEADLOCK FALSE
