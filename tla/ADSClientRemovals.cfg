SPECIFICATION Spec
CONSTANTS
    Type = {t1}
    NilHandled = {}
    Unknown = Unknown
    Name = {n1, n2}
    Version = {v1, v2}
    Absent = Absent
    NotSent = NotSent
    NoResponse = NoResponse
    InitialReconnectDelay = 1
    MaxReconnectDelay = 3
    MaxChanges = 2
    MaxFailures = 1
    MaxErrors = 1
    MaxInFlight = 2
SYMMETRY Symmetry
INVARIANT
    HandlersMatchWorld
CHECK_DEADLOCK FALSE
