SPECIFICATION Spec
CONSTANTS
    Type = {t1, t2}
    NilHandled = {t2}
    Unknown = Unknown
    Name = {n1, n2}
    Version = {v1, v2}
    Absent = Absent
    NotSent = NotSent
    NoResponse = NoResponse
    InitialReconnectDelay = 1
    MaxReconnectDelay = 3
    MaxChanges = 3
    MaxFailures = 2
    MaxErrors = 1
    MaxInFlight = 2
SYMMETRY Symmetry
INVARIANTS
    TypeOK
    NoLostUpdate
    QuietMeansCurrent
    AckMeansApplied
CHECK_DEADLOCK FALSE
