SPECIFICATION Spec
CONSTANTS
    ServiceKey = {k1, k2}
    Endpoint = {e1}
    RouteKey = {r1}
    NoFile = NoFile
    NoRoute = NoRoute
    NotRead = NotRead
    MaxEvents = 5
    FaultCost = 2
SYMMETRY Symmetry
INVARIANTS
    TypeOK
    RunsDisk
    ReferencesResolve
    ServesLive
CHECK_DEADLOCK FALSE
