SPECIFICATION FairSpec
CONSTANTS
    ServiceKey = {k1}
    Endpoint = {e1}
    RouteKey = {r1}
    NoFile = NoFile
    NoRoute = NoRoute
    NotRead = NotRead
    MaxEvents = 6
    FaultCost = 2
PROPERTIES
    EventuallyServes
    FailureEndsProcess
CHECK_DEADLOCK FALSE
