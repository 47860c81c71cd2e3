SPECIFICATION Spec
CONSTANTS
    BindKey = {b1}
    ListenerKey = {l1}
    RouteKey = {r1}
    ServiceKey = {k1}
    Host = {h1, any}
    Wildcard = any
    Port = {p1}
    TlsListener = {l1}
    NoBind = NoBind
    NoListener = NoListener
    NoRoute = NoRoute
    NoServer = NoServer
    NoFile = NoFile
    MaxEvents = 5
    MaxFailures = 0
SYMMETRY Symmetry
INVARIANT
    UntrackedWhenUnused
CHECK_DEADLOCK FALSE
