SPECIFICATION Spec
CONSTANTS
    BindKey = {b1}
    ListenerKey = {l1, l2}
    RouteKey = {r1, r2}
    ServiceKey = {k1}
    Host = {h1, any}
    Wildcard = any
    Port = {p1}
    TlsListener = {l1}
    NoBind = NoBind
    NoListener = NoListener
    NoRoute = NoRoute
    NoServer = NoServer
    NoFile = NoFile
    MaxEvents = 5
    MaxFailures = 1
SYMMETRY Symmetry
INVARIANTS
    TypeOK
    RoutesIndexed
    BackendsTracked
    RouteServesAvailable
    IncludesResolve
    RouteStaysServed
    ChangesLoaded
    CertificatePresent
CHECK_DEADLOCK FALSE
