SPECIFICATION Spec
CONSTANTS
    Uid = {u1, u2, vm}
    Pod = {u1, u2}
    ServiceKey = {k1, k2}
    Addr = {a1, a2}
    Port = {p1}
    NoAddr = NoAddr
    NoPort = NoPort
    NoService = NoService
    NoWorkload = NoWorkload
    NoFile = NoFile
SYMMETRY Symmetry
INVARIANTS
    TypeOK
    WorkloadListed
    EndpointsPublished
    EndpointsExact
    ArrivalsAnnounced
    FilesTracked
PROPERTIES
    ImplementsEndpointStore
CHECK_DEADLOCK FALSE
