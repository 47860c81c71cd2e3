SPECIFICATION Spec
CONSTANTS
    Uid = {u1}
    Pod = {u1}
    ServiceKey = {k1}
    Addr = {a1}
    Port = {p1}
    NoAddr = NoAddr
    NoPort = NoPort
    NoService = NoService
    NoWorkload = NoWorkload
    NoFile = NoFile
SYMMETRY Symmetry
INVARIANT
    LockReleasedOnReturn
CHECK_DEADLOCK FALSE
