SPECIFICATION FairSpec
CONSTANTS
    Store = {address, resource}
    Name = {n1, n2}
    Value = {v1, v2}
    Absent = Absent
    Garbled = Garbled
    Unprintable = {v2}
    Nothing = Nothing
    MaxCalls = 3
INVARIANTS
    TypeOK
    ListFollowsContent
    OneReader
PROPERTIES
    HandlerReturns
    ListCatchesUp
CHECK_DEADLOCK FALSE
