SPECIFICATION RouteSpec
CONSTANTS
    p1 = p1
    p2 = p2
    Procs = {p1, p2}
    Writers <- TwoProcesses
    First = First
    NoOne = NoOne
CHECK_DEADLOCK FALSE
INVARIANTS
    RouteTypeOK
    OneDelivery
    OkMeansApplied
