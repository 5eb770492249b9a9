SPECIFICATION Spec
CONSTANTS
    Daemons = {d1, d2}
    Old = Old
    Null = Null
SYMMETRY AnyOrder
INVARIANT SocketReachesServer
CHECK_DEADLOCK FALSE
