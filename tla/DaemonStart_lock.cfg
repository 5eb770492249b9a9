SPECIFICATION Spec
CONSTANTS
    Daemons = {d1, d2, d3}
    Old = Old
    Null = Null
SYMMETRY AnyOrder
INVARIANTS OneHolder SocketKept
PROPERTY RefusedOnlyForRival
CHECK_DEADLOCK FALSE
