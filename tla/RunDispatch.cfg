SPECIFICATION Spec
CONSTANTS
    Dispatchers = {d1, d2}
    MaxRun = 2
    MaxSlot = 2
    Retries = 1
    MaxEvents = 1
    None = None
SYMMETRY Symmetry
INVARIANTS
    OneCompletion
    LedgerAgrees
    OneLiveAttempt
    SingleInstance
    CancelFences
PROPERTIES
    SlotsAccounted
    VerdictStands
CHECK_DEADLOCK FALSE
