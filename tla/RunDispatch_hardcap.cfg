SPECIFICATION HardCapFair
CONSTANTS
    Dispatchers = {d1}
    MaxRun = 1
    MaxSlot = 2
    Retries = 0
    MaxEvents = 0
    None = None
PROPERTY
    HardCapEnforced
CHECK_DEADLOCK FALSE
