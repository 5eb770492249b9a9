CONSTANTS
  StopBlockCap = 2
  MaxMessage = 2
  MaxListener = 2
  MaxEvents = 3
SPECIFICATION Spec
INVARIANTS AckedIsShown OldestIsSignalled
PROPERTIES NoSilentStop ToldWithoutUser SessionRests
CHECK_DEADLOCK FALSE
