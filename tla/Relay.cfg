SPECIFICATION LiveSpec
CONSTANTS
    Events = {e1, e2}
    MaxConns = 2
    MaxPending = 2
    Timeout = 1
    MaxCrashes = 1
INVARIANTS
    BufferedNotLost
    NumbersUnique
    NeverUndercounts
PROPERTIES
    Drained
CHECK_DEADLOCK FALSE
