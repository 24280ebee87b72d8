\* One main container: can reading a control file bring HPK down?
SPECIFICATION EventsSafety
CONSTANTS
    NInit = 0
    NMain = 1
    Faults = {}
    MaxQueueSize = 1
    MaxUpdates = 0
INVARIANTS NoPanic
CHECK_DEADLOCK FALSE
