\* One init and one main container: is a failed init container reported?
SPECIFICATION EventsJobSpec
CONSTANTS
    NInit = 1
    NMain = 1
    Faults = {}
    MaxQueueSize = 1
    MaxUpdates = 0
PROPERTIES InitFailureReported
CHECK_DEADLOCK FALSE
