\* Does Listen return once it is cancelled?
SPECIFICATION ListenerSpec
CONSTANTS
    MaxWorkers = 2
    MaxQueueSize = 1
    MaxEvents = 3
PROPERTIES ListenReturns
CHECK_DEADLOCK FALSE
