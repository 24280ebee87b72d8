\* Two workers, a queue of two, four events.
SPECIFICATION ListenerSpec
CONSTANTS
    MaxWorkers = 2
    MaxQueueSize = 2
    MaxEvents = 4
INVARIANTS ListenerTypeOK
PROPERTIES ImplementsDelivery ClosedQueue EventuallyProcessed
CHECK_DEADLOCK FALSE
