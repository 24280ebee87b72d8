\* One init and one main container, a queue of one, one update: truthful statuses and
\* what must eventually happen.
SPECIFICATION EventsSpec
CONSTANTS
    NInit = 1
    NMain = 1
    Faults = {}
    MaxQueueSize = 1
    MaxUpdates = 1
INVARIANTS EventsTypeOK StatusTruthful QuiescentUpToDate
PROPERTIES ListenerNeverRegresses NotificationsUpToDate ResultReachesKubernetes
CHECK_DEADLOCK FALSE
