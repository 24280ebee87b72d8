\* One pod, one creation, one crash.
SPECIFICATION LifecycleSpec
CONSTANTS
    MaxPods = 1
    MaxCreates = 1
    MaxUpdates = 0
    MaxCrashes = 1
    MaxRetries = 0
INVARIANTS WatchedWhileSaved
CHECK_DEADLOCK FALSE
