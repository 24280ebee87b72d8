\* Two pods of one name, two calls of CreatePod, one update, crash and retry.
SPECIFICATION LifecycleSpec
CONSTANTS
    MaxPods = 2
    MaxCreates = 2
    MaxUpdates = 1
    MaxCrashes = 1
    MaxRetries = 1
INVARIANTS LifecycleTypeOK NoLeakedJob OneJobPerPod RightIncarnation
PROPERTIES CancelledBeforeRemoval DeletionCompletes
CHECK_DEADLOCK FALSE
