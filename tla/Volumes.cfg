SPECIFICATION VolumesSpec
CONSTANTS
    a = a
    b = b
    MaxWrites = 2
    Names <- MCNames
    MaxContent = 2
    MaxErrors = 1
    Pods <- MCPods
    Objects <- MCObjects
    MaxTries = 2
    MaxChanges = 1
    Data <- MCData
INVARIANTS VolumesTypeOK SubmittedMounted QuiescentClean PanicNeedsCause
PROPERTIES ImplementsAtomicVolume JobKeepsVolume MountingEnds
CHECK_DEADLOCK FALSE
