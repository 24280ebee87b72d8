\* One CreatePod call, no failure: is every volume in the pod directory when the job starts?
SPECIFICATION VolumesSpec
CONSTANTS
    a = a
    b = b
    MaxWrites = 1
    Names <- MCNames
    MaxContent = 2
    MaxErrors = 0
    Pods <- MCPods
    Objects <- MCObjects
    MaxTries = 2
    MaxChanges = 0
    Data <- MCData
INVARIANTS PreparedInPodDirectory
CHECK_DEADLOCK FALSE
