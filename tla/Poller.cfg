\* Two files, two watches, two versions, two removals.
SPECIFICATION PollerSpec
CONSTANTS
    Files = {f1, f2}
    MaxAdds = 2
    MaxVersions = 2
    MaxRemovals = 2
INVARIANTS PollerTypeOK NoFalseCreate
PROPERTIES CreationReported
CHECK_DEADLOCK FALSE
