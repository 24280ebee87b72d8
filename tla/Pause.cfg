\* One init container, two main ones, every kind of failure.
SPECIFICATION PauseSpec
CONSTANTS
    NInit = 1
    NMain = 2
    Faults = {"io", "api", "start", "kill", "term"}
INVARIANTS PauseTypeOK ExitRecorded InitThenMain CodesTruthful
PROPERTIES FilesOnlyGrow SignalEndsPause
CHECK_DEADLOCK FALSE
