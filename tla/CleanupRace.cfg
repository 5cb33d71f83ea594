SPECIFICATION Spec
CONSTANTS
    Vols = {1}
    Sizes = {1, 2}
    Capacity = 6
    Keep = 1
    Word = 16
    Versions = {1, 2, 3, 4, 5}
    MaxFaults = 0
    CtlLag = FALSE
    TsRuns = FALSE
    NcRuns = TRUE
    None = None
PROPERTY OnlyUnneededDeleted
CHECK_DEADLOCK FALSE
