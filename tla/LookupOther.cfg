SPECIFICATION Spec
CONSTANTS
    Vols = {1, 2}
    Sizes = {1, 2}
    Capacity = 6
    Keep = 1
    Word = 16
    Versions = {1, 2, 3, 4, 5}
    MaxFaults = 0
    CtlLag = TRUE
    TsRuns = FALSE
    NcRuns = FALSE
    None = None
INVARIANT OwnObject
CHECK_DEADLOCK FALSE
