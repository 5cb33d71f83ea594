SPECIFICATION QuietSpec
CONSTANTS
    Vols = {1}
    Sizes = {1}
    Capacity = 4
    Keep = 1
    Word = 16
    Versions = {1, 2, 3, 4, 5}
    MaxFaults = 2
    CtlLag = FALSE
    TsRuns = TRUE
    NcRuns = TRUE
    None = None
PROPERTIES NothingLeft OrphanServed
CHECK_DEADLOCK FALSE
