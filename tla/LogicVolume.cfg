SPECIFICATION FairSpec
CONSTANTS
    Vols = {1}
    Sizes = {1, 2}
    Capacity = 4
    Keep = 1
    Word = 16
    Versions = {1, 2, 3, 4, 5}
    MaxFaults = 2
    CtlLag = TRUE
    TsRuns = FALSE
    NcRuns = FALSE
    None = None
INVARIANTS TypeOK PvBacked FinalizerGuards StatusTrue
PROPERTIES ClaimServed ReleaseServed DeleteAcknowledged
CHECK_DEADLOCK FALSE
