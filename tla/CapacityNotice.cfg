SPECIFICATION FairSpec
CONSTANTS
    Workers = {w1}
    Cap = 1
    Configs <- MCConfigs
    Group = "g"
    MaxChanges = 2
    MaxFaults = 1
    None = None
INVARIANTS TypeOK ConfirmedReported
PROPERTIES ReportServed WorkerServed
CHECK_DEADLOCK FALSE
