SPECIFICATION FairSpec
CONSTANTS
    Targets = {t1, t2}
    Kinds = {"lvm", "raw", "host", "bcache"}
    Numbers = {1, 2}
    MaxPods = 2
    MaxFaults = 2
    None = None
INVARIANTS TypeOK  DataKept UnusedClean ExpandTrue
PROPERTIES CallsServed
CHECK_DEADLOCK FALSE
