SPECIFICATION Spec
SYMMETRY MCSymmetry
CONSTANTS
    w1 = w1
    w2 = w2
    v1 = v1
    v2 = v2
    d1 = d1
    d2 = d2
    Workers = {w1, w2}
    Checker = checker
    Vols = {v1, v2}
    Disks = {d1, d2}
    Sizes = {1, 2}
    PvSize <- MCPvSize
    DevSize <- MCDevSize
    Reserved = 3
    Edge = 1
    Word = 16
    MaxTries = 1
    None = None
INVARIANTS TypeOK MutexHeld ResultsTrue
PROPERTIES ReserveKept VolumesSafe
