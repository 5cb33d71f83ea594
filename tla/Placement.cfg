SPECIFICATION FairSpec
CONSTANTS
    Nodes = {"n1", "n2"}
    Policy <- MCPolicy
    VgSize <- MCVgSize
    DiskSize <- MCDiskSize
    Overlaps <- MCOverlaps
    Class <- MCClass
    Bytes <- MCBytes
    ClaimsOf <- MCClaimsOf
    Immediate <- MCImmediate
    Topology <- MCTopology
    Scenarios <- MCScenarios
    Strategy = "binpack"
    Gi = 2
    Reserved = 4
    Edge = 2
    MaxChanges = 1
INVARIANTS TypeOK FilterExact   
PROPERTIES ClaimPlaced
CHECK_DEADLOCK FALSE
