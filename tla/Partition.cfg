SPECIFICATION FairSpec
CONSTANTS
    Names = {n1, n2}
    Exclusive = {n1}
    Want <- MCWant
    DiskSize = 4
    LastNumber = 2
    MaxOps = 3
    MaxFaults = 2
    None = None
INVARIANTS TypeOK TableSound RawBacked
PROPERTIES ForeignKept  OrphanPartitionServed
CHECK_DEADLOCK FALSE
