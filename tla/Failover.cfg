SPECIFICATION FairSpec
CONSTANTS
    Nodes = {"n1", "n2"}
    ClaimsOf <- MCClaimsOf
    ClassNote <- MCClassNote
    Setups <- MCSetups
    MaxVolumes = 2
    MaxFails = 1
    MaxFaults = 1
    None = None
INVARIANTS ClaimKept
PROPERTIES OnlyFailedDiscarded 
CHECK_DEADLOCK FALSE
