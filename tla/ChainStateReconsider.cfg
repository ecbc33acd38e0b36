CONSTANTS
    Block <- TwoBranches
    Genesis = "g"
    Parent <- MCParent
    Work <- MCWork
    Address <- MCAddress
    nReprocess = 1
    MaxInvalid = 0
    MaxInvalidations = 2
    MaxRestarts = 0
SPECIFICATION Spec
INVARIANT BestChainAlwaysActive
CHECK_DEADLOCK FALSE
