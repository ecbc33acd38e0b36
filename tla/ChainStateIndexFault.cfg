CONSTANTS
    Block <- TwoBranches
    Genesis = "g"
    Parent <- MCParent
    Work <- MCWork
    Address <- MCAddress
    nReprocess = 1
    MaxInvalid = 0
    MaxInvalidations = 0
    MaxRestarts = 1
SPECIFICATION IndexFaultSpec
INVARIANT StartsAgainUnlessInvalidating
CHECK_DEADLOCK FALSE
