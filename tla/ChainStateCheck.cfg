CONSTANTS
    Block <- TwoBranches
    Genesis = "g"
    Parent <- MCParent
    Work <- MCWork
    Address <- MCAddress
    nReprocess = 1
    MaxInvalid = 1
    MaxInvalidations = 0
    MaxRestarts = 0
SPECIFICATION Spec
INVARIANT CheckBlockIndexSucceeds
CHECK_DEADLOCK FALSE
