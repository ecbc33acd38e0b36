CONSTANTS
    Block <- TwoBranches
    Genesis = "g"
    Parent <- MCParent
    Work <- MCWork
    Address <- MCAddress
    nReprocess = 1
    MaxInvalid = 1
    MaxInvalidations = 2
    MaxRestarts = 1
SPECIFICATION Spec
INVARIANTS TypeOK CandidatesComplete BestChainActive NoFailedActive StartsAgainUnlessInvalidating
PROPERTY ActivationEnds
CHECK_DEADLOCK FALSE
