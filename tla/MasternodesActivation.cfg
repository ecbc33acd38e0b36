CONSTANTS
    Node = {"hot", "cold"}
    Hot = "hot"
    Cold = "cold"
    MinMnp = 2
    PingGap = 2
    MinMnb = 1
    PingEvery = 1
    Window = 2
    Expiration = 3
    Removal = 4
    MaxTime = 6
    MaxStarts = 2
    MaxOutages = 1
SPECIFICATION Spec
PROPERTY RemotelyActivated
CHECK_DEADLOCK FALSE
