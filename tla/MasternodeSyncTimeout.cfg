SPECIFICATION FairSpec
CONSTANTS
  Peer = {p1, p2, p3}
  OldPeer = {}
  Caller = {c1}
  Announced = {"LIST", "MNW"}
  Hash = {}
  Threshold = 2
  Quiet = 1
  Patience = 6
  Retry = 1
  Enforcing = {TRUE}
  Fault = {}
  MaxFault = 0
PROPERTY ListTimesOut
