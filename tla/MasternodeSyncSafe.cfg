SPECIFICATION Spec
CONSTANTS
  Peer = {p1, p2, p3}
  OldPeer = {}
  Caller = {c1}
  Announced = {"LIST", "MNW", "BUDGET"}
  Hash = {h1}
  Threshold = 1
  Quiet = 1
  Patience = 1
  Retry = 1
  Enforcing = {FALSE}
  Fault = {"reset", "sleep", "loss", "spork", "disconnect"}
  MaxFault = 1
INVARIANTS TypeOK ChainSyncedFirst FinishedWithData
SYMMETRY PeerSymmetry
