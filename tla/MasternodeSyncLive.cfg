SPECIFICATION AnsweredSpec
CONSTANTS
  Peer = {p1, p2, p3}
  OldPeer = {p3}
  Caller = {c1}
  Announced = {"LIST", "MNW"}
  Hash = {h1}
  Threshold = 1
  Quiet = 1
  Patience = 1
  Retry = 1
  Enforcing = {TRUE}
  Fault = {"reset", "loss", "sleep"}
  MaxFault = 1
PROPERTIES SyncFinishes SleepResyncs
