SPECIFICATION Spec
CONSTANTS
  n1 = n1
  n2 = n2
  s1 = s1
  off = off
  on = on
  None = None
  Node = {n1, n2}
  Signer = {n1, n2}
  SporkId = {s1}
  Value = {off, on}
  Default <- DefaultOff
  Skew <- NoSkew
  MaxFuture = 0
  MaxTime = 2
  MaxSigned = 2
  MaxRestart = 0
INVARIANT SignerMemoryMatchesDB
CHECK_DEADLOCK FALSE
