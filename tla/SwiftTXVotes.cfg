SPECIFICATION Spec
CONSTANTS
  t1 = t1
  t2 = t2
  i1 = i1
  i2 = i2
  m1 = m1
  m2 = m2
  m3 = m3
  None = None
  Tx = {t1}
  Input = {i1}
  spends <- SpendsOne
  Unfit = {}
  MN = {m1, m2, m3}
  Self = m1
  Height = {0, 1}
  LockHeight <- HeightOne
  TopRanked <- NotM3
  Required = 2
  nReprocess = 0
  MaxBlocks = 1
INVARIANTS TypeOK DistinctVoters
CHECK_DEADLOCK FALSE
