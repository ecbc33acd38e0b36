SPECIFICATION FairSpec
CONSTANTS
  t1 = t1
  t2 = t2
  i1 = i1
  i2 = i2
  m1 = m1
  m2 = m2
  m3 = m3
  None = None
  Tx = {t1, t2}
  Input = {i1}
  spends <- SpendsOne
  Unfit = {}
  MN = {m1}
  Self = None
  Height = {0, 1}
  LockHeight <- HeightOne
  TopRanked <- AllRanked
  Required = 1
  nReprocess = 0
  MaxBlocks = 1
PROPERTY InputsGetReleased
CHECK_DEADLOCK FALSE
