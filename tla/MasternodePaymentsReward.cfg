SPECIFICATION Spec
CONSTANTS
  None = None
  MN = {m1, m2}
  Self = None
  Voters = {m1, m2}
  Voted = {2}
  Payee = {pA, NoPayee}
  NoPayee = NoPayee
  MaxTip = 3
  TopRanked <- Ranked
  LowRanked <- RankedLow
  Required = 2
  Window = 1
  Ahead = 1
  VoteAhead = 1
  Limit = 2
  MaxLag = 1
  GetBlockValue <- HalvedReward
  MaxRestart = 0
INVARIANT PayingMoreIsValid
