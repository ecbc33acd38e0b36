SPECIFICATION Spec
CONSTANTS
  None = None
  MN = {m1}
  Self = None
  Voters = {m1}
  Voted = {2}
  Payee = {pA, NoPayee}
  NoPayee = NoPayee
  MaxTip = 5
  TopRanked <- Ranked
  LowRanked <- RankedLow
  Required = 2
  Window = 1
  Ahead = 1
  VoteAhead = 1
  Limit = 2
  MaxLag = 1
  GetBlockValue <- ConstantReward
  MaxRestart = 1
INVARIANT SignedAfterRestart
