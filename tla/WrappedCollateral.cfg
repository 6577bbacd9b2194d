SPECIFICATION Spec
SYMMETRY MC_Symmetry
CONSTANTS
  Users = {u1, u2}
  ACC_PRECISION = 1
  Amounts = {1, 2}
  Destinations <- MC_Destinations
  RewardRecipients <- MC_Recipients
  PERCENT_DIVISOR = 2
  MaxStaked = 3
  MaxAcc = 1
INVARIANTS TypeOK HoldersMatchEarners TreasuryEarnsForPools JoeCoversRewards
PROPERTY OwnersKeepTheirShares
CHECK_DEADLOCK FALSE
