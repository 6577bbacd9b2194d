SPECIFICATION Spec
SYMMETRY MC_Symmetry
CONSTANTS
  NoTrove = NoTrove
  Wrapped = {}
  DP = 100
  MCR = 110
  CCR = 150
  MaxCR = 1000000
  GasCompensation = 1
  MinNetDebt = 10
  PercentDivisor = 10
  Ratio <- MC_Ratio
  OpenColls <- MC_OpenColls
  AdjustColls <- MC_AdjustColls
  InitialOutside <- MC_InitialOutside
  Tokens = {t1,t2}
  HalfTokens = {}
  Borrowers = {b1,b2,b3}
  OpenAmounts = {12}
  OpenDebts = {10}
  AdjustAmounts = {3}
  AdjustDebts = {}
  Deposits = {}
  Redemptions = {}
  BorrowingFees = {0}
  DepositFees = {0}
  Prices = {100,200}
  MaxLiquidations = 1
  Supply = 39
INVARIANT RewardsAreHeld
CHECK_DEADLOCK FALSE
