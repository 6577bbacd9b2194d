SPECIFICATION Spec
SYMMETRY MC_Symmetry
CONSTANTS
  NoTrove = NoTrove
  Wrapped = {}
  DP = 100
  MCR = 110
  CCR = 150
  MaxCR = 1000000
  GasCompensation = 1
  MinNetDebt = 10
  PercentDivisor = 10
  Ratio <- MC_Ratio
  OpenColls <- MC_OpenColls
  AdjustColls <- MC_AdjustColls
  InitialOutside <- MC_InitialOutside
  Tokens = {t1}
  HalfTokens = {}
  Borrowers = {b1,b2}
  OpenAmounts = {12,16}
  OpenDebts = {10}
  AdjustAmounts = {3}
  AdjustDebts = {1}
  Deposits = {}
  Redemptions = {12}
  BorrowingFees = {1}
  DepositFees = {0}
  Prices = {105,200}
  MaxLiquidations = 0
  Supply = 28
INVARIANTS MinimumDebt RedemptionMeetsOpenTroves
PROPERTIES SystemRatioIsKept RedemptionNeverHurts
CHECK_DEADLOCK FALSE
