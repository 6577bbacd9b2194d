SPECIFICATION Spec
SYMMETRY MC_Symmetry
CONSTANTS
  NoTrove = NoTrove
  Wrapped = {}
  DP = 100
  MCR = 110
  CCR = 150
  MaxCR = 1000000
  GasCompensation = 1
  MinNetDebt = 10
  PercentDivisor = 10
  Ratio <- MC_Ratio
  OpenColls <- MC_OpenColls
  AdjustColls <- MC_AdjustColls
  InitialOutside <- MC_InitialOutside
  Tokens = {t1}
  HalfTokens = {}
  Borrowers = {b1,b2,b3}
  OpenAmounts = {12,14,23}
  OpenDebts = {10}
  AdjustAmounts = {}
  AdjustDebts = {}
  Deposits = {10,15}
  Redemptions = {}
  BorrowingFees = {0}
  DepositFees = {0}
  Prices = {100,200}
  MaxLiquidations = 1
  Supply = 49
INVARIANTS TypeOK SupplyMatchesDebt CollateralConserved TotalsMatchTroves GasPoolCoversTroves PoolsCoverClaims BatchTracksSystem
CHECK_DEADLOCK FALSE
