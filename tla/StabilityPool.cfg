SPECIFICATION Spec
SYMMETRY MC_Symmetry
CONSTANTS
  NoFrontEnd = NoFrontEnd
  Tokens = {t1}
  MCR = 110
  YETISupplyCap = 200
  MaxEpoch = 1
  MaxScale = 2
  DP = 16
  SCALE_FACTOR = 4
  Users = {u1,u2,u3}
  Amounts = {20,56}
  Withdrawals = {0,20,1000}
  Debts = {7,37}
  LowestICRs = {109,110}
  Issuances = {0,20}
  KickbackRates = {4}
  MaxCalls = 5
CHECK_DEADLOCK FALSE
INVARIANTS TypeOK SnapshotsBehind SolventUpToRounding
PROPERTY OthersNeverTakeGains
