SPECIFICATION Spec
CONSTANTS
  Users = {u1,u2}
  DP = 10
  LockTime = 2
  RebaseDelay = 1
  PublicDelay = 3
  PublicPercent = 50
  Mints = {2,3}
  Fees = {2}
  Donations = {1}
  Sales = {2}
  Quotes = {1,2}
  Ratios = {5}
  Supply = 9
  MaxYUSD = 4
INVARIANTS TypeOK SharesBacked
PROPERTY SharePriceNeverFalls
CHECK_DEADLOCK FALSE
