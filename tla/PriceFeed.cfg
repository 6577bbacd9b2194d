SPECIFICATION Spec
CONSTANTS
  Prices = {100, 200, 215}
  Decimals = {1, 3}
  TARGET_DIGITS = 2
  TELLOR_DIGITS = 1
  TIMEOUT = 1
  DECIMAL_PRECISION = 1000
  MAX_PRICE_DEVIATION_FROM_PREVIOUS_ROUND = 500
  MAX_PRICE_DIFFERENCE_BETWEEN_ORACLES = 50
INVARIANTS TypeOK
PROPERTIES GoodPriceWasLive DistrustLastsUntilAgreement JumpNeedsSecondOracle
           ViewMatchesFetch
