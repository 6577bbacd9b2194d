SPECIFICATION Spec
CONSTANTS
  c1 = c1
  c2 = c2
  t1 = t1
  DP = 100
  FiveDays = 3
  Minute = 2
  MaxMinutes = 4
  MinuteDecayFactor = 90
  BETA = 2
  RedemptionFeeFloor = 1
  Tokens = {t1}
  Curves = {c1,c2}
  DecayTimes = {2}
  InitialCurve <- MC_InitialCurve
  ParamSets <- MC_ParamSets
  Deposits <- MC_Deposits
  Redemptions <- MC_Redemptions
  DeployTime = 2
  MaxTime = 5
INVARIANTS TypeOK DecayKeepsPace RedemptionsStayOpen FeeMemoryLasts
CHECK_DEADLOCK FALSE
