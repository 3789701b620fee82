SPECIFICATION SplitSpec
CONSTANTS
  BPS_DENOMINATOR = 10
  MAX_TREASURY_BPS = 5
  MAX_IP_CREATOR_BPS = 3
  MAX_AGGREGATE_BPS = 9
  U64_SIZE = 64
  MaxBps = 21
INVARIANTS
  SplitIsExact
  RefusalsAreExactlyThese
  LegsStayWithinGross
CHECK_DEADLOCK FALSE
