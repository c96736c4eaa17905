SPECIFICATION FairSpec
CONSTANTS
  Horizon = 11
  Interval = 2
  PageSize = 2
  MaxOpens = 2
INVARIANT TypeOK
INVARIANT FuturesExact
INVARIANT SpotAscends
INVARIANT FundingComplete
PROPERTY WalkEnds
CHECK_DEADLOCK FALSE
