SPECIFICATION FairSpec
CONSTANTS
  u1 = u1
  u2 = u2
  s1 = s1
  c1 = c1
  Users <- MCUsers
  Symbols <- MCSymbols
  Candles <- MCCandles
  Nothing = Nothing
  Shapes <- MCShapes
  MaxMsgs = 3
  MaxBreaks = 1
  MaxCalls = 3
  MaxTries = 1
CHECK_DEADLOCK FALSE
INVARIANT CacheIsMerge
INVARIANT PullMatchesPush
PROPERTY EveryUpdatePushed
PROPERTY ReadsEnd
