SPECIFICATION FairSpec
CONSTANTS
  c1 = c1
  c2 = c2
  Callers <- MCCallers
  Nobody = Nobody
  MaxCalls = 4
  MaxThrows = 1
CHECK_DEADLOCK FALSE
INVARIANT SessionServed
PROPERTY PostedRuns
PROPERTY NobodyBlocks
