SPECIFICATION FairSpec
CONSTANTS
  r1 = r1
  r2 = r2
  Requests <- MCRequests
  Limit = 1
  Window = 2
  MaxRetries = 1
  MaxPoolSize = 1
INVARIANT TypeOK
INVARIANT PostAtMostOnce
INVARIANT OutcomeTrue
INVARIANT Paced
INVARIANT FreshSignature
PROPERTY EveryRequestEnds
