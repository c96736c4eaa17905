SPECIFICATION FairSpec
CONSTANTS
  a = a
  b = b
  Topics <- MCOneTopic
  AuthRequired = TRUE
  Resubscribe = FALSE
  MaxCalls = 2
  MaxRuns = 1
  MaxCloses = 0
  MaxFaults = 1
  MaxQueue = 2
CHECK_DEADLOCK FALSE
INVARIANT TypeOK
INVARIANT SubsHeldBack
INVARIANT VenueInSync
PROPERTY BackoffResets
PROPERTY WantedIsStreamed
