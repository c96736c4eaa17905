SPECIFICATION Spec
CONSTANTS
  a = a
  b = b
  Topics <- MCOneTopic
  AuthRequired = FALSE
  Resubscribe = FALSE
  MaxCalls = 1
  MaxRuns = 2
  MaxCloses = 1
  MaxFaults = 1
  MaxQueue = 1
CHECK_DEADLOCK FALSE
INVARIANT LoopAlive
INVARIANT OneWriter
INVARIANT NoStuckMessage
PROPERTY ClosedForGood
