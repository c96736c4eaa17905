SPECIFICATION Spec
CONSTANTS
  Horizon = 11
  Interval = 2
  PageSize = 2
  MaxOpens = 0
INVARIANT SpotNoHole
CHECK_DEADLOCK FALSE
