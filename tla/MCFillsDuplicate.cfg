SPECIFICATION Spec
CONSTANTS
  o1 = o1
  o2 = o2
  Orders <- MCOrders
  Foreign <- MCNone
  NoOrder = NoOrder
  MaxVol = 2
  MaxCancels = 1
  MaxGaps = 0
  MaxRedeliveries = 1
CHECK_DEADLOCK FALSE
INVARIANT NoOverCredit
