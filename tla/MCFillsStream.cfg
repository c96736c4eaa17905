SPECIFICATION Spec
CONSTANTS
  o1 = o1
  o2 = o2
  Orders <- MCOrders
  Foreign <- MCForeign
  NoOrder = NoOrder
  MaxVol = 3
  MaxCancels = 0
  MaxGaps = 1
  MaxRedeliveries = 2
CHECK_DEADLOCK FALSE
INVARIANT NoOverCredit
INVARIANT FillBeforeFinal
