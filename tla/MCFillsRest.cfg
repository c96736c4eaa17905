SPECIFICATION FairSpec
CONSTANTS
  o1 = o1
  o2 = o2
  Orders <- MCOrders
  Foreign <- MCNone
  NoOrder = NoOrder
  MaxVol = 2
  MaxCancels = 2
  MaxGaps = 1
  MaxRedeliveries = 0
CHECK_DEADLOCK FALSE
INVARIANT Ledger
PROPERTY Implements
INVARIANT SettledCredit
PROPERTY EveryDealCredited
