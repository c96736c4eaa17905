SPECIFICATION FairSpec
CONSTANTS
  l1 = l1
  l2 = l2
  Legs <- MCLegs
  MarketLegs <- MCMarketLegs
  NoLeg = NoLeg
  Decades <- MCDecades
  MaxVersion = 3
  Contract <- MCContract
  DefaultUnit = 10
  Price = 370
  Qty = 26
  Texts <- MCTexts
  MaxRefreshes = 1
  MaxFails = 1
  MaxRefusals = 1
CHECK_DEADLOCK FALSE
INVARIANT FetchedOnly
INVARIANT OrderFits
PROPERTY EveryLegEnds
