SPECIFICATION FairSpec
CONSTANTS
  leg1 = leg1
  leg2 = leg2
  Legs <- MCLegs
  NoLeg = NoLeg
  Spacing = 2
  CooldownBase = 8
  CooldownCap = 48
  Horizon = 50
INVARIANT BoundedLockout
PROPERTY SpacedStarts
PROPERTY NoStartInCooldown
PROPERTY LaneFlows
