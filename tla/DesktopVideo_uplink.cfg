SPECIFICATION DesktopSpec
CONSTANTS
  Viewers = {v1}
  MaxPending = 2
  ChanCap = 2
  MaxDrops = 2
  Scenes <- BacklogOnly
  w1 = w1
  w2 = w2
  Views = {w1, w2}
  MaxOffers = 5
  Peerings <- NoPeerings
INVARIANT
    UplinkTearsNothing
CHECK_DEADLOCK FALSE
