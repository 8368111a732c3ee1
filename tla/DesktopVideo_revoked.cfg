SPECIFICATION DesktopSpec
CONSTANTS
  Viewers = {v1}
  MaxPending = 2
  ChanCap = 2
  MaxDrops = 2
  Scenes <- RevokeOnly
  w1 = w1
  w2 = w2
  Views = {w1, w2}
  MaxOffers = 5
  Peerings <- NoPeerings
PROPERTY
    PictureReturns
CHECK_DEADLOCK FALSE
