SPECIFICATION BroadcastSpec
CONSTANTS
  m1 = m1
  m2 = m2
  ModuleIds = {m1, m2}
  Order <- MCOrder
  LastEdition = 2
  Carousel <- MCDropped
  CacheSize = 1
  MaxDamage = 1
  MaxLost = 1
PROPERTIES
  GetsCompleteUnlessStale
  FairToTheReceiver
CHECK_DEADLOCK FALSE
