SPECIFICATION BroadcastSpec
CONSTANTS
  m1 = m1
  m2 = m2
  ModuleIds = {m1, m2}
  Order <- MCOrder
  LastEdition = 2
  Carousel <- MCResized
  CacheSize = 1
  MaxDamage = 0
  MaxLost = 0
PROPERTIES
  GetsCompleteFileSystem
CHECK_DEADLOCK FALSE
