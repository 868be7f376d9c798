SPECIFICATION Spec
CONSTANTS
  m1 = m1
  m2 = m2
  ModuleIds = {m1, m2}
  LastEdition = 3
  Carousel <- MCThreeEditions
  CacheSize = 2
  MaxDamage = 1
INVARIANTS
  TypeOK
  OneEntryPerModule
  BlocksLeftIsExact
  DownloadedIsOnDisk
  OnlyDamageSpoilsFiles
PROPERTIES
  NeverOlder
  CompletedOnlyWhenOnDisk
  ImplementsStore
CHECK_DEADLOCK FALSE
