SPECIFICATION Spec
CONSTANTS
  TCACHE_SMALL_BINS = 7
  TCACHE_LARGE_BINS = 1
  MAX_TCACHE_COUNT = 3
  IntBits = 12
  Threads = {t1, t2}
  Chunks = {512, 1040, 1568}
  Loose = {1040}
  None = None
  Junk = Junk
  FILL_COUNT = 1
  MaxSettings = {200, 300, 4200}
  CountSettings = {2}
  Requests <- MCRequests
INVARIANTS SlotsAccount SizesHaveBins AbortsOnDoubleFreeOnly ShutdownReleases
PROPERTIES CacheFirst ImplementsCache
CONSTRAINT Below4GiB
SYMMETRY Symmetry
CHECK_DEADLOCK FALSE
