SPECIFICATION FairSpec
CONSTANTS
  Threads = {t1, t2}
  None = None
  MinLarge = 4
  LargeWidth = 2
  LargeBins = 2
  MaxFast = 2
  TcacheMax = 6
  TcacheCount = 1
  UnsortedLimit = 0
  MaxIters = 2
  ConsolidationThreshold = 6
  TrimThreshold = 7
  TopPad = 0
  PageSize = 4
  HeapLimit = 8
  MallocSizes = {2, 4}
  ReallocSizes = {2, 4}
  AlignRequests <- OneAlign
  TrimPads = {1}
INVARIANTS LockHeld TypeOK OneOwner LiveFits
PROPERTIES ImplementsHeap LockReleased
