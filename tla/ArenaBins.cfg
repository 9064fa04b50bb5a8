SPECIFICATION Spec
CONSTANTS
  Threads = {t1}
  None = None
  MinLarge = 4
  LargeWidth = 3
  LargeBins = 2
  MaxFast = 0
  TcacheMax = 6
  TcacheCount = 1
  UnsortedLimit = 0
  MaxIters = 2
  ConsolidationThreshold = 20
  TrimThreshold = 20
  TopPad = 0
  PageSize = 4
  HeapLimit = 16
  MallocSizes = {2, 5}
  ReallocSizes = {}
  AlignRequests <- OneAlign
  TrimPads = {}
INVARIANTS LiveFits AlignedResult CacheBounded BinsOrdered BinmapCovers
PROPERTIES BestFitChosen
