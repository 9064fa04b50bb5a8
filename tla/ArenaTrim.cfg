SPECIFICATION Spec
CONSTANTS
  Threads = {t1}
  None = None
  MinLarge = 5
  LargeWidth = 2
  LargeBins = 2
  MaxFast = 2
  TcacheMax = 7
  TcacheCount = 1
  UnsortedLimit = 0
  MaxIters = 2
  ConsolidationThreshold = 8
  TrimThreshold = 10
  TopPad = 0
  PageSize = 4
  HeapLimit = 16
  MallocSizes = {3}
  ReallocSizes = {2, 5}
  AlignRequests <- AlignPairs
  TrimPads = {1}
PROPERTY TrimNeverGrows
