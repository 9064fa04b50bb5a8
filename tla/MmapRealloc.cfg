SPECIFICATION Spec
CONSTANTS
  Threads = {t1}
  Blocks = {b1, b2}
  None = None
  PageSize = 4
  Threshold = 3
  ThresholdMax = 11
  MmapsMax = {1}
  Requests = {4, 13, 14}
  Alignments = {2}
  Settings = {3}
  MaxRemaps = 1
  MaxFallbacks = 1
INVARIANT ReallocKeepsData
