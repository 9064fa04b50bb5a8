SPECIFICATION Spec
CONSTANTS
  Threads = {t1}
  Blocks = {b1, b2}
  None = None
  PageSize = 4
  Threshold = 4
  ThresholdMax = 8
  MmapsMax = {1}
  Requests = {4, 12}
  Alignments = {2}
  Settings = {4}
  MaxRemaps = 1
  MaxFallbacks = 0
INVARIANT HblkhdTrue
