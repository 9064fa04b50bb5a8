SPECIFICATION Spec
CONSTANTS
  Threads = {t1, t2}
  Blocks = {b1, b2, b3}
  None = None
  PageSize = 4
  Threshold = 4
  ThresholdMax = 8
  MmapsMax = {0, 1}
  Requests = {4, 12}
  Alignments = {2}
  Settings = {4}
  MaxRemaps = 1
  MaxFallbacks = 1
INVARIANTS CountsExact PeaksCovered LimitOvershoot BlocksWhole ManualThresholdKept
SYMMETRY Symmetry
CONSTRAINT OneDeparture
VIEW Trimless
