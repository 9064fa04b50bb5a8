SPECIFICATION CallocSpec
CONSTANTS
  None = None
  HeapLimit = 12
INVARIANTS TypeOK Tiling BoundaryTags Coalesced CallocClears
