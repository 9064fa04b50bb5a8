SPECIFICATION FairSpec
CONSTANTS
  Threads = {t1, t2, t3}
  Chunks = {c1, c2, c3}
  None = None
  Junk = Junk
INVARIANT NoJunkFollowed
PROPERTIES ImplementsStack PopEnds
