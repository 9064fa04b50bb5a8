SPECIFICATION Spec
CONSTANTS
  Threads = {t1, t2}
  Nodes = {n1, n2, n3}
  Hashes = {h0}
  NoHash = h0
  Null = Null
  Junk = Junk
PROPERTY ImplementsStack
