SPECIFICATION Spec
CONSTANTS
  Threads = {t1, t2}
  Nodes = {n1, n2, n3}
  Hashes = {h0, h1, h2, h3, h4, h5}
  NoHash = h0
  Null = Null
  Junk = Junk
INVARIANT RecursOnlyAfterReuse
PROPERTY StackUntilRecurrence
CONSTRAINT UpToRecurrence
SYMMETRY Symmetry
