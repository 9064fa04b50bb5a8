SPECIFICATION Spec
CONSTANTS
  OPSIZ = 8
  GenericLimit = 150
  Limits = {5, 100, 200}
  Memory <- MCMemory
  Dsts <- MCDsts
  Lengths <- MCLengths
  Old = Old
  Fill = Fill
  Zero = Zero
INVARIANTS ExactFill WordsAligned
