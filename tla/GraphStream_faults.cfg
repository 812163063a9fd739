CONSTANTS
  Records <- MCRecords
  Budgets <- MCBudgets
  BlobLength = 3
  BlobChunks = {1, 2}
  Packs = {"p1", "p2"}
  MaxFaults = 2
SPECIFICATION Spec
INVARIANTS StreamAgrees
PROPERTIES StreamEnds
