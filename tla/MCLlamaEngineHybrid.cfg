CONSTANTS
  Token = {x, y}
  Hole = Hole
  NCtx = 4
  NBatch = 2
  Hybrid = TRUE
  LogitsAll = FALSE
  MaxDraft = 0
  MaxOpen = 0
  Faults = {"decode"}
  Capacity = 3
  OnDisk = TRUE
SPECIFICATION Spec
SYMMETRY Symmetry
INVARIANT MemoryAcceptsBatches
