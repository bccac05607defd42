CONSTANTS
  Token = {x, y}
  Hole = Hole
  NCtx = 4
  NBatch = 1
  Hybrid = FALSE
  LogitsAll = FALSE
  MaxDraft = 0
  MaxOpen = 0
  Faults = {"decode"}
  Capacity = 2
  OnDisk = FALSE
SPECIFICATION Spec
SYMMETRY Symmetry
INVARIANT SampledFromRequest TokensDescribeMemory
PROPERTY ReusedIsEvictedLast
