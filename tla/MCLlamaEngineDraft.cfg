CONSTANTS
  Token = {x, y}
  Hole = Hole
  NCtx = 6
  NBatch = 5
  Hybrid = FALSE
  LogitsAll = FALSE
  MaxDraft = 3
  MaxOpen = 1
  Faults = {"decode"}
  Capacity = 0
  OnDisk = FALSE
SPECIFICATION Spec
SYMMETRY Symmetry
INVARIANT SampledFromRequest SampledRowIsOutput
