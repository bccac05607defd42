CONSTANTS
  Token = {x, y}
  Hole = Hole
  NCtx = 4
  NBatch = 3
  Hybrid = TRUE
  LogitsAll = TRUE
  MaxDraft = 1
  MaxOpen = 1
  Faults = {"decode", "load", "embed"}
  Capacity = 1
  OnDisk = TRUE
SPECIFICATION FairSpec
PROPERTY EveryCompletionEnds
