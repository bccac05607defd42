\* Three documents of two sources, three calls of index().
CONSTANTS
  d1 = d1
  d2 = d2
  d3 = d3
  s1 = s1
  s2 = s2
  Doc = {d1, d2, d3}
  Sources = {s1, s2}
  Source <- MCSource
  NoSource = NoSource
  Loads <- MCLoads
  BatchSizes = {1, 2}
  CleanupBatch = 1
  Histories = {{}, {"delete"}, {"add", "clock"}}
  MaxRuns = 3
SPECIFICATION FairSpec
INVARIANT RecordedIsStored CompleteWhenDone CleanWhenDone GroupsKept
PROPERTY NeverDeletesFresh EveryRunEnds
CHECK_DEADLOCK FALSE
