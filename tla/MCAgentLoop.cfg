\* Six agents, two tools (delete needs approval), two calls at a time, three
\* invocations of the thread.
CONSTANTS
  search = search
  delete = delete
  Tool = {search, delete}
  Guarded = {delete}
  Direct = {delete}
  Answer = Answer
  AnyTool = AnyTool
  NoLimit = NoLimit
  Agents <- MCAgents
  MaxBatch = 2
  MaxCalls = 6
  MaxTurns = 3
SPECIFICATION FairSpec
INVARIANT TypeOK AnsweredBeforeModel BlockedNeverRuns OnlyApprovedRuns ModelLimitKept ToolLimitKept
PROPERTY EveryInvocationEnds
CHECK_DEADLOCK FALSE
