\* Two threads, three tool calls, two if one of them ends the shell or restarts the session.
CONSTANTS
  Thread = {t1, t2}
  MaxCalls = 3
  MaxBesides = 2
SPECIFICATION FairSpec
INVARIANT CodeIsOwn StdoutIsWhole ShellIsFree SessionSurvives NoShellLeft
PROPERTY EveryCallReturns
CHECK_DEADLOCK FALSE
