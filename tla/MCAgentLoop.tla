------------------------------ MODULE MCAgentLoop ------------------------------
(***************************************************************************)
(* Instances of AgentLoop for TLC: a few agents, one after the other, each *)
(* with its middlewares in another order.                                  *)
(***************************************************************************)
EXTENDS AgentLoopProps

CONSTANTS search, delete

MCAgent(middleware, toolName, toolThread, toolRun, toolExit, modelExit, format, retry) ==
  [middleware |-> middleware, modelThread |-> 3, modelRun |-> 2, modelExit |-> modelExit,
   toolName |-> toolName, toolThread |-> toolThread, toolRun |-> toolRun, toolExit |-> toolExit,
   format |-> format, retry |-> retry]

MCAgents == {
  \* limits only, the model limit counting first; a tool limit that ends
  MCAgent(<<"tool_limit", "model_limit">>, AnyTool, 2, 1, "end", "end", FALSE, TRUE),
  \* the other way round, for one tool
  MCAgent(<<"model_limit", "tool_limit">>, search, NoLimit, 1, "end", "error", FALSE, TRUE),
  \* review, then blocked calls are answered and the others go on
  MCAgent(<<"model_limit", "tool_limit", "hitl">>, search, 2, NoLimit, "continue", "end", FALSE, TRUE),
  \* review of what the limit has left
  MCAgent(<<"hitl", "tool_limit", "model_limit">>, AnyTool, 3, 2, "error", "end", FALSE, TRUE),
  \* structured output, with and without retry
  MCAgent(<<"model_limit">>, AnyTool, NoLimit, NoLimit, "continue", "end", TRUE, TRUE),
  MCAgent(<<"hitl", "model_limit">>, AnyTool, NoLimit, NoLimit, "continue", "error", TRUE, FALSE)}
=============================================================================
