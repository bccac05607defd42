---------------------------- MODULE AgentLoopProps ----------------------------
(***************************************************************************)
(* What is checked of AgentLoop.                                           *)
(***************************************************************************)
EXTENDS AgentLoop

Call == [id : (Nat \X Nat), name : Tool \cup {Answer}]

\* Every variable keeps to its type (AgentState and the states of the middlewares).
TypeOK ==
  /\ agent \in Agents
  /\ \A i \in DOMAIN messages :
       LET m == messages[i] IN
       \/ m = Human
       \/ m.type = "ai" /\ m.calls \in Seq(Call) /\ m.by \in {"model", "limit"} /\ m.turn \in 1 .. turn
       \/ m.type = "tool" /\ m.by \in {"model", "limit", "human", "tool"} /\ m.turn \in 1 .. turn
  /\ node \in {"idle", "before", "model", "after", "interrupted", "tools"}
  /\ hook \in 0 .. Len(agent.middleware)
  /\ hook # 0 <=> node \in {"after", "interrupted"}
  /\ structured \in 0 .. turn
  /\ {threadModel, runModel, threadTool, runTool} \subseteq Nat
  /\ turn \in 0 .. MaxTurns
  /\ outcome \in {"none", "done", "limit", "failed"}
  /\ approved \subseteq Call

------------------------------------------------------------------------------

Answers(call) == {i \in DOMAIN messages : messages[i].type = "tool" /\ messages[i].call = call.id}

\* The AI messages since the last input of the user.
ThisRun ==
  LET humans == {i \in DOMAIN messages : messages[i] = Human} IN
  {i \in AIs(messages) : \A h \in humans : h < i}

\* Model providers refuse a conversation in which a tool call has no answer: within
\* a run the model is called again only when every call it made is answered, by a
\* tool, by a limit that blocked it, by the human or as structured output.
AnsweredBeforeModel ==
  node = "model" =>
    \A i \in ThisRun : \A k \in DOMAIN messages[i].calls : Answers(messages[i].calls[k]) # {}

\* A call that a limit blocked, the human rejected or answered, or that was
\* structured output never runs as well, and no call runs twice: what runs is what
\* has no tool message after the last AI message, however the hooks are ordered.
BlockedNeverRuns ==
  \A i \in AIs(messages) : \A k \in DOMAIN messages[i].calls :
    LET answers == Answers(messages[i].calls[k])
        runs    == {m \in answers : messages[m].by = "tool"}
    IN runs # {} => Cardinality(answers) = 1

\* No call of a guarded tool runs unless a human approved it, with the name it runs
\* under: hooks that jump, limits and edits give no way around the interrupt.
OnlyApprovedRuns ==
  Has("hitl") =>
    \A m \in Range(messages) :
      m.type = "tool" /\ m.by = "tool" /\ m.name \in Guarded
        => [id |-> m.call, name |-> m.name] \in approved

------------------------------------------------------------------------------

Within(count, limit) == limit = NoLimit \/ count <= limit

ModelMessages(t) ==
  Cardinality({i \in AIs(messages) : messages[i].by = "model" /\ messages[i].turn \in t})

ToolMessages(t) ==
  Cardinality({i \in DOMAIN messages : /\ messages[i].type = "tool" /\ messages[i].by = "tool"
                                       /\ agent.toolName \in {AnyTool, messages[i].name}
                                       /\ messages[i].turn \in t})

Before(m1, m2) ==
  \E i, j \in DOMAIN agent.middleware : i < j /\ agent.middleware[i] = m1 /\ agent.middleware[j] = m2

\* ModelCallLimitMiddleware: "Maximum number of model calls allowed" per run, and
\* per thread when no other hook can end the run before the count is raised, that
\* is when it is the last in the list.
ModelLimitKept ==
  Has("model_limit") =>
    /\ Within(ModelMessages({turn}), agent.modelRun)
    /\ Last(agent.middleware) = "model_limit" => Within(ModelMessages(1 .. turn), agent.modelThread)

\* ToolCallLimitMiddleware: "Maximum number of tool calls allowed" per thread and
\* per run, when it counts the calls as they are after the review.
ToolLimitKept ==
  Has("tool_limit") /\ ~Before("hitl", "tool_limit") =>
    /\ Within(ToolMessages(1 .. turn), agent.toolThread)
    /\ Within(ToolMessages({turn}), agent.toolRun)

------------------------------------------------------------------------------

Resting == {"idle", "interrupted"}

\* With a limit on the model calls of a run, an invocation ends, or waits for the
\* human, whatever the model calls: no hook sends the graph round for ever.
EveryInvocationEnds == node \notin Resting ~> node \in Resting
=============================================================================
