------------------------------ MODULE AgentLoop ------------------------------
(***************************************************************************)
(* The graph create_agent builds (langchain/agents/factory.py) with three  *)
(* of its middlewares: ModelCallLimitMiddleware, ToolCallLimitMiddleware   *)
(* and HumanInTheLoopMiddleware, on one checkpointed thread.               *)
(* An action is one node of the graph with the edge that follows it, which *)
(* langgraph runs as one superstep; a node that raises writes nothing.     *)
(***************************************************************************)
EXTENDS Integers, Sequences, FiniteSets, SequencesExt, FiniteSetsExt

CONSTANTS
  Tool,      \* names of the client-side tools
  Guarded,   \* those that interrupt_on names
  Direct,    \* those with return_direct
  Answer,    \* the name of the structured output tool
  AnyTool,       \* tool_name is None: the limit counts calls of every name
  NoLimit,   \* a limit that is None
  Agents,    \* the arguments of create_agent and of the middlewares
  MaxBatch,  \* most tool calls of one model output
  MaxCalls,  \* most model calls of a thread, more than the limits allow
  MaxTurns   \* most invocations of a thread, resumes included

Limit == Nat \cup {NoLimit}
Exits == {"continue", "end", "error"}

Agent == [middleware : Seq({"model_limit", "tool_limit", "hitl"}),
          modelThread : Limit, modelRun : Limit, modelExit : Exits \ {"continue"},
          toolName : Tool \cup {AnyTool}, toolThread : Limit, toolRun : Limit, toolExit : Exits,
          format : BOOLEAN,      \* a response_format (ToolStrategy) is given
          retry  : BOOLEAN]      \* handle_errors

ASSUME AgentAssumption ==
  /\ Answer \notin Tool /\ AnyTool \notin Tool /\ NoLimit \notin Nat
  /\ Tool # {}
  /\ Guarded \subseteq Tool /\ Direct \subseteq Tool
  /\ MaxBatch \in Nat /\ MaxCalls \in Nat /\ MaxTurns \in Nat
  /\ Agents \subseteq Agent
  /\ \A a \in Agents :
       /\ \A i, j \in DOMAIN a.middleware : a.middleware[i] = a.middleware[j] => i = j
       /\ a.toolThread # NoLimit /\ a.toolRun # NoLimit => a.toolRun <= a.toolThread

VARIABLES
  agent,        \* the agent that was created
  messages,     \* state["messages"]
  node,         \* the node that runs next; "idle": none, "interrupted": hitl waits
  hook,         \* the middleware whose after_model runs next, 0: none
  structured,   \* the turn that wrote state["structured_response"], 0: none did
  threadModel, runModel,   \* thread_model_call_count, run_model_call_count
  threadTool, runTool,     \* the limit's entry in thread_/run_tool_call_count
  turn,         \* invocations so far
  outcome,      \* how the last invocation ended
  approved      \* the calls a human let run, as they run

counts == <<threadModel, runModel, threadTool, runTool>>
vars   == <<agent, messages, node, hook, structured, counts, turn, outcome, approved>>

------------------------------------------------------------------------------
(* Messages *)

Human            == [type |-> "human"]
AI(calls, by)    == [type |-> "ai", calls |-> calls, by |-> by, turn |-> turn]
Reply(call, by, t) == [type |-> "tool", call |-> call.id, name |-> call.name,
                       by |-> by, turn |-> t]

\* The positions in P as they follow each other.
InOrder(P) == {s \in Surjection(1 .. Cardinality(P), P) : \A i, j \in DOMAIN s : i < j => s[i] < s[j]}

\* The replies to the calls at the positions in P, in their order: the one member.
Replies(calls, P, by, t) == {[k \in DOMAIN s |-> Reply(calls[s[k]], by, t)] : s \in InOrder(P)}

AIs(msgs) == {i \in DOMAIN msgs : msgs[i].type = "ai"}

\* _fetch_last_ai_and_tool_messages.  (The model node ran before every caller.)
LastAI(msgs)   == Max(AIs(msgs))
LastCalls(msgs) == msgs[LastAI(msgs)].calls
After(msgs)    == {msgs[i] : i \in {j \in LastAI(msgs) + 1 .. Len(msgs) : msgs[j].type = "tool"}}

\* The calls of these names and those a tool still has to answer, by position.
Named(calls, names) == {i \in DOMAIN calls : calls[i].name \in names}

Pending_Answered(msgs) == Named(LastCalls(msgs), Tool)

Pending(msgs) ==
  {i \in DOMAIN LastCalls(msgs) :
     LastCalls(msgs)[i].name # Answer /\ \A m \in After(msgs) : m.call # LastCalls(msgs)[i].id}

------------------------------------------------------------------------------
(* The edges *)

Has(m) == m \in Range(agent.middleware)

LoopEntry == IF Has("model_limit") THEN "before" ELSE "model"

Goto(n) == node' = n /\ hook' = 0 /\ UNCHANGED outcome

End(how) == node' = "idle" /\ hook' = 0 /\ outcome' = how

\* A node raised: the exception leaves invoke(), and nothing is written.
Raise == End("failed") /\ UNCHANGED <<messages, structured, counts>>

ModelToTools_AnyAnswer(msgs, response) ==
  IF LastCalls(msgs) = << >> \/ (After(msgs) # {} /\ response # 0) THEN End("done")
  ELSE IF After(msgs) = {} THEN Goto("tools")
  ELSE Goto(LoopEntry)

\* model_to_tools, without a jump
ModelToTools(msgs, response) ==
  IF LastCalls(msgs) = << >> THEN End("done")
  ELSE IF Pending(msgs) # {} THEN Goto("tools")
  ELSE IF response # 0 THEN End("done")
  ELSE Goto(LoopEntry)

AfterHook_BeyondFirst(h, msgs, response) ==
  node' = "after" /\ hook' = h - 1 /\ UNCHANGED outcome

AfterHook_SameAgain(h, msgs, response) ==
  IF h = 1 THEN ModelToTools(msgs, response)
  ELSE node' = "after" /\ hook' = Min({h, Len(agent.middleware)}) /\ UNCHANGED outcome

\* After the model, and after the after_model hook of middleware h: hooks run from
\* the last middleware to the first.
AfterHook(h, msgs, response) ==
  IF h > 1
    THEN node' = "after" /\ hook' = h - 1 /\ UNCHANGED outcome
    ELSE ModelToTools(msgs, response)

\* tools_to_model
ToolsToModel(msgs) ==
  LET client == Named(LastCalls(msgs), Tool) IN
  IF client # {} /\ client \subseteq Named(LastCalls(msgs), Direct) THEN End("done")
  ELSE IF \E m \in After(msgs) : m.name = Answer THEN End("done")
  ELSE Goto(LoopEntry)

------------------------------------------------------------------------------

Init ==
  /\ agent \in Agents
  /\ messages = << >> /\ node = "idle" /\ hook = 0
  /\ structured = 0
  /\ threadModel = 0 /\ runModel = 0 /\ threadTool = 0 /\ runTool = 0
  /\ turn = 0 /\ outcome = "none" /\ approved = {}

\* agent.invoke with a new message, also when the last run waits for a human, whose
\* answer is then never used.  The run counts are untracked: no checkpoint holds
\* them, and an invocation starts without them.
Invoke ==
  /\ node \in {"idle", "interrupted"} /\ turn < MaxTurns
  /\ messages' = Append(messages, Human)
  /\ turn' = turn + 1
  /\ runModel' = 0 /\ runTool' = 0
  /\ Goto(LoopEntry)
  /\ UNCHANGED <<agent, structured, threadModel, threadTool, approved>>

Exceeded_Later(count, limit) == limit # NoLimit /\ count > limit

Exceeded(count, limit) == limit # NoLimit /\ count >= limit

\* ModelCallLimitMiddleware.before_model
BeforeModel ==
  /\ node = "before"
  /\ IF ~ (\/ Exceeded(threadModel, agent.modelThread)
           \/ Exceeded(runModel, agent.modelRun))
       THEN Goto("model") /\ UNCHANGED messages
       ELSE IF agent.modelExit = "error"
         THEN End("failed") /\ UNCHANGED messages
         ELSE End("limit") /\ messages' = Append(messages, AI(<< >>, "limit"))
  /\ UNCHANGED <<agent, structured, counts, turn, approved>>

ModelCalls == Cardinality({i \in AIs(messages) : messages[i].by = "model"})

Names == Tool \cup (IF agent.format THEN {Answer} ELSE {})

\* The outputs of the model: a sequence of tool calls with fresh ids.
Outputs ==
  {[i \in DOMAIN s |-> [id |-> <<Len(messages) + 1, i>>, name |-> s[i]]] :
     s \in UNION {[1 .. k -> Names] : k \in 0 .. MaxBatch}}

\* model_node and _handle_model_output: calls of the structured output tool are
\* answered here, and one whose arguments parse gives the structured response.
Model ==
  /\ node = "model" /\ ModelCalls < MaxCalls
  /\ \E calls \in Outputs, parses \in BOOLEAN :
       LET answers  == Named(calls, {Answer})
           response == Cardinality(answers) = 1 /\ parses
       IN
       /\ answers = {} => parses
       /\ IF answers # {} /\ ~response /\ ~agent.retry
            THEN Raise
            ELSE /\ \E replies \in Replies(calls, answers, "model", turn) :
                      messages' = Append(messages, AI(calls, "model")) \o replies
                 /\ structured' = IF response THEN turn ELSE structured
                 /\ AfterHook(Len(agent.middleware) + 1, messages', structured')
                 /\ UNCHANGED counts
  /\ UNCHANGED <<agent, turn, approved>>

\* The hook that runs now is the one of m.
Runs(m) == node = "after" /\ agent.middleware[hook] = m

\* ModelCallLimitMiddleware.after_model
CountModel ==
  /\ Runs("model_limit")
  /\ threadModel' = threadModel + 1 /\ runModel' = runModel + 1
  /\ AfterHook(hook, messages, structured)
  /\ UNCHANGED <<agent, messages, structured, threadTool, runTool, turn, approved>>

Room_OneMore(count, limit, k) ==
  IF limit = NoLimit THEN k ELSE Max({0, Min({k, limit - count + 1})})

\* How many of k more calls _separate_tool_calls allows.
Room(count, limit, k) == IF limit = NoLimit THEN k ELSE Max({0, Min({k, limit - count})})

\* ToolCallLimitMiddleware.after_model
LimitTools ==
  LET calls   == LastCalls(messages)
      counted == IF agent.toolName = AnyTool THEN DOMAIN calls ELSE Named(calls, {agent.toolName})
      allowed == Min({Room(threadTool, agent.toolThread, Cardinality(counted)),
                      Room(runTool, agent.toolRun, Cardinality(counted))})
      blocked == {i \in counted : Cardinality({j \in counted : j <= i}) > allowed}
      jump    == blocked # {} /\ agent.toolExit = "end"
  IN
  /\ Runs("tool_limit")
  /\ IF blocked # {} /\ (agent.toolExit = "error" \/ (jump /\ counted # DOMAIN calls))
       THEN Raise
       ELSE /\ threadTool' = threadTool + allowed
            /\ runTool' = runTool + Cardinality(counted)
            /\ \E replies \in Replies(calls, blocked, "limit", turn) :
                 messages' = messages \o replies
                               \o (IF jump THEN << AI(<< >>, "limit") >> ELSE << >>)
            /\ IF jump THEN End("limit") ELSE AfterHook(hook, messages', structured)
            /\ UNCHANGED <<structured, threadModel, runModel>>
  /\ UNCHANGED <<agent, turn, approved>>

Asked_First ==
  LET calls == LastCalls(messages) IN
  {i \in DOMAIN calls : calls[i].name \in Guarded /\ \A j \in 1 .. i - 1 : calls[j].name \notin Guarded}

\* The calls the human is asked about, by position.
Asked == {i \in DOMAIN LastCalls(messages) : LastCalls(messages)[i].name \in Guarded}

\* HumanInTheLoopMiddleware.after_model up to its interrupt().
Review ==
  /\ Runs("hitl")
  /\ IF Asked = {}
       THEN AfterHook(hook, messages, structured)
       ELSE node' = "interrupted" /\ UNCHANGED <<hook, outcome>>
  /\ UNCHANGED <<agent, messages, structured, counts, turn, approved>>

Decision == [type : {"approve", "reject", "respond"}] \cup [type : {"edit"}, name : Tool]

Revised(call, d) == IF d.type = "edit" THEN [call EXCEPT !.name = d.name] ELSE call

\* The human answers in another invocation: the hook runs again from its start, and
\* interrupt() returns the decisions, which are matched to the calls by position.
Resume ==
  /\ node = "interrupted" /\ turn < MaxTurns
  /\ turn' = turn + 1
  /\ \E ds \in [Asked -> Decision] :
       LET calls == LastCalls(messages)
           kept  == [i \in DOMAIN calls |-> IF i \in Asked THEN Revised(calls[i], ds[i]) ELSE calls[i]]
           given == {i \in Asked : ds[i].type \in {"reject", "respond"}}
       IN
       /\ \E replies \in Replies(calls, given, "human", turn') :
            messages' = [messages EXCEPT ![LastAI(messages)].calls = kept] \o replies
       /\ approved' = approved \cup {kept[i] : i \in {j \in Asked : ds[j].type \in {"approve", "edit"}}}
       /\ AfterHook(hook, messages', structured)
  /\ runModel' = 0 /\ runTool' = 0
  /\ UNCHANGED <<agent, structured, threadModel, threadTool>>

\* Too many or too few decisions, or one the configuration does not allow.
ResumeRefused ==
  /\ node = "interrupted" /\ turn < MaxTurns
  /\ turn' = turn + 1
  /\ runModel' = 0 /\ runTool' = 0
  /\ End("failed")
  /\ UNCHANGED <<agent, messages, structured, threadModel, threadTool, approved>>

\* The tools node: the pending calls run in parallel, and all have answered when
\* the superstep ends.
Tools ==
  /\ node = "tools"
  /\ \E replies \in Replies(LastCalls(messages), Pending(messages), "tool", turn) :
       messages' = messages \o replies
  /\ ToolsToModel(messages')
  /\ UNCHANGED <<agent, structured, counts, turn, approved>>

\* One of them raises an exception that ToolNode does not handle.
ToolsRaise ==
  /\ node = "tools"
  /\ Raise
  /\ UNCHANGED <<agent, turn, approved>>

Next ==
  \/ Invoke \/ BeforeModel \/ Model
  \/ CountModel \/ LimitTools \/ Review \/ Resume \/ ResumeRefused
  \/ Tools \/ ToolsRaise

Spec == Init /\ [][Next]_vars

\* An invocation goes on by itself: langgraph runs the next node as soon as the one
\* before is done.  Nobody has to invoke or to resume.
Step == BeforeModel \/ Model \/ CountModel \/ LimitTools \/ Review \/ Tools \/ ToolsRaise

FairSpec == Spec /\ WF_vars(Step)
=============================================================================
