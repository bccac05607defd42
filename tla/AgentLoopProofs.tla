---------------------------- MODULE AgentLoopProofs ----------------------------
(***************************************************************************)
(* Proofs about AgentLoop: for any list of middlewares, limits, tools and  *)
(* outputs of the model, every call is answered before the model goes on,  *)
(* no call runs twice or after it was blocked, what runs was approved, and *)
(* the limits are kept.                                                    *)
(***************************************************************************)
EXTENDS AgentLoopProps, ProofLemmas, SequenceTheorems, FiniteSetTheorems, TLAPS

-----------------------------------------------------------------------------
(* The inductive invariant, part by part *)

\* The nodes between a model output and the answers to its calls.
Open == {"after", "interrupted", "tools"}

AIMessage   == [type : {"ai"}, calls : Seq(Call), by : {"model", "limit"}, turn : Nat \ {0}]
ToolMessage == [type : {"tool"}, call : Nat \X Nat, name : Tool \cup {Answer},
                by : {"model", "limit", "human", "tool"}, turn : Nat \ {0}]
Message     == {Human} \cup AIMessage \cup ToolMessage

IsTool(j) == j \in DOMAIN messages /\ messages[j].type = "tool"

ControlOK ==
  /\ agent \in Agents
  /\ node \in {"idle", "before", "model", "after", "interrupted", "tools"}
  /\ hook \in 0 .. Len(agent.middleware) /\ (hook # 0 <=> node \in {"after", "interrupted"})
  /\ node = "interrupted" => agent.middleware[hook] = "hitl"
  /\ node = "model" /\ Has("model_limit") =>
       ~Exceeded(threadModel, agent.modelThread) /\ ~Exceeded(runModel, agent.modelRun)
  /\ turn \in 0 .. MaxTurns /\ (node # "idle" => turn # 0)
  /\ structured \in 0 .. turn
  /\ threadModel \in Nat /\ runModel \in Nat /\ threadTool \in Nat /\ runTool \in Nat
  /\ outcome \in {"none", "done", "limit", "failed"}
  /\ approved \in SUBSET Call

\* An id tells the output its call is part of, and replies come after it.
MessagesOK ==
  /\ messages \in Seq(Message)
  /\ \A i \in DOMAIN messages : messages[i].type # "human" => messages[i].turn <= turn
  /\ \A i \in AIs(messages) : \A k \in DOMAIN messages[i].calls : messages[i].calls[k].id = <<i, k>>
  /\ \A j \in DOMAIN messages : IsTool(j) => messages[j].call[1] < j
  /\ node \in Open => AIs(messages) # {}

HasAnswer(M, i, k) == \E j \in DOMAIN M : M[j].type = "tool" /\ M[j].call = <<i, k>>

\* Output i came after the last input of the user.
InRun(M, i) == \A h \in DOMAIN M : M[h].type = "human" => h < i

AnsweredAtOnce(M) ==
  \A i \in AIs(M) : \A k \in DOMAIN M[i].calls : M[i].calls[k].name = Answer => HasAnswer(M, i, k)

\* Structured output is answered as soon as it is there, and within a run only the
\* last output may have calls without an answer.
AnswersOK ==
  /\ AnsweredAtOnce(messages)
  /\ node # "idle" =>
       \A i \in AIs(messages) :
         \/ ~InRun(messages, i)
         \/ node \in Open /\ i = LastAI(messages)
         \/ \A k \in DOMAIN messages[i].calls : HasAnswer(messages, i, k)

RunsOnce(M) ==
  \A j1, j2 \in DOMAIN M :
    M[j1].type = "tool" /\ M[j2].type = "tool" /\ M[j1].by = "tool" /\ M[j1].call = M[j2].call => j1 = j2

\* A call that ran has no other answer, and none of the last output ran yet.
OnceOK ==
  /\ RunsOnce(messages)
  /\ node \in Open =>
       \A j \in DOMAIN messages :
         IsTool(j) /\ messages[j].by = "tool" => messages[j].call[1] # LastAI(messages)

\* Past a middleware: its hook ran on the last output.
Past(m) ==
  \/ node = "tools"
  \/ node \in {"after", "interrupted"} /\ \E h \in DOMAIN agent.middleware : h > hook /\ agent.middleware[h] = m

\* Past the review every guarded call without an answer is approved.
ApprovedOK ==
  Has("hitl") =>
    /\ \A j \in DOMAIN messages :
         IsTool(j) /\ messages[j].by = "tool" /\ messages[j].name \in Guarded
           => [id |-> messages[j].call, name |-> messages[j].name] \in approved
    /\ Past("hitl") =>
         \A k \in Pending(messages) :
           LastCalls(messages)[k].name \in Guarded => LastCalls(messages)[k] \in approved

\* The count of model calls lags behind by the last one, until the hook that counts it.
RunModelOK ==
  Has("model_limit") =>
    /\ Within(ModelMessages({turn}), agent.modelRun)
    /\ node \in {"after", "interrupted"} => ModelMessages({turn}) <= runModel + 1
    /\ node \in {"before", "model"} \/ Past("model_limit") => ModelMessages({turn}) <= runModel

ThreadModelOK ==
  Has("model_limit") /\ Last(agent.middleware) = "model_limit" =>
    /\ Within(ModelMessages(1 .. turn), agent.modelThread)
    /\ ModelMessages(1 .. turn) <=
         threadModel + IF node = "after" /\ hook = Len(agent.middleware) THEN 1 ELSE 0

\* The counted calls that may still run, past the limit.
Due ==
  IF Past("tool_limit")
    THEN Cardinality({k \in Pending(messages) : agent.toolName \in {AnyTool, LastCalls(messages)[k].name}})
    ELSE 0

ToolCountOK ==
  Has("tool_limit") /\ ~Before("hitl", "tool_limit") =>
    /\ Within(threadTool, agent.toolThread)
    /\ ToolMessages(1 .. turn) + Due <= threadTool
    /\ ToolMessages({turn}) + Due <= runTool
    /\ Within(ToolMessages({turn}) + Due, agent.toolRun)

-----------------------------------------------------------------------------
(* Messages *)

LEMMA KindOf ==
  ASSUME NEW m \in Message
  PROVE  /\ m.type \in {"human", "ai", "tool"}
         /\ m.type = "human" => m = Human
         /\ m.type = "ai" => m \in AIMessage
         /\ m.type = "tool" => m \in ToolMessage
  BY DEF Message, Human, AIMessage, ToolMessage

LEMMA OutputsOf ==
  ASSUME NEW m \in Seq(Message), NEW i \in AIs(m)
  PROVE  i \in 1 .. Len(m) /\ m[i] \in AIMessage /\ m[i].calls \in Seq(Call)
  <1>1. DOMAIN m = 1 .. Len(m)
    BY LenProperties
  <1>2. i \in 1 .. Len(m) /\ m[i].type = "ai" /\ m[i] \in Message
    BY <1>1, ElementOfSeq DEF AIs
  <1> QED BY <1>2, KindOf DEF AIMessage

LEMMA LastIs ==
  ASSUME NEW m \in Seq(Message), AIs(m) # {}
  PROVE  /\ LastAI(m) \in AIs(m) /\ LastAI(m) \in 1 .. Len(m)
         /\ \A i \in AIs(m) : i <= LastAI(m)
         /\ LastCalls(m) \in Seq(Call)
  <1>1. AIs(m) \in SUBSET (0 .. Len(m)) /\ Len(m) \in Nat
    BY OutputsOf, LenProperties
  <1>2. LastAI(m) \in AIs(m) /\ \A i \in AIs(m) : LastAI(m) >= i
    BY <1>1, GreatestElement DEF LastAI
  <1> QED BY <1>1, <1>2, OutputsOf DEF LastCalls

LEMMA LastIsThis ==
  ASSUME NEW m \in Seq(Message), NEW i \in AIs(m), \A j \in AIs(m) : j <= i
  PROVE  LastAI(m) = i
  <1>1. /\ LastAI(m) \in 1 .. Len(m) /\ LastAI(m) \in AIs(m)
        /\ \A j \in AIs(m) : j <= LastAI(m)
    BY LastIs
  <1>2. i \in 1 .. Len(m) /\ Len(m) \in Nat
    BY OutputsOf, LenProperties
  <1>3. i <= LastAI(m) /\ LastAI(m) <= i
    BY <1>1
  <1> QED BY <1>1, <1>2, <1>3

\* The messages of M after lo and up to hi answer the calls of output i at P, once each.
Answered(M, lo, hi, i, P, by, t) ==
  /\ \A j \in lo + 1 .. hi :
       /\ M[j].type = "tool" /\ M[j].by = by /\ M[j].turn = t
       /\ \E k \in P : M[j].call = <<i, k>> /\ M[j].name = M[i].calls[k].name
  /\ \A k \in P : \E j \in lo + 1 .. hi : M[j].call = <<i, k>>
  /\ \A j1, j2 \in lo + 1 .. hi : M[j1].call = M[j2].call => j1 = j2

\* What every step leaves of the messages: a review changes the names of calls, and
\* makes no structured output of them.
Kept(m, M) ==
  /\ M \in Seq(Message) /\ Len(m) <= Len(M)
  /\ \A j \in 1 .. Len(m) :
       /\ M[j].type = m[j].type
       /\ m[j].type # "ai" => M[j] = m[j]
       /\ m[j].type = "ai" =>
            /\ M[j].by = m[j].by /\ M[j].turn = m[j].turn
            /\ DOMAIN M[j].calls = DOMAIN m[j].calls
            /\ \A k \in DOMAIN m[j].calls :
                 /\ M[j].calls[k].id = m[j].calls[k].id
                 /\ M[j].calls[k].name = Answer => m[j].calls[k].name = Answer

\* The replies to calls, appended to the messages.
LEMMA RepliesAppended ==
  ASSUME NEW m \in Seq(Message), NEW i \in AIs(m),
         \A k \in DOMAIN m[i].calls : m[i].calls[k].id = <<i, k>>,
         NEW P \in SUBSET DOMAIN m[i].calls,
         NEW by \in {"model", "limit", "human", "tool"}, NEW t \in Nat \ {0},
         NEW r \in Replies(m[i].calls, P, by, t)
  PROVE  /\ m \o r \in Seq(Message) /\ Len(m) <= Len(m \o r)
         /\ \A j \in 1 .. Len(m) : (m \o r)[j] = m[j]
         /\ Answered(m \o r, Len(m), Len(m \o r), i, P, by, t)
  <1> DEFINE calls == m[i].calls
             M == m \o r
  <1>1. calls \in Seq(Call) /\ DOMAIN calls = 1 .. Len(calls) /\ Len(m) \in Nat /\ i \in 1 .. Len(m)
    BY OutputsOf, LenProperties
  <1>2. \A k \in P : calls[k] \in Call /\ calls[k].id = <<i, k>> /\ k \in Nat
    BY <1>1, ElementOfSeq
  <1>3. P \in SUBSET (1 .. Len(calls)) /\ IsFiniteSet(P) /\ Cardinality(P) \in Nat
    <2>1. P \in SUBSET (1 .. Len(calls)) /\ Len(calls) \in Int
      BY <1>1, LenProperties
    <2>2. IsFiniteSet(1 .. Len(calls))
      BY <2>1, FS_Interval
    <2>3. IsFiniteSet(P)
      BY <2>1, <2>2, FS_Subset
    <2> QED BY <2>1, <2>3, FS_CardinalityType
  <1>4. PICK s \in InOrder(P) : r = [k \in DOMAIN s |-> Reply(calls[s[k]], by, t)]
    BY DEF Replies
  <1> DEFINE c == Cardinality(P)
  <1>5. /\ DOMAIN s = 1 .. c /\ \A k \in 1 .. c : s[k] \in P
        /\ \A p \in P : \E k \in 1 .. c : s[k] = p
        /\ \A k, l \in 1 .. c : k < l => s[k] < s[l]
    BY DEF InOrder, Surjection
  <1> HIDE DEF c
  <1>6. \A k, l \in 1 .. c : s[k] = s[l] => k = l
    <2>1. c \in Nat
      BY <1>3 DEF c
    <2> SUFFICES ASSUME NEW k \in 1 .. c, NEW l \in 1 .. c, s[k] = s[l], k # l PROVE FALSE
      OBVIOUS
    <2>2. s[k] \in Nat /\ s[l] \in Nat
      BY <1>2, <1>5
    <2>3. k < l \/ l < k
      BY <2>1
    <2> QED BY <2>2, <2>3, <1>5
  <1>7. c \in Nat
    BY <1>3 DEF c
  <1>8. \A k \in 1 .. c : /\ r[k] \in ToolMessage /\ r[k].type = "tool" /\ r[k].by = by /\ r[k].turn = t
                          /\ r[k].call = <<i, s[k]>> /\ r[k].name = calls[s[k]].name
    <2> SUFFICES ASSUME NEW k \in 1 .. c
                 PROVE  /\ r[k] \in ToolMessage /\ r[k].type = "tool" /\ r[k].by = by /\ r[k].turn = t
                        /\ r[k].call = <<i, s[k]>> /\ r[k].name = calls[s[k]].name
      OBVIOUS
    <2>1. r[k] = Reply(calls[s[k]], by, t) /\ s[k] \in P
      BY <1>4, <1>5
    <2>2. calls[s[k]] \in Call /\ calls[s[k]].id = <<i, s[k]>>
      BY <1>2, <2>1
    <2> HIDE DEF calls
    <2> QED BY <2>1, <2>2 DEF Reply, ToolMessage, Call
  <1>9. r \in Seq(Message) /\ Len(r) = c
    <2>1. r \in [1 .. c -> Message]
      BY <1>4, <1>5, <1>8 DEF Message
    <2> QED BY <2>1, <1>7, IsASeq
  <1>10. /\ M \in Seq(Message) /\ Len(M) = Len(m) + c
         /\ \A j \in 1 .. Len(m) + c : M[j] = IF j <= Len(m) THEN m[j] ELSE r[j - Len(m)]
    BY <1>9, ConcatProperties
  <1> HIDE DEF M
  <1>11. \A j \in Len(m) + 1 .. Len(m) + c : j - Len(m) \in 1 .. c /\ M[j] = r[j - Len(m)]
    BY <1>1, <1>7, <1>10
  <1>12. M[i] = m[i]
    BY <1>1, <1>7, <1>10
  <1>13. Answered(M, Len(m), Len(m) + c, i, P, by, t)
    <2>1. ASSUME NEW j \in Len(m) + 1 .. Len(m) + c
          PROVE  /\ M[j].type = "tool" /\ M[j].by = by /\ M[j].turn = t
                 /\ \E k \in P : M[j].call = <<i, k>> /\ M[j].name = M[i].calls[k].name
      BY <1>5, <1>8, <1>11, <1>12
    <2>2. ASSUME NEW k \in P PROVE \E j \in Len(m) + 1 .. Len(m) + c : M[j].call = <<i, k>>
      <3>1. PICK l \in 1 .. c : s[l] = k
        BY <1>5
      <3>2. Len(m) + l \in Len(m) + 1 .. Len(m) + c /\ (Len(m) + l) - Len(m) = l
        BY <1>1, <1>7
      <3> QED BY <3>1, <3>2, <1>8, <1>11
    <2>3. ASSUME NEW j1 \in Len(m) + 1 .. Len(m) + c, NEW j2 \in Len(m) + 1 .. Len(m) + c,
                 M[j1].call = M[j2].call
          PROVE  j1 = j2
      <3>1. s[j1 - Len(m)] = s[j2 - Len(m)]
        BY <2>3, <1>8, <1>11
      <3>2. j1 - Len(m) = j2 - Len(m)
        BY <3>1, <1>6, <1>11
      <3> QED BY <3>2, <1>1, <1>7
    <2> QED BY <2>1, <2>2, <2>3 DEF Answered
  <1>14. \A j \in 1 .. Len(m) : M[j] = m[j]
    BY <1>1, <1>7, <1>10
  <1> QED BY <1>1, <1>7, <1>10, <1>13, <1>14 DEF M

\* A message behind the others that is sound as far as MessagesOK goes.
Sound(M, j, t) ==
  \/ M[j].type = "human"
  \/ M[j].type = "ai" /\ M[j].turn <= t /\ \A k \in DOMAIN M[j].calls : M[j].calls[k].id = <<j, k>>
  \/ M[j].type = "tool" /\ M[j].turn <= t /\ M[j].call[1] < j

LEMMA Lengths ==
  ASSUME NEW m \in Seq(Message), NEW M, Kept(m, M)
  PROVE  /\ Len(m) \in Nat /\ Len(M) \in Nat /\ Len(m) <= Len(M) /\ M \in Seq(Message)
         /\ DOMAIN m = 1 .. Len(m) /\ DOMAIN M = 1 .. Len(M)
         /\ DOMAIN m \subseteq DOMAIN M
         /\ \A j \in DOMAIN M : j \in DOMAIN m \/ j \in Len(m) + 1 .. Len(M)
         /\ AIs(m) = {i \in AIs(M) : i <= Len(m)}
  <1>1. /\ Len(m) \in Nat /\ Len(M) \in Nat /\ Len(m) <= Len(M) /\ M \in Seq(Message)
        /\ DOMAIN m = 1 .. Len(m) /\ DOMAIN M = 1 .. Len(M)
    BY LenProperties DEF Kept
  <1>2. \A j \in 1 .. Len(m) : M[j].type = m[j].type
    BY DEF Kept
  <1> QED BY <1>1, <1>2 DEF AIs

LEMMA MessagesAfter ==
  ASSUME MessagesOK, turn \in Nat, turn' \in Nat, turn <= turn', Kept(messages, messages'),
         \A j \in Len(messages) + 1 .. Len(messages') : Sound(messages', j, turn'),
         node' \in Open => AIs(messages') # {}
  PROVE  MessagesOK'
  <1> DEFINE m == messages
             M == messages'
  <1>1. /\ m \in Seq(Message) /\ M \in Seq(Message)
        /\ DOMAIN m = 1 .. Len(m) /\ DOMAIN M = 1 .. Len(M)
        /\ \A j \in DOMAIN M : j \in DOMAIN m \/ j \in Len(m) + 1 .. Len(M)
    BY Lengths DEF MessagesOK
  <1>2. /\ \A j \in DOMAIN m : m[j].type # "human" => m[j].turn <= turn
        /\ \A i \in AIs(m) : \A k \in DOMAIN m[i].calls : m[i].calls[k].id = <<i, k>>
        /\ \A j \in DOMAIN m : m[j].type = "tool" => m[j].call[1] < j
    BY DEF MessagesOK, IsTool
  <1>3. /\ \A j \in DOMAIN m : m[j] \in Message /\ (m[j].type # "human" => m[j].turn \in Nat)
    BY <1>1, ElementOfSeq, KindOf DEF AIMessage, ToolMessage
  <1>4. \A j \in DOMAIN m :
          /\ M[j].type = m[j].type
          /\ m[j].type # "ai" => M[j] = m[j]
          /\ m[j].type = "ai" =>
               /\ M[j].by = m[j].by /\ M[j].turn = m[j].turn
               /\ DOMAIN M[j].calls = DOMAIN m[j].calls
               /\ \A k \in DOMAIN m[j].calls : M[j].calls[k].id = m[j].calls[k].id
    BY <1>1 DEF Kept
  <1>5. \A j \in Len(m) + 1 .. Len(M) : Sound(M, j, turn')
    OBVIOUS
  <1> HIDE DEF m, M
  <1>6. \A j \in DOMAIN M : M[j].type # "human" => M[j].turn <= turn'
    <2> SUFFICES ASSUME NEW j \in DOMAIN M, M[j].type # "human" PROVE M[j].turn <= turn'
      OBVIOUS
    <2>1. CASE j \in DOMAIN m
      <3>1. M[j].turn = m[j].turn /\ m[j].turn <= turn /\ m[j].turn \in Nat
        BY <2>1, <1>2, <1>3, <1>4
      <3> QED BY <3>1
    <2>2. CASE j \in Len(m) + 1 .. Len(M)
      BY <2>2, <1>5 DEF Sound
    <2> QED BY <2>1, <2>2, <1>1
  <1>7. \A i \in AIs(M) : \A k \in DOMAIN M[i].calls : M[i].calls[k].id = <<i, k>>
    <2> SUFFICES ASSUME NEW i \in AIs(M), NEW k \in DOMAIN M[i].calls PROVE M[i].calls[k].id = <<i, k>>
      OBVIOUS
    <2>1. i \in DOMAIN M /\ M[i].type = "ai"
      BY DEF AIs
    <2>2. CASE i \in DOMAIN m
      <3>1. i \in AIs(m) /\ k \in DOMAIN m[i].calls /\ M[i].calls[k].id = m[i].calls[k].id
        BY <2>1, <2>2, <1>4 DEF AIs
      <3> QED BY <3>1, <1>2
    <2>3. CASE i \in Len(m) + 1 .. Len(M)
      BY <2>1, <2>3, <1>5 DEF Sound
    <2> QED BY <2>1, <2>2, <2>3, <1>1
  <1>8. \A j \in DOMAIN M : M[j].type = "tool" => M[j].call[1] < j
    <2> SUFFICES ASSUME NEW j \in DOMAIN M, M[j].type = "tool" PROVE M[j].call[1] < j
      OBVIOUS
    <2>1. CASE j \in DOMAIN m
      BY <2>1, <1>2, <1>4
    <2>2. CASE j \in Len(m) + 1 .. Len(M)
      BY <2>2, <1>5 DEF Sound
    <2> QED BY <2>1, <2>2, <1>1
  <1> QED BY <1>1, <1>6, <1>7, <1>8 DEF MessagesOK, IsTool, m, M

\* Answers stay answers.
LEMMA StaysAnswered ==
  ASSUME NEW m \in Seq(Message), NEW M, Kept(m, M), NEW i, NEW k, HasAnswer(m, i, k)
  PROVE  HasAnswer(M, i, k)
  <1>1. PICK j \in DOMAIN m : m[j].type = "tool" /\ m[j].call = <<i, k>>
    BY DEF HasAnswer
  <1>2. j \in 1 .. Len(m) /\ j \in DOMAIN M
    BY Lengths
  <1>3. M[j] = m[j]
    BY <1>1, <1>2 DEF Kept
  <1> QED BY <1>1, <1>2, <1>3 DEF HasAnswer

\* Messages of the user, the text of a limit, and replies of anything but a tool.
Quiet(m, M) ==
  \A j \in Len(m) + 1 .. Len(M) :
    /\ M[j].type = "ai" => M[j].by = "limit" /\ M[j].calls = << >>
    /\ M[j].type = "tool" => M[j].by # "tool"

\* The outputs and the calls that ran, as the limits count them.
ModelSet(M, T) == {i \in AIs(M) : M[i].by = "model" /\ M[i].turn \in T}

ToolSet(M, T) ==
  {j \in DOMAIN M : /\ M[j].type = "tool" /\ M[j].by = "tool"
                    /\ agent.toolName \in {AnyTool, M[j].name} /\ M[j].turn \in T}

LEMMA QuietKeepsAnswers ==
  ASSUME NEW m \in Seq(Message), NEW M, Kept(m, M), Quiet(m, M), AnsweredAtOnce(m)
  PROVE  AnsweredAtOnce(M)
  <1> SUFFICES ASSUME NEW i \in AIs(M), NEW k \in DOMAIN M[i].calls, M[i].calls[k].name = Answer
               PROVE  HasAnswer(M, i, k)
    BY DEF AnsweredAtOnce
  <1>1. i \in DOMAIN M /\ M[i].type = "ai"
    BY DEF AIs
  <1>2. CASE i \in DOMAIN m
    <2>1. i \in 1 .. Len(m) /\ m[i].type = "ai" /\ i \in AIs(m)
      BY <1>1, <1>2, Lengths DEF Kept, AIs
    <2>2. k \in DOMAIN m[i].calls /\ m[i].calls[k].name = Answer
      BY <2>1 DEF Kept
    <2> QED BY <2>1, <2>2, StaysAnswered DEF AnsweredAtOnce
  <1>3. CASE i \in Len(m) + 1 .. Len(M)
    <2>1. M[i].calls = << >>
      BY <1>1, <1>3 DEF Quiet
    <2> QED BY <2>1
  <1> QED BY <1>1, <1>2, <1>3, Lengths

LEMMA QuietKeepsSets ==
  ASSUME NEW m \in Seq(Message), NEW M, Kept(m, M), Quiet(m, M), NEW T
  PROVE  ModelSet(M, T) = ModelSet(m, T) /\ ToolSet(M, T) = ToolSet(m, T)
  <1>1. /\ DOMAIN m \subseteq DOMAIN M /\ DOMAIN m = 1 .. Len(m)
        /\ \A j \in DOMAIN M : j \in DOMAIN m \/ j \in Len(m) + 1 .. Len(M)
    BY Lengths
  <1>2. \A j \in DOMAIN m :
          /\ M[j].type = m[j].type
          /\ m[j].type # "ai" => M[j] = m[j]
          /\ m[j].type = "ai" => M[j].by = m[j].by /\ M[j].turn = m[j].turn
    BY <1>1 DEF Kept
  <1>3. \A j \in DOMAIN M : j \notin DOMAIN m =>
          /\ M[j].type = "ai" => M[j].by = "limit"
          /\ M[j].type = "tool" => M[j].by # "tool"
    BY <1>1 DEF Quiet
  <1>4. ModelSet(M, T) = ModelSet(m, T)
    BY <1>1, <1>2, <1>3 DEF ModelSet, AIs
  <1>5. ToolSet(M, T) = ToolSet(m, T)
    BY <1>1, <1>2, <1>3 DEF ToolSet
  <1> QED BY <1>4, <1>5

\* No reply of a tool.
NoneRan(m, M) == \A j \in Len(m) + 1 .. Len(M) : M[j].type = "tool" => M[j].by # "tool"

LEMMA NoneRanKeepsOnce ==
  ASSUME NEW m \in Seq(Message), NEW M, Kept(m, M), NoneRan(m, M), RunsOnce(m),
         \A j \in Len(m) + 1 .. Len(M) : \A j1 \in DOMAIN m :
           M[j].type = "tool" /\ m[j1].type = "tool" /\ m[j1].by = "tool" => m[j1].call # M[j].call
  PROVE  RunsOnce(M)
  <1> SUFFICES ASSUME NEW j1 \in DOMAIN M, NEW j2 \in DOMAIN M, M[j1].type = "tool",
                      M[j2].type = "tool", M[j1].by = "tool", M[j1].call = M[j2].call
               PROVE  j1 = j2
    BY DEF RunsOnce
  <1>1. j1 \in DOMAIN m
    <2>1. j1 \notin Len(m) + 1 .. Len(M)
      BY DEF NoneRan
    <2> QED BY <2>1, Lengths
  <1>2. \A j \in DOMAIN m : M[j].type = m[j].type /\ (m[j].type # "ai" => M[j] = m[j])
    BY Lengths DEF Kept
  <1>3. m[j1].type = "tool" /\ m[j1].by = "tool" /\ m[j1].call = M[j1].call
    BY <1>1, <1>2
  <1>4. CASE j2 \in DOMAIN m
    <2>1. m[j2].type = "tool" /\ m[j2].call = M[j2].call
      BY <1>2, <1>4
    <2> QED BY <1>1, <1>3, <1>4, <2>1 DEF RunsOnce
  <1>5. CASE j2 \in Len(m) + 1 .. Len(M)
    BY <1>1, <1>3, <1>5
  <1> QED BY <1>4, <1>5, Lengths

-----------------------------------------------------------------------------
(* Edges and counts *)

LEMMA AgentIs ==
  ASSUME agent \in Agents
  PROVE  /\ agent.middleware \in Seq({"model_limit", "tool_limit", "hitl"})
         /\ Len(agent.middleware) \in Nat /\ DOMAIN agent.middleware = 1 .. Len(agent.middleware)
         /\ \A i, j \in DOMAIN agent.middleware : agent.middleware[i] = agent.middleware[j] => i = j
         /\ agent.modelThread \in Limit /\ agent.modelRun \in Limit
         /\ agent.toolThread \in Limit /\ agent.toolRun \in Limit
         /\ agent.toolName \in Tool \cup {AnyTool} /\ agent.format \in BOOLEAN
  <1>1. agent \in Agent
    BY AgentAssumption
  <1>2. agent.middleware \in Seq({"model_limit", "tool_limit", "hitl"})
    BY <1>1 DEF Agent
  <1>3. \A i, j \in DOMAIN agent.middleware : agent.middleware[i] = agent.middleware[j] => i = j
    BY AgentAssumption
  <1>4. Len(agent.middleware) \in Nat /\ DOMAIN agent.middleware = 1 .. Len(agent.middleware)
    BY <1>2, LenProperties
  <1>5. /\ agent.modelThread \in Limit /\ agent.modelRun \in Limit
        /\ agent.toolThread \in Limit /\ agent.toolRun \in Limit
        /\ agent.toolName \in Tool \cup {AnyTool} /\ agent.format \in BOOLEAN
    BY <1>1 DEF Agent
  <1> QED BY <1>2, <1>3, <1>4, <1>5

\* Where the graph goes after a hook, or after the model.
LEMMA EdgeIs ==
  ASSUME agent \in Agents, NEW h \in 1 .. Len(agent.middleware) + 1,
         NEW msgs, NEW response, AfterHook(h, msgs, response)
  PROVE  /\ node' \in {"idle", "before", "model", "after", "tools"}
         /\ hook' \in 0 .. Len(agent.middleware) /\ (hook' # 0 <=> node' = "after")
         /\ node' = "after" => hook' = h - 1
         /\ node' # "after" => h = 1
         /\ node' \in {"before", "model"} => Pending(msgs) = {}
         /\ node' = "model" => ~Has("model_limit")
         /\ outcome' \in {outcome, "done"}
  <1>1. Len(agent.middleware) \in Nat
    BY AgentIs
  <1>2. CASE h > 1
    <2>1. node' = "after" /\ hook' = h - 1 /\ outcome' = outcome
      BY <1>2 DEF AfterHook
    <2> QED BY <2>1, <1>1, <1>2
  <1>3. CASE ~(h > 1)
    <2>1. ModelToTools(msgs, response) /\ h = 1
      BY <1>1, <1>3 DEF AfterHook
    <2>2. CASE End("done")
      BY <1>1, <2>1, <2>2 DEF End
    <2>3. CASE Goto("tools")
      BY <1>1, <2>1, <2>3 DEF Goto
    <2>4. CASE Goto(LoopEntry) /\ Pending(msgs) = {}
      BY <1>1, <2>1, <2>4 DEF Goto, LoopEntry
    <2> QED BY <2>1, <2>2, <2>3, <2>4 DEF ModelToTools
  <1> QED BY <1>2, <1>3

LEMMA ControlAfterEdge ==
  ASSUME ControlOK, NEW h \in 1 .. Len(agent.middleware) + 1,
         NEW msgs, NEW response, AfterHook(h, msgs, response),
         agent' = agent, turn' \in 1 .. MaxTurns, structured' \in 0 .. turn',
         threadModel' \in Nat, runModel' \in Nat, threadTool' \in Nat, runTool' \in Nat,
         approved' \in SUBSET Call
  PROVE  ControlOK'
  <1>1. agent \in Agents /\ outcome \in {"none", "done", "limit", "failed"}
    BY DEF ControlOK
  <1>2. Has("model_limit")' <=> Has("model_limit")
    BY DEF Has
  <1>3. MaxTurns \in Nat
    BY AgentAssumption
  <1>4. /\ node' \in {"idle", "before", "model", "after", "tools"}
        /\ hook' \in 0 .. Len(agent.middleware) /\ (hook' # 0 <=> node' = "after")
        /\ node' = "model" => ~Has("model_limit")
        /\ outcome' \in {"none", "done", "limit", "failed"}
    BY <1>1, EdgeIs
  <1>5. turn' \in 0 .. MaxTurns /\ turn' # 0
    BY <1>3
  <1> QED BY <1>1, <1>2, <1>4, <1>5 DEF ControlOK

LEMMA ControlAfterEnd ==
  ASSUME ControlOK, NEW how \in {"done", "limit", "failed"}, End(how),
         agent' = agent, turn' \in 0 .. MaxTurns, structured' \in 0 .. turn',
         threadModel' \in Nat, runModel' \in Nat, threadTool' \in Nat, runTool' \in Nat,
         approved' \in SUBSET Call
  PROVE  ControlOK'
  <1>1. agent \in Agents
    BY DEF ControlOK
  <1> QED BY <1>1, AgentIs DEF ControlOK, End

LEMMA RoomIs ==
  ASSUME NEW count \in Nat, NEW limit \in Limit, NEW k \in Nat
  PROVE  /\ Room(count, limit, k) \in 0 .. k
         /\ limit # NoLimit => Room(count, limit, k) = 0 \/ count + Room(count, limit, k) <= limit
  <1>1. CASE limit = NoLimit
    BY <1>1 DEF Room
  <1>2. CASE limit # NoLimit
    <2>1. limit \in Nat
      BY <1>2 DEF Limit
    <2> DEFINE d == limit - count
    <2>2. d \in Int
      BY <2>1
    <2> HIDE DEF d
    <2>3. Min({k, d}) = IF k <= d THEN k ELSE d
      BY <2>2 DEF Min
    <2> DEFINE e == Min({k, d})
    <2>4. e \in Int /\ e <= k /\ e <= d
      BY <2>2, <2>3
    <2> HIDE DEF e
    <2>5. Max({0, e}) = IF 0 >= e THEN 0 ELSE e
      BY <2>4 DEF Max
    <2>6. Room(count, limit, k) = Max({0, e})
      BY <1>2 DEF Room, e, d
    <2> QED BY <2>1, <2>4, <2>5, <2>6 DEF d
  <1> QED BY <1>1, <1>2

\* What LimitTools makes of the calls of the last output.
Counted ==
  IF agent.toolName = AnyTool THEN DOMAIN LastCalls(messages)
                              ELSE Named(LastCalls(messages), {agent.toolName})

Allowed == Min({Room(threadTool, agent.toolThread, Cardinality(Counted)),
                Room(runTool, agent.toolRun, Cardinality(Counted))})

Blocked == {i \in Counted : Cardinality({j \in Counted : j <= i}) > Allowed}

LEMMA CountedIs ==
  ASSUME ControlOK, MessagesOK, AIs(messages) # {}
  PROVE  /\ Counted \in SUBSET DOMAIN LastCalls(messages) /\ IsFiniteSet(Counted)
         /\ Cardinality(Counted) \in Nat
         /\ Allowed \in Nat
         /\ Allowed <= Room(threadTool, agent.toolThread, Cardinality(Counted))
         /\ Allowed <= Room(runTool, agent.toolRun, Cardinality(Counted))
  <1>1. LastCalls(messages) \in Seq(Call)
    BY LastIs DEF MessagesOK
  <1>2. Counted \in SUBSET DOMAIN LastCalls(messages)
    BY DEF Counted, Named
  <1>3. IsFiniteSet(DOMAIN LastCalls(messages))
    <2>1. DOMAIN LastCalls(messages) = 1 .. Len(LastCalls(messages)) /\ Len(LastCalls(messages)) \in Int
      BY <1>1, LenProperties
    <2> QED BY <2>1, FS_Interval
  <1>4. IsFiniteSet(Counted) /\ Cardinality(Counted) \in Nat
    BY <1>2, <1>3, FS_Subset, FS_CardinalityType
  <1>5. /\ Room(threadTool, agent.toolThread, Cardinality(Counted)) \in Nat
        /\ Room(runTool, agent.toolRun, Cardinality(Counted)) \in Nat
    <2>1. /\ threadTool \in Nat /\ runTool \in Nat
          /\ agent.toolThread \in Limit /\ agent.toolRun \in Limit
      BY AgentIs DEF ControlOK
    <2> DEFINE c == Cardinality(Counted)
    <2>2. c \in Nat
      BY <1>4
    <2> HIDE DEF c
    <2>3. Room(threadTool, agent.toolThread, c) \in 0 .. c /\ Room(runTool, agent.toolRun, c) \in 0 .. c
      BY <2>1, <2>2, RoomIs
    <2>4. Room(threadTool, agent.toolThread, c) \in Nat /\ Room(runTool, agent.toolRun, c) \in Nat
      BY <2>2, <2>3
    <2> QED BY <2>4 DEF c
  <1> QED BY <1>2, <1>4, <1>5, MinOfTwo DEF Allowed

-----------------------------------------------------------------------------
(* What the actions make of the messages *)

LEMMA KeptSame ==
  ASSUME NEW m \in Seq(Message) PROVE Kept(m, m)
  BY LenProperties DEF Kept

LEMMA KeptPrefix ==
  ASSUME NEW m \in Seq(Message), NEW M \in Seq(Message), Len(m) <= Len(M),
         \A j \in 1 .. Len(m) : M[j] = m[j]
  PROVE  Kept(m, M)
  BY DEF Kept

LEMMA LastIsOpen ==
  ASSUME MessagesOK, node \in Open
  PROVE  /\ AIs(messages) # {} /\ LastAI(messages) \in AIs(messages)
         /\ LastAI(messages) \in 1 .. Len(messages) /\ LastCalls(messages) \in Seq(Call)
         /\ messages[LastAI(messages)].calls = LastCalls(messages)
         /\ DOMAIN LastCalls(messages) = 1 .. Len(LastCalls(messages))
         /\ \A k \in DOMAIN LastCalls(messages) :
              /\ LastCalls(messages)[k].id = <<LastAI(messages), k>>
              /\ LastCalls(messages)[k] \in Call
  <1>1. AIs(messages) # {} /\ messages \in Seq(Message)
    BY DEF MessagesOK
  <1>2. /\ LastAI(messages) \in AIs(messages)
        /\ LastAI(messages) \in 1 .. Len(messages) /\ LastCalls(messages) \in Seq(Call)
    BY <1>1, LastIs
  <1>3. messages[LastAI(messages)].calls = LastCalls(messages)
    BY DEF LastCalls
  <1>4. DOMAIN LastCalls(messages) = 1 .. Len(LastCalls(messages))
    BY <1>2, LenProperties
  <1>5. \A k \in DOMAIN LastCalls(messages) : LastCalls(messages)[k].id = <<LastAI(messages), k>>
    BY <1>2, <1>3 DEF MessagesOK
  <1>6. \A k \in DOMAIN LastCalls(messages) : LastCalls(messages)[k] \in Call
    BY <1>2, <1>4, ElementOfSeq
  <1> QED BY <1>1, <1>2, <1>3, <1>4, <1>5, <1>6

\* Replies alone, behind the other messages, leave the outputs and the last of them.
LEMMA RepliesAlone ==
  ASSUME NEW m \in Seq(Message), NEW M, Kept(m, M), NEW i \in AIs(m), NEW P,
         NEW by, NEW t \in Nat, NEW u \in Nat, t <= u,
         Answered(M, Len(m), Len(M), i, P, by, t)
  PROVE  /\ AIs(M) = AIs(m) /\ LastAI(M) = LastAI(m)
         /\ \A j \in AIs(m) : InRun(M, j) => InRun(m, j)
         /\ \A j \in Len(m) + 1 .. Len(M) : Sound(M, j, u)
         /\ by # "tool" => Quiet(m, M)
  <1>1. /\ Len(m) \in Nat /\ Len(M) \in Nat /\ DOMAIN m \subseteq DOMAIN M
        /\ \A j \in DOMAIN M : j \in DOMAIN m \/ j \in Len(m) + 1 .. Len(M)
        /\ DOMAIN m = 1 .. Len(m) /\ \A j \in DOMAIN m : M[j].type = m[j].type
    BY Lengths DEF Kept
  <1>2. \A j \in Len(m) + 1 .. Len(M) :
          M[j].type = "tool" /\ M[j].by = by /\ M[j].turn = t /\ M[j].call[1] = i
    BY DEF Answered
  <1>3. i \in 1 .. Len(m)
    BY OutputsOf
  <1>4. AIs(M) = AIs(m)
    BY <1>1, <1>2 DEF AIs
  <1>5. LastAI(M) = LastAI(m)
    BY <1>4 DEF LastAI
  <1>6. \A j \in AIs(m) : InRun(M, j) => InRun(m, j)
    BY <1>1 DEF InRun
  <1>7. \A j \in Len(m) + 1 .. Len(M) : Sound(M, j, u)
    <2> SUFFICES ASSUME NEW j \in Len(m) + 1 .. Len(M) PROVE M[j].call[1] < j
      BY <1>2 DEF Sound
    <2>1. M[j].call[1] = i
      BY <1>2
    <2> QED BY <2>1, <1>1, <1>3
  <1>8. by # "tool" => Quiet(m, M)
    BY <1>2 DEF Quiet
  <1> QED BY <1>4, <1>5, <1>6, <1>7, <1>8

\* Nothing is appended: the replies to no call.
LEMMA NoReplies ==
  ASSUME NEW m \in Seq(Message), NEW i, NEW by, NEW t
  PROVE  Kept(m, m) /\ Answered(m, Len(m), Len(m), i, {}, by, t)
  <1>1. Len(m) \in Nat
    BY LenProperties
  <1>2. Len(m) + 1 .. Len(m) = {}
    BY <1>1
  <1> QED BY <1>2, KeptSame DEF Answered

LEMMA ToolsShape ==
  ASSUME ControlOK, MessagesOK, Tools
  PROVE  /\ Kept(messages, messages')
         /\ \A j \in DOMAIN messages : messages'[j] = messages[j]
         /\ Answered(messages', Len(messages), Len(messages'), LastAI(messages),
                     Pending(messages), "tool", turn)
  <1>1. node \in Open /\ turn \in Nat \ {0}
    BY AgentAssumption DEF Tools, Open, ControlOK
  <1>2. PICK r \in Replies(LastCalls(messages), Pending(messages), "tool", turn) : messages' = messages \o r
    BY DEF Tools
  <1>3. Pending(messages) \in SUBSET DOMAIN LastCalls(messages)
    BY DEF Pending
  <1>4. messages \in Seq(Message) /\ DOMAIN messages = 1 .. Len(messages)
    BY LenProperties DEF MessagesOK
  <1>5. /\ messages \o r \in Seq(Message) /\ Len(messages) <= Len(messages \o r)
        /\ \A j \in 1 .. Len(messages) : (messages \o r)[j] = messages[j]
        /\ Answered(messages \o r, Len(messages), Len(messages \o r), LastAI(messages),
                    Pending(messages), "tool", turn)
    <2>1. LastAI(messages) \in AIs(messages) /\ messages[LastAI(messages)].calls = LastCalls(messages)
      BY <1>1, LastIsOpen
    <2>2. \A k \in DOMAIN messages[LastAI(messages)].calls :
            messages[LastAI(messages)].calls[k].id = <<LastAI(messages), k>>
      BY <1>1, LastIsOpen
    <2> QED BY <1>1, <1>3, <1>4, <2>1, <2>2, RepliesAppended
  <1>6. Kept(messages, messages')
    BY <1>2, <1>4, <1>5, KeptPrefix
  <1> QED BY <1>2, <1>4, <1>5, <1>6

LimitsRaise == Raise

LimitsJump ==
  /\ End("limit")
  /\ Kept(messages, messages') /\ Quiet(messages, messages')
  /\ \A j \in Len(messages) + 1 .. Len(messages') :
       /\ Sound(messages', j, turn)
       /\ messages'[j].type = "tool" => messages'[j].call[1] = LastAI(messages)
  /\ threadTool' = threadTool + Allowed /\ runTool' = runTool + Cardinality(Counted)

LimitsAnswer ==
  /\ AfterHook(hook, messages', structured')
  /\ Kept(messages, messages')
  /\ \A j \in DOMAIN messages : messages'[j] = messages[j]
  /\ Answered(messages', Len(messages), Len(messages'), LastAI(messages), Blocked, "limit", turn)
  /\ threadTool' = threadTool + Allowed /\ runTool' = runTool + Cardinality(Counted)

LEMMA AIIs ==
  ASSUME turn \in Nat \ {0}, NEW calls \in Seq(Call), NEW by \in {"model", "limit"}
  PROVE  /\ AI(calls, by) \in Message /\ AI(calls, by).type = "ai" /\ AI(calls, by).calls = calls
         /\ AI(calls, by).by = by /\ AI(calls, by).turn = turn
  BY DEF AI, Message, AIMessage

LEMMA LimitToolsShape ==
  ASSUME ControlOK, MessagesOK, LimitTools
  PROVE  /\ node = "after" /\ agent.middleware[hook] = "tool_limit"
         /\ UNCHANGED <<agent, turn, approved, structured, threadModel, runModel>>
         /\ threadTool' \in Nat /\ runTool' \in Nat
         /\ LimitsRaise \/ LimitsJump \/ LimitsAnswer
  <1> DEFINE jump == Blocked # {} /\ agent.toolExit = "end"
             N    == Len(messages)
  <1>1. /\ node = "after" /\ agent.middleware[hook] = "tool_limit"
        /\ UNCHANGED <<agent, turn, approved>>
        /\ \/ Raise
           \/ /\ threadTool' = threadTool + Allowed /\ runTool' = runTool + Cardinality(Counted)
              /\ \E r \in Replies(LastCalls(messages), Blocked, "limit", turn) :
                   messages' = messages \o r \o (IF jump THEN << AI(<< >>, "limit") >> ELSE << >>)
              /\ IF jump THEN End("limit") ELSE AfterHook(hook, messages', structured')
              /\ UNCHANGED <<structured, threadModel, runModel>>
    BY DEF LimitTools, Runs, Counted, Allowed, Blocked
  <1>2. node \in Open /\ turn \in Nat \ {0} /\ threadTool \in Nat /\ runTool \in Nat
    BY <1>1, AgentAssumption DEF Open, ControlOK
  <1>3. CASE Raise
    BY <1>1, <1>2, <1>3 DEF Raise, counts, LimitsRaise
  <1>4. ASSUME threadTool' = threadTool + Allowed, runTool' = runTool + Cardinality(Counted),
               NEW r \in Replies(LastCalls(messages), Blocked, "limit", turn),
               messages' = messages \o r \o (IF jump THEN << AI(<< >>, "limit") >> ELSE << >>),
               IF jump THEN End("limit") ELSE AfterHook(hook, messages', structured')
        PROVE  threadTool' \in Nat /\ runTool' \in Nat /\ (LimitsJump \/ LimitsAnswer)
    <2> DEFINE m == messages \o r
    <2>1. /\ AIs(messages) # {} /\ LastAI(messages) \in AIs(messages)
          /\ messages[LastAI(messages)].calls = LastCalls(messages)
          /\ \A k \in DOMAIN LastCalls(messages) : LastCalls(messages)[k].id = <<LastAI(messages), k>>
      BY <1>2, LastIsOpen
    <2>2. /\ Blocked \in SUBSET DOMAIN LastCalls(messages) /\ Allowed \in Nat
          /\ Cardinality(Counted) \in Nat
      BY <2>1, CountedIs DEF Blocked
    <2>0. threadTool' \in Nat /\ runTool' \in Nat
      <3> DEFINE c == Cardinality(Counted)
      <3>1. c \in Nat /\ runTool' = runTool + c
        BY <1>4, <2>2
      <3> HIDE DEF c
      <3> QED BY <1>2, <1>4, <2>2, <3>1
    <2>3. messages \in Seq(Message) /\ DOMAIN messages = 1 .. N /\ N \in Nat
      BY LenProperties DEF MessagesOK
    <2>4. /\ m \in Seq(Message) /\ N <= Len(m)
          /\ \A j \in 1 .. N : m[j] = messages[j]
          /\ Answered(m, N, Len(m), LastAI(messages), Blocked, "limit", turn)
      BY <1>2, <2>1, <2>2, <2>3, RepliesAppended
    <2> HIDE DEF m
    <2>5. Kept(messages, m)
      BY <2>3, <2>4, KeptPrefix
    <2>6. /\ \A j \in N + 1 .. Len(m) : Sound(m, j, turn)
          /\ Quiet(messages, m) /\ Len(m) \in Nat
          /\ \A j \in N + 1 .. Len(m) : m[j].type = "tool" /\ m[j].call[1] = LastAI(messages)
      <3>1. /\ \A j \in N + 1 .. Len(m) : Sound(m, j, turn)
            /\ Quiet(messages, m)
        BY <1>2, <2>1, <2>3, <2>4, <2>5, RepliesAlone
      <3>2. \A j \in N + 1 .. Len(m) : m[j].type = "tool" /\ m[j].call[1] = LastAI(messages)
        BY <2>4 DEF Answered
      <3> QED BY <2>4, <3>1, <3>2, LenProperties
    <2>7. CASE jump
      <3> DEFINE a == AI(<< >>, "limit")
      <3>1. messages' = m \o <<a>> /\ End("limit")
        BY <1>4, <2>7 DEF m
      <3>2. a \in Message /\ a.type = "ai" /\ a.by = "limit" /\ a.calls = << >> /\ a.turn = turn
        <4>1. << >> \in Seq(Call)
          BY EmptySeq
        <4> QED BY <1>2, <4>1, AIIs
      <3> HIDE DEF a
      <3>3. <<a>> \in Seq(Message) /\ Len(<<a>>) = 1 /\ <<a>>[1] = a
        BY <3>2
      <3>4. /\ messages' \in Seq(Message) /\ Len(messages') = Len(m) + 1
            /\ \A j \in 1 .. Len(m) + 1 : messages'[j] = IF j <= Len(m) THEN m[j] ELSE <<a>>[j - Len(m)]
        BY <2>4, <3>1, <3>3, ConcatProperties
      <3>5. messages'[Len(m) + 1] = a /\ \A j \in 1 .. Len(m) : messages'[j] = m[j]
        <4>1. Len(m) + 1 \in 1 .. Len(m) + 1 /\ ~(Len(m) + 1 <= Len(m)) /\ (Len(m) + 1) - Len(m) = 1
          BY <2>6
        <4>2. messages'[Len(m) + 1] = <<a>>[1]
          BY <3>4, <4>1
        <4>3. \A j \in 1 .. Len(m) : j \in 1 .. Len(m) + 1 /\ j <= Len(m)
          BY <2>6
        <4> QED BY <3>3, <3>4, <4>2, <4>3
      <3>6. Kept(messages, messages')
        <4>1. N <= Len(messages') /\ \A j \in 1 .. N : messages'[j] = messages[j]
          BY <2>3, <2>4, <2>6, <3>4, <3>5
        <4> QED BY <2>3, <3>4, <4>1, KeptPrefix
      <3>7. ASSUME NEW j \in N + 1 .. Len(messages')
            PROVE  /\ Sound(messages', j, turn)
                   /\ messages'[j].type = "tool" => messages'[j].call[1] = LastAI(messages)
                   /\ messages'[j].type = "ai" => messages'[j].by = "limit" /\ messages'[j].calls = << >>
                   /\ messages'[j].type = "tool" => messages'[j].by # "tool"
        <4>1. CASE j \in N + 1 .. Len(m)
          <5>1. messages'[j] = m[j]
            BY <2>3, <2>6, <3>5, <4>1
          <5> QED BY <2>6, <4>1, <5>1 DEF Sound, Quiet
        <4>2. CASE j = Len(m) + 1
          BY <1>2, <3>2, <3>5, <4>2 DEF Sound
        <4>3. j \in N + 1 .. Len(m) \/ j = Len(m) + 1
          BY <2>3, <2>6, <3>4, <3>7
        <4> QED BY <4>1, <4>2, <4>3
      <3>8. Quiet(messages, messages')
        BY <3>7 DEF Quiet
      <3>9. LimitsJump
        BY <1>4, <3>1, <3>6, <3>7, <3>8 DEF LimitsJump
      <3> QED BY <2>0, <3>9
    <2>8. CASE ~jump
      <3>1. messages' = m
        <4>1. messages' = m \o << >>
          BY <1>4, <2>8 DEF m
        <4> QED BY <4>1, <2>4, ConcatEmptySeq
      <3>2. AfterHook(hook, messages', structured')
        BY <1>4, <2>8
      <3>3. LimitsAnswer
        BY <1>4, <2>3, <2>4, <2>5, <3>1, <3>2 DEF LimitsAnswer
      <3> QED BY <2>0, <3>3
    <2> QED BY <2>7, <2>8
  <1> QED BY <1>1, <1>3, <1>4

LEMMA OutputsAre ==
  ASSUME agent \in Agents, messages \in Seq(Message), NEW calls \in Outputs
  PROVE  /\ calls \in Seq(Call)
         /\ \A k \in DOMAIN calls : calls[k].id = <<Len(messages) + 1, k>>
  <1>1. PICK s \in UNION {[1 .. k -> Names] : k \in 0 .. MaxBatch} :
          calls = [i \in DOMAIN s |-> [id |-> <<Len(messages) + 1, i>>, name |-> s[i]]]
    BY DEF Outputs
  <1>2. PICK k \in 0 .. MaxBatch : s \in [1 .. k -> Names]
    OBVIOUS
  <1>3. k \in Nat /\ Len(messages) + 1 \in Nat
    BY AgentAssumption, LenProperties
  <1>4. Names \subseteq Tool \cup {Answer}
    BY DEF Names
  <1>5. calls \in [1 .. k -> Call]
    BY <1>1, <1>2, <1>3, <1>4 DEF Call
  <1>6. calls \in Seq(Call)
    BY <1>3, <1>5, IsASeq
  <1>7. \A j \in DOMAIN calls : calls[j].id = <<Len(messages) + 1, j>>
    BY <1>1
  <1> QED BY <1>6, <1>7

ModelAnswers ==
  LET i == Len(messages) + 1 IN
  /\ AfterHook(Len(agent.middleware) + 1, messages', structured')
  /\ Kept(messages, messages')
  /\ \A j \in DOMAIN messages : messages'[j] = messages[j]
  /\ i \in AIs(messages') /\ messages'[i].by = "model" /\ messages'[i].turn = turn
  /\ \A k \in DOMAIN messages'[i].calls : messages'[i].calls[k].id = <<i, k>>
  /\ Answered(messages', i, Len(messages'), i, Named(messages'[i].calls, {Answer}), "model", turn)

LEMMA ModelShape ==
  ASSUME ControlOK, MessagesOK, Model
  PROVE  /\ node = "model" /\ UNCHANGED <<agent, turn, approved, counts>>
         /\ structured' \in 0 .. turn
         /\ Raise \/ ModelAnswers
  <1>1. /\ node = "model" /\ UNCHANGED <<agent, turn, approved>>
        /\ turn \in Nat \ {0} /\ structured \in 0 .. turn
        /\ agent \in Agents /\ messages \in Seq(Message)
    BY AgentAssumption DEF Model, ControlOK, MessagesOK
  <1>2. PICK calls \in Outputs, parses \in BOOLEAN :
          \/ Raise
          \/ /\ \E r \in Replies(calls, Named(calls, {Answer}), "model", turn) :
                  messages' = Append(messages, AI(calls, "model")) \o r
             /\ \/ structured' = turn
                \/ structured' = structured
             /\ AfterHook(Len(agent.middleware) + 1, messages', structured')
             /\ UNCHANGED counts
    BY DEF Model
  <1>3. CASE Raise
    BY <1>1, <1>3 DEF Raise
  <1>4. ASSUME NEW r \in Replies(calls, Named(calls, {Answer}), "model", turn),
               messages' = Append(messages, AI(calls, "model")) \o r,
               AfterHook(Len(agent.middleware) + 1, messages', structured')
        PROVE  ModelAnswers
    <2> DEFINE a == AI(calls, "model")
               m == Append(messages, a)
               i == Len(messages) + 1
    <2>1. /\ calls \in Seq(Call)
          /\ \A k \in DOMAIN calls : calls[k].id = <<i, k>>
      BY <1>1, OutputsAre
    <2>2. a \in Message /\ a.type = "ai" /\ a.calls = calls /\ a.by = "model" /\ a.turn = turn
      BY <1>1, <2>1, AIIs
    <2> HIDE DEF a
    <2>3. /\ m \in Seq(Message) /\ Len(m) = i /\ m[i] = a /\ Len(messages) \in Nat
          /\ \A j \in 1 .. Len(messages) : m[j] = messages[j]
          /\ DOMAIN messages = 1 .. Len(messages) /\ DOMAIN m = 1 .. i
      BY <1>1, <2>2, AppendProperties, LenProperties
    <2> HIDE DEF m
    <2>4. i \in AIs(m) /\ m[i].calls = calls
      BY <2>2, <2>3 DEF AIs
    <2>5. Named(calls, {Answer}) \in SUBSET DOMAIN calls
      BY DEF Named
    <2>6. /\ m \o r \in Seq(Message) /\ i <= Len(m \o r)
          /\ \A j \in 1 .. i : (m \o r)[j] = m[j]
          /\ Answered(m \o r, i, Len(m \o r), i, Named(calls, {Answer}), "model", turn)
      <3> DEFINE P == Named(calls, {Answer})
      <3>1. P \in SUBSET DOMAIN m[i].calls /\ r \in Replies(m[i].calls, P, "model", turn)
        BY <2>4, <2>5
      <3>2. \A k \in DOMAIN m[i].calls : m[i].calls[k].id = <<i, k>>
        BY <2>1, <2>4
      <3>4. turn \in Nat \ {0} /\ m \in Seq(Message) /\ i \in AIs(m)
        BY <1>1, <2>3, <2>4
      <3> HIDE DEF P, i
      <3>3. /\ m \o r \in Seq(Message) /\ Len(m) <= Len(m \o r)
            /\ \A j \in 1 .. Len(m) : (m \o r)[j] = m[j]
            /\ Answered(m \o r, Len(m), Len(m \o r), i, P, "model", turn)
        BY <3>1, <3>2, <3>4, RepliesAppended
      <3> QED BY <2>3, <3>3 DEF P
    <2>7. messages' = m \o r
      BY <1>4 DEF m, a
    <2>8. Len(messages') \in Nat /\ DOMAIN messages' = 1 .. Len(messages')
      BY <2>6, <2>7, LenProperties
    <2>9. /\ Len(messages) <= Len(messages')
          /\ \A j \in 1 .. Len(messages) : messages'[j] = messages[j]
          /\ messages'[i] = a
      BY <2>3, <2>6, <2>7, <2>8
    <2>10. Kept(messages, messages')
      BY <1>1, <2>6, <2>7, <2>9, KeptPrefix
    <2>11. i \in AIs(messages')
      BY <2>2, <2>3, <2>6, <2>7, <2>8, <2>9 DEF AIs
    <2> QED BY <1>4, <2>1, <2>2, <2>3, <2>6, <2>7, <2>9, <2>10, <2>11 DEF ModelAnswers
  <1>5. CASE ~Raise
    <2>1. PICK r \in Replies(calls, Named(calls, {Answer}), "model", turn) :
            messages' = Append(messages, AI(calls, "model")) \o r
      BY <1>2, <1>5
    <2>2. /\ structured' = turn \/ structured' = structured
          /\ AfterHook(Len(agent.middleware) + 1, messages', structured') /\ UNCHANGED counts
      BY <1>2, <1>5
    <2>3. ModelAnswers
      BY <2>1, <2>2, <1>4
    <2>4. structured' \in 0 .. turn
      BY <1>1, <2>2
    <2> QED BY <1>1, <2>2, <2>3, <2>4
  <1> QED BY <1>3, <1>5

\* The positions the human answers for.
ResumeAnswers(P) ==
  /\ AfterHook(hook, messages', structured')
  /\ Kept(messages, messages')
  /\ Answered(messages', Len(messages), Len(messages'), LastAI(messages), P, "human", turn')
  /\ approved \subseteq approved' /\ approved' \in SUBSET Call
  /\ \A k \in DOMAIN messages'[LastAI(messages)].calls :
       messages'[LastAI(messages)].calls[k].name \in Guarded
         => k \in P \/ messages'[LastAI(messages)].calls[k] \in approved'

LEMMA ResumeShape ==
  ASSUME ControlOK, MessagesOK, Resume
  PROVE  /\ node = "interrupted" /\ turn' = turn + 1 /\ turn' \in 1 .. MaxTurns
         /\ runModel' = 0 /\ runTool' = 0
         /\ UNCHANGED <<agent, structured, threadModel, threadTool>>
         /\ \E P \in SUBSET DOMAIN LastCalls(messages) : ResumeAnswers(P)
  <1>1. /\ node = "interrupted" /\ turn' = turn + 1 /\ turn' \in 1 .. MaxTurns
        /\ runModel' = 0 /\ runTool' = 0
        /\ UNCHANGED <<agent, structured, threadModel, threadTool>>
    BY AgentAssumption DEF Resume, ControlOK
  <1> DEFINE calls    == LastCalls(messages)
             L        == LastAI(messages)
             kept(ds) == [i \in DOMAIN calls |-> IF i \in Asked THEN Revised(calls[i], ds[i]) ELSE calls[i]]
             given(ds) == {i \in Asked : ds[i].type \in {"reject", "respond"}}
  <1>2. PICK ds \in [Asked -> Decision] :
          /\ \E r \in Replies(calls, given(ds), "human", turn') :
               messages' = [messages EXCEPT ![L].calls = kept(ds)] \o r
          /\ approved' = approved \cup {kept(ds)[i] : i \in {j \in Asked : ds[j].type \in {"approve", "edit"}}}
          /\ AfterHook(hook, messages', structured')
    BY DEF Resume
  <1> DEFINE k0 == kept(ds)
             P  == given(ds)
             a  == [messages[L] EXCEPT !.calls = k0]
             m  == [messages EXCEPT ![L] = a]
  <1>3. PICK r \in Replies(calls, P, "human", turn') : messages' = m \o r
    BY <1>2
  <1>4. /\ L \in AIs(messages) /\ L \in 1 .. Len(messages) /\ calls \in Seq(Call)
        /\ messages[L].calls = calls /\ DOMAIN calls = 1 .. Len(calls)
        /\ \A k \in DOMAIN calls : calls[k].id = <<L, k>> /\ calls[k] \in Call
    BY <1>1, LastIsOpen DEF Open
  <1>5. Asked \subseteq DOMAIN calls
    BY DEF Asked
  <1>6. \A k \in DOMAIN calls :
          /\ k0[k] \in Call /\ k0[k].id = calls[k].id
          /\ k0[k].name = Answer => calls[k].name = Answer
          /\ k \in P => k0[k] = calls[k]
          /\ k0[k].name \in Guarded => k \in P \/ k0[k] \in approved'
    <2> SUFFICES ASSUME NEW k \in DOMAIN calls
                 PROVE  /\ k0[k] \in Call /\ k0[k].id = calls[k].id
                        /\ k0[k].name = Answer => calls[k].name = Answer
                        /\ k \in P => k0[k] = calls[k]
                        /\ k0[k].name \in Guarded => k \in P \/ k0[k] \in approved'
      OBVIOUS
    <2>1. calls[k] \in Call
      BY <1>4
    <2>2. CASE k \notin Asked
      <3>1. k0[k] = calls[k] /\ k \notin P
        BY <2>2
      <3>2. calls[k].name \notin Guarded
        BY <2>2 DEF Asked
      <3> QED BY <2>1, <3>1, <3>2
    <2>3. CASE k \in Asked
      <3> DEFINE d == ds[k]
      <3>1. d \in Decision /\ k0[k] = Revised(calls[k], d)
        BY <2>3
      <3>2. d.type \in {"reject", "respond", "approve", "edit"} /\ (d.type = "edit" => d.name \in Tool)
        BY <3>1 DEF Decision
      <3>3. k \in P <=> d.type \in {"reject", "respond"}
        BY <2>3
      <3>4. d.type \in {"approve", "edit"} => k0[k] \in approved'
        BY <1>2, <2>3
      <3> HIDE DEF d, k0, P, calls
      <3>5. CASE d.type = "edit"
        <4>1. k0[k] = [calls[k] EXCEPT !.name = d.name]
          BY <3>1, <3>5 DEF Revised
        <4>2. k0[k] \in Call /\ k0[k].id = calls[k].id /\ k0[k].name = d.name
          BY <2>1, <3>2, <3>5, <4>1 DEF Call
        <4>3. k0[k].name # Answer
          BY <3>2, <3>5, <4>2, AgentAssumption
        <4> QED BY <3>3, <3>4, <3>5, <4>2, <4>3
      <3>6. CASE d.type # "edit"
        <4>1. k0[k] = calls[k]
          BY <3>1, <3>6 DEF Revised
        <4> QED BY <2>1, <3>2, <3>3, <3>4, <3>6, <4>1
      <3> QED BY <3>5, <3>6
    <2> QED BY <2>2, <2>3
  <1>7. P \in SUBSET DOMAIN calls /\ DOMAIN k0 = DOMAIN calls /\ approved \subseteq approved'
    BY <1>2, <1>5
  <1>8. approved' \in SUBSET Call
    <2>1. \A i \in Asked : k0[i] \in Call
      BY <1>5, <1>6
    <2> HIDE DEF k0
    <2> QED BY <1>2, <2>1 DEF ControlOK, k0
  <1>9. k0 \in Seq(Call)
    <2>1. k0 \in [1 .. Len(calls) -> Call]
      BY <1>4, <1>6
    <2>2. Len(calls) \in Nat
      BY <1>4, LenProperties
    <2> HIDE DEF k0, calls
    <2> QED BY <2>1, <2>2, IsASeq
  <1>10. Replies(calls, P, "human", turn') = Replies(k0, P, "human", turn')
    <2>1. \A s \in InOrder(P) : \A k \in DOMAIN s : calls[s[k]] = k0[s[k]]
      BY <1>6, <1>7 DEF InOrder, Surjection
    <2> HIDE DEF k0, P, calls
    <2>2. \A s \in InOrder(P) : [k \in DOMAIN s |-> Reply(calls[s[k]], "human", turn')]
                                   = [k \in DOMAIN s |-> Reply(k0[s[k]], "human", turn')]
      BY <2>1
    <2> QED BY <2>2 DEF Replies
  <1> HIDE DEF k0, P, calls, kept, given
  <1>11. /\ messages \in Seq(Message) /\ DOMAIN messages = 1 .. Len(messages) /\ Len(messages) \in Nat
         /\ messages[L] \in AIMessage /\ messages[L].type = "ai"
    BY <1>4, OutputsOf, LenProperties DEF MessagesOK, AIMessage
  <1>12. /\ a \in AIMessage /\ a.type = "ai" /\ a.by = messages[L].by /\ a.turn = messages[L].turn
         /\ a.calls = k0
    BY <1>9, <1>11 DEF AIMessage
  <1> HIDE DEF a
  <1>13. /\ m \in Seq(Message) /\ Len(m) = Len(messages) /\ m[L] = a
         /\ \A j \in 1 .. Len(messages) : j # L => m[j] = messages[j]
    <2>1. \A j \in 1 .. Len(messages) : messages[j] \in Message
      BY <1>11, ElementOfSeq
    <2>2. a \in Message
      BY <1>12 DEF Message
    <2>3. m \in [1 .. Len(messages) -> Message]
      BY <1>11, <2>1, <2>2
    <2>4. m[L] = a /\ \A j \in 1 .. Len(messages) : j # L => m[j] = messages[j]
      BY <1>4, <1>11
    <2> HIDE DEF m
    <2> QED BY <2>3, <2>4, <1>11, IsASeq
  <1> HIDE DEF m, L
  <1>14. L \in AIs(m) /\ m[L].calls = k0 /\ DOMAIN m = 1 .. Len(m)
    BY <1>4, <1>12, <1>13, LenProperties DEF AIs
  <1>15. /\ m \o r \in Seq(Message) /\ Len(m) <= Len(m \o r)
         /\ \A j \in 1 .. Len(m) : (m \o r)[j] = m[j]
         /\ Answered(m \o r, Len(m), Len(m \o r), L, P, "human", turn')
    <2>1. \A k \in DOMAIN m[L].calls : m[L].calls[k].id = <<L, k>>
      BY <1>4, <1>6, <1>7, <1>14
    <2>2. turn' \in Nat \ {0}
      BY <1>1
    <2>3. P \in SUBSET DOMAIN m[L].calls /\ r \in Replies(m[L].calls, P, "human", turn')
      BY <1>3, <1>7, <1>10, <1>14
    <2> QED BY <1>13, <1>14, <2>1, <2>2, <2>3, RepliesAppended
  <1>16. Kept(messages, messages')
    <2>1. \A j \in 1 .. Len(messages) :
            /\ messages'[j].type = messages[j].type
            /\ messages[j].type # "ai" => messages'[j] = messages[j]
            /\ messages[j].type = "ai" =>
                 /\ messages'[j].by = messages[j].by /\ messages'[j].turn = messages[j].turn
                 /\ DOMAIN messages'[j].calls = DOMAIN messages[j].calls
                 /\ \A k \in DOMAIN messages[j].calls :
                      /\ messages'[j].calls[k].id = messages[j].calls[k].id
                      /\ messages'[j].calls[k].name = Answer => messages[j].calls[k].name = Answer
      <3> SUFFICES ASSUME NEW j \in 1 .. Len(messages)
                   PROVE  /\ messages'[j].type = messages[j].type
                          /\ messages[j].type # "ai" => messages'[j] = messages[j]
                          /\ messages[j].type = "ai" =>
                               /\ messages'[j].by = messages[j].by /\ messages'[j].turn = messages[j].turn
                               /\ DOMAIN messages'[j].calls = DOMAIN messages[j].calls
                               /\ \A k \in DOMAIN messages[j].calls :
                                    /\ messages'[j].calls[k].id = messages[j].calls[k].id
                                    /\ messages'[j].calls[k].name = Answer => messages[j].calls[k].name = Answer
        OBVIOUS
      <3>1. CASE j = L
        <4>1. messages'[j] = a
          BY <1>3, <1>4, <1>13, <1>15, <3>1
        <4>2. messages[j].type = "ai" /\ messages[j].calls = calls
          BY <1>4, <1>11, <3>1
        <4>3. \A k \in DOMAIN calls : k0[k].id = calls[k].id /\ (k0[k].name = Answer => calls[k].name = Answer)
          BY <1>6
        <4>4. a.type = "ai" /\ a.by = messages[j].by /\ a.turn = messages[j].turn /\ a.calls = k0
          BY <1>12, <3>1
        <4> QED BY <4>1, <4>2, <4>3, <4>4, <1>7
      <3>2. CASE j # L
        BY <1>3, <1>13, <1>15, <3>2
      <3> QED BY <3>1, <3>2
    <2> QED BY <1>3, <1>13, <1>15, <2>1 DEF Kept
  <1>17. messages'[L].calls = k0
    BY <1>3, <1>4, <1>13, <1>14, <1>15
  <1>18. ResumeAnswers(P)
    BY <1>2, <1>3, <1>6, <1>7, <1>8, <1>13, <1>15, <1>16, <1>17 DEF ResumeAnswers, L
  <1> QED BY <1>1, <1>7, <1>18 DEF calls

-----------------------------------------------------------------------------
(* Control *)

LEMMA KeepsControl ==
  ASSUME ControlOK, MessagesOK, Next
  PROVE  ControlOK'
  <1> USE AgentAssumption
  <1>1. /\ agent \in Agents /\ turn \in 0 .. MaxTurns /\ structured \in 0 .. turn
        /\ threadModel \in Nat /\ runModel \in Nat /\ threadTool \in Nat /\ runTool \in Nat
        /\ approved \in SUBSET Call /\ outcome \in {"none", "done", "limit", "failed"}
        /\ hook \in 0 .. Len(agent.middleware) /\ Len(agent.middleware) \in Nat
        /\ (hook # 0 <=> node \in {"after", "interrupted"}) /\ (node # "idle" => turn # 0)
    BY AgentIs DEF ControlOK
  <1>2. node \in {"after", "interrupted"} => hook \in 1 .. Len(agent.middleware) + 1
    BY <1>1
  <1>3. node # "idle" => turn \in 1 .. MaxTurns
    BY <1>1
  <1>4. ASSUME Raise, UNCHANGED <<agent, turn, approved>>
        PROVE  ControlOK'
    <2>1. End("failed") /\ UNCHANGED <<structured, threadModel, runModel, threadTool, runTool>>
      BY <1>4 DEF Raise, counts
    <2> QED BY <1>1, <1>4, <2>1, ControlAfterEnd
  <1>5. CASE Invoke
    <2>1. /\ node' = LoopEntry /\ hook' = 0 /\ turn' = turn + 1 /\ turn < MaxTurns
          /\ runModel' = 0 /\ runTool' = 0
          /\ UNCHANGED <<outcome, agent, structured, threadModel, threadTool, approved>>
      BY <1>5 DEF Invoke, Goto
    <2>2. node' \in {"before", "model"} /\ (node' = "model" => ~Has("model_limit")')
      BY <2>1 DEF LoopEntry, Has
    <2> QED BY <1>1, <2>1, <2>2 DEF ControlOK
  <1>6. CASE BeforeModel
    <2>1. node = "before" /\ UNCHANGED <<agent, structured, threadModel, runModel, threadTool, runTool, turn, approved>>
      BY <1>6 DEF BeforeModel, counts
    <2>2. CASE End("failed") \/ End("limit")
      BY <1>1, <2>1, <2>2, ControlAfterEnd
    <2>3. CASE /\ ~Exceeded(threadModel, agent.modelThread) /\ ~Exceeded(runModel, agent.modelRun)
               /\ Goto("model")
      BY <1>1, <2>1, <2>3 DEF ControlOK, Goto, Exceeded
    <2> QED BY <1>6, <2>2, <2>3 DEF BeforeModel
  <1>7. CASE Model
    <2>1. /\ node = "model" /\ UNCHANGED <<agent, turn, approved, threadModel, runModel, threadTool, runTool>>
          /\ structured' \in 0 .. turn /\ (Raise \/ ModelAnswers)
      BY <1>7, ModelShape DEF counts
    <2>2. CASE ModelAnswers
      <3>1. AfterHook(Len(agent.middleware) + 1, messages', structured')
        BY <2>2 DEF ModelAnswers
      <3>2. Len(agent.middleware) + 1 \in 1 .. Len(agent.middleware) + 1
        BY <1>1
      <3> QED BY <1>1, <1>3, <2>1, <3>1, <3>2, ControlAfterEdge
    <2> QED BY <1>4, <2>1, <2>2
  <1>8. CASE CountModel
    <2>1. /\ node = "after" /\ AfterHook(hook, messages, structured)
          /\ threadModel' = threadModel + 1 /\ runModel' = runModel + 1
          /\ UNCHANGED <<agent, structured, threadTool, runTool, turn, approved>>
      BY <1>8 DEF CountModel, Runs
    <2>2. threadModel' \in Nat /\ runModel' \in Nat
      BY <1>1, <2>1
    <2> QED BY <1>1, <1>2, <1>3, <2>1, <2>2, ControlAfterEdge
  <1>9. CASE LimitTools
    <2>1. /\ node = "after" /\ UNCHANGED <<agent, turn, approved, structured, threadModel, runModel>>
          /\ threadTool' \in Nat /\ runTool' \in Nat
          /\ Raise \/ LimitsJump \/ LimitsAnswer
      BY <1>9, LimitToolsShape DEF LimitsRaise
    <2>2. CASE LimitsJump
      BY <1>1, <2>1, <2>2, ControlAfterEnd DEF LimitsJump
    <2>3. CASE LimitsAnswer
      <3>1. AfterHook(hook, messages', structured')
        BY <2>3 DEF LimitsAnswer
      <3> QED BY <1>1, <1>2, <1>3, <2>1, <3>1, ControlAfterEdge
    <2> QED BY <1>4, <2>1, <2>2, <2>3
  <1>10. CASE Review
    <2>1. /\ node = "after" /\ agent.middleware[hook] = "hitl"
          /\ UNCHANGED <<agent, structured, threadModel, runModel, threadTool, runTool, turn, approved>>
          /\ \/ AfterHook(hook, messages, structured)
             \/ node' = "interrupted" /\ UNCHANGED <<hook, outcome>>
      BY <1>10 DEF Review, Runs, counts
    <2>2. CASE AfterHook(hook, messages, structured)
      BY <1>1, <1>2, <1>3, <2>1, <2>2, ControlAfterEdge
    <2>3. CASE node' = "interrupted" /\ UNCHANGED <<hook, outcome>>
      BY <1>1, <2>1, <2>3 DEF ControlOK
    <2> QED BY <2>1, <2>2, <2>3
  <1>11. CASE Resume
    <2>1. /\ node = "interrupted" /\ turn' \in 1 .. MaxTurns /\ turn' = turn + 1
          /\ runModel' = 0 /\ runTool' = 0
          /\ UNCHANGED <<agent, structured, threadModel, threadTool>>
      BY <1>11, ResumeShape
    <2>2. AfterHook(hook, messages', structured') /\ approved' \in SUBSET Call
      BY <1>11, ResumeShape DEF ResumeAnswers
    <2>3. structured' \in 0 .. turn' /\ runModel' \in Nat /\ runTool' \in Nat
      BY <1>1, <2>1
    <2> QED BY <1>1, <1>2, <2>1, <2>2, <2>3, ControlAfterEdge
  <1>12. CASE ResumeRefused
    <2>1. /\ turn < MaxTurns /\ turn' = turn + 1 /\ runModel' = 0 /\ runTool' = 0 /\ End("failed")
          /\ UNCHANGED <<agent, structured, threadModel, threadTool, approved>>
      BY <1>12 DEF ResumeRefused
    <2>2. turn' \in 0 .. MaxTurns /\ structured' \in 0 .. turn' /\ runModel' \in Nat /\ runTool' \in Nat
      BY <1>1, <2>1
    <2> QED BY <1>1, <2>1, <2>2, ControlAfterEnd
  <1>13. CASE Tools
    <2>1. node = "tools" /\ UNCHANGED <<agent, structured, threadModel, runModel, threadTool, runTool, turn, approved>>
      BY <1>13 DEF Tools, counts
    <2>2. End("done") \/ Goto(LoopEntry)
      BY <1>13 DEF Tools, ToolsToModel
    <2>3. CASE End("done")
      BY <1>1, <2>1, <2>3, ControlAfterEnd
    <2>4. CASE Goto(LoopEntry)
      <3>1. node' \in {"before", "model"} /\ (node' = "model" => ~Has("model_limit")')
        BY <2>1, <2>4 DEF LoopEntry, Has, Goto
      <3> QED BY <1>1, <2>1, <2>4, <3>1 DEF ControlOK, Goto
    <2> QED BY <2>2, <2>3, <2>4
  <1>14. CASE ToolsRaise
    BY <1>4, <1>14 DEF ToolsRaise
  <1> QED BY <1>5, <1>6, <1>7, <1>8, <1>9, <1>10, <1>11, <1>12, <1>13, <1>14 DEF Next

-----------------------------------------------------------------------------
(* Messages, answers and runs *)

\* What a hook does of the messages when it does not end the run: it replies to the
\* calls of the last output at P.
HookStep(P, by) ==
  /\ node \in {"after", "interrupted"} /\ turn' \in {turn, turn + 1}
  /\ Kept(messages, messages')
  /\ by # "tool"
  /\ Answered(messages', Len(messages), Len(messages'), LastAI(messages), P, by, turn')
  /\ node' \in Open \cup {"idle"} \/ Pending(messages') = {}

\* What the end of a run leaves.
EndStep ==
  /\ node' = "idle" /\ turn' \in {turn, turn + 1}
  /\ Kept(messages, messages') /\ Quiet(messages, messages')
  /\ \A j \in Len(messages) + 1 .. Len(messages') :
       /\ Sound(messages', j, turn')
       /\ messages'[j].type = "tool" => node \in Open /\ messages'[j].call[1] = LastAI(messages)

\* When nothing is pending, the last output is answered.
LEMMA NothingPending ==
  ASSUME NEW M \in Seq(Message), AIs(M) # {}, Pending(M) = {}, AnsweredAtOnce(M),
         \A k \in DOMAIN LastCalls(M) : LastCalls(M)[k].id = <<LastAI(M), k>>
  PROVE  \A k \in DOMAIN M[LastAI(M)].calls : HasAnswer(M, LastAI(M), k)
  <1> SUFFICES ASSUME NEW k \in DOMAIN LastCalls(M) PROVE HasAnswer(M, LastAI(M), k)
    BY DEF LastCalls
  <1>1. CASE LastCalls(M)[k].name = Answer
    <2>1. LastAI(M) \in AIs(M)
      BY LastIs
    <2> QED BY <1>1, <2>1 DEF AnsweredAtOnce, LastCalls
  <1>2. CASE LastCalls(M)[k].name # Answer
    <2>1. \E a \in After(M) : a.call = LastCalls(M)[k].id
      BY <1>2 DEF Pending
    <2>2. PICK j \in LastAI(M) + 1 .. Len(M) : M[j].type = "tool" /\ M[j].call = <<LastAI(M), k>>
      BY <2>1 DEF After
    <2>3. j \in DOMAIN M
      <3>1. LastAI(M) \in 1 .. Len(M) /\ DOMAIN M = 1 .. Len(M) /\ Len(M) \in Nat
        BY LastIs, LenProperties
      <3> QED BY <3>1
    <2> QED BY <2>2, <2>3 DEF HasAnswer
  <1> QED BY <1>1, <1>2

\* Outputs that had their answers still have them.
LEMMA StillAnswered ==
  ASSUME NEW m \in Seq(Message), NEW M, Kept(m, M), NEW i \in AIs(m),
         \A k \in DOMAIN m[i].calls : HasAnswer(m, i, k)
  PROVE  \A k \in DOMAIN M[i].calls : HasAnswer(M, i, k)
  <1>1. i \in 1 .. Len(m) /\ m[i].type = "ai"
    BY OutputsOf DEF AIs
  <1>2. DOMAIN M[i].calls = DOMAIN m[i].calls
    BY <1>1 DEF Kept
  <1> QED BY <1>2, StaysAnswered

LEMMA HookKeeps ==
  ASSUME ControlOK, MessagesOK, AnswersOK, OnceOK, NEW P, NEW by, HookStep(P, by)
  PROVE  MessagesOK' /\ AnswersOK' /\ OnceOK'
  <1> DEFINE m == messages
             M == messages'
             L == LastAI(messages)
  <1>1. /\ node \in Open /\ turn \in Nat /\ turn' \in Nat /\ turn <= turn'
        /\ Kept(m, M) /\ m \in Seq(Message) /\ M \in Seq(Message)
    BY AgentAssumption DEF HookStep, Open, ControlOK, MessagesOK, Kept
  <1>2. L \in AIs(m) /\ AIs(m) # {} /\ L = LastAI(m)
    BY <1>1, LastIsOpen
  <1>3. Answered(M, Len(m), Len(M), L, P, by, turn') /\ by # "tool"
    BY DEF HookStep
  <1>4. /\ AIs(M) = AIs(m) /\ LastAI(M) = L
        /\ \A j \in AIs(m) : InRun(M, j) => InRun(m, j)
        /\ \A j \in Len(m) + 1 .. Len(M) : Sound(M, j, turn')
        /\ Quiet(m, M)
    <2> HIDE DEF m, M, L
    <2>1. turn' <= turn'
      BY <1>1
    <2> QED BY <1>1, <1>2, <1>3, <2>1, RepliesAlone DEF L
  <1>5. MessagesOK'
    BY <1>1, <1>2, <1>4, MessagesAfter
  <1>6. AnsweredAtOnce(M)
    BY <1>1, <1>4, QuietKeepsAnswers DEF AnswersOK
  <1>7. AnswersOK'
    <2> SUFFICES ASSUME node' # "idle", NEW i \in AIs(M), InRun(M, i), ~(node' \in Open /\ i = LastAI(M))
                 PROVE  \A k \in DOMAIN M[i].calls : HasAnswer(M, i, k)
      BY <1>6 DEF AnswersOK
    <2>1. i \in AIs(m) /\ InRun(m, i)
      BY <1>4
    <2>2. node # "idle"
      BY DEF HookStep
    <2>3. CASE i # L
      <3>1. \A k \in DOMAIN m[i].calls : HasAnswer(m, i, k)
        BY <2>1, <2>2, <2>3 DEF AnswersOK
      <3> QED BY <1>1, <2>1, <3>1, StillAnswered
    <2>4. CASE i = L
      <3>1. Pending(M) = {}
        BY <1>4, <2>4 DEF HookStep
      <3>2. \A k \in DOMAIN LastCalls(M) : LastCalls(M)[k].id = <<LastAI(M), k>>
        <4>1. LastAI(M) \in AIs(M)
          BY <1>2, <1>4
        <4> QED BY <1>5, <4>1 DEF MessagesOK, LastCalls
      <3>3. AIs(M) # {}
        BY <1>2, <1>4
      <3> HIDE DEF M
      <3> QED BY <1>1, <1>4, <1>6, <2>4, <3>1, <3>2, <3>3, NothingPending
    <2> QED BY <2>3, <2>4
  <1>8. OnceOK'
    <2>1. \A j \in DOMAIN m : m[j].type = "tool" /\ m[j].by = "tool" => m[j].call[1] # L
      BY <1>1 DEF OnceOK, IsTool
    <2>2. \A j \in Len(m) + 1 .. Len(M) : M[j].call[1] = L /\ M[j].type = "tool" /\ M[j].by # "tool"
      BY <1>3 DEF Answered
    <2>3. RunsOnce(M)
      <3>1. NoneRan(m, M) /\ RunsOnce(m)
        BY <2>2 DEF NoneRan, OnceOK
      <3>2. \A j \in Len(m) + 1 .. Len(M) : \A j1 \in DOMAIN m :
              M[j].type = "tool" /\ m[j1].type = "tool" /\ m[j1].by = "tool" => m[j1].call # M[j].call
        <4> HIDE DEF m, M
        <4> QED BY <2>1, <2>2
      <3> HIDE DEF m, M
      <3> QED BY <1>1, <3>1, <3>2, NoneRanKeepsOnce
    <2>4. \A j \in DOMAIN M : M[j].type = "tool" /\ M[j].by = "tool" => M[j].call[1] # LastAI(M)
      <3>1. \A j \in DOMAIN M : j \in DOMAIN m \/ j \in Len(m) + 1 .. Len(M)
        BY <1>1, Lengths
      <3>2. \A j \in DOMAIN m : M[j].type = m[j].type /\ (m[j].type # "ai" => M[j] = m[j])
        BY <1>1, Lengths DEF Kept
      <3> HIDE DEF m, M
      <3> QED BY <1>4, <2>1, <2>2, <3>1, <3>2
    <2> QED BY <2>3, <2>4 DEF OnceOK, IsTool
  <1> QED BY <1>5, <1>7, <1>8

LEMMA EndKeeps ==
  ASSUME ControlOK, MessagesOK, AnswersOK, OnceOK, EndStep
  PROVE  MessagesOK' /\ AnswersOK' /\ OnceOK'
  <1> DEFINE m == messages
             M == messages'
  <1>1. /\ turn \in Nat /\ turn' \in Nat /\ turn <= turn' /\ node' = "idle"
        /\ Kept(m, M) /\ Quiet(m, M) /\ m \in Seq(Message) /\ M \in Seq(Message)
        /\ \A j \in Len(m) + 1 .. Len(M) : Sound(M, j, turn')
    BY AgentAssumption DEF EndStep, ControlOK, MessagesOK, Kept
  <1>2. MessagesOK'
    BY <1>1, MessagesAfter DEF Open
  <1>3. AnswersOK'
    BY <1>1, QuietKeepsAnswers DEF AnswersOK
  <1>4. RunsOnce(M)
    <2>1. NoneRan(m, M) /\ RunsOnce(m)
      BY <1>1 DEF NoneRan, OnceOK, Quiet
    <2>2. ASSUME NEW j \in Len(m) + 1 .. Len(M), NEW j1 \in DOMAIN m,
                 M[j].type = "tool", m[j1].type = "tool", m[j1].by = "tool"
          PROVE  m[j1].call # M[j].call
      <3>1. node \in Open /\ M[j].call[1] = LastAI(m)
        BY <2>2 DEF EndStep
      <3>2. m[j1].call[1] # LastAI(m)
        BY <2>2, <3>1 DEF OnceOK, IsTool
      <3> HIDE DEF m, M
      <3> QED BY <3>1, <3>2
    <2> HIDE DEF m, M
    <2> QED BY <1>1, <2>1, <2>2, NoneRanKeepsOnce
  <1> QED BY <1>1, <1>2, <1>3, <1>4 DEF OnceOK, Open

LEMMA OneMore ==
  ASSUME NEW m \in Seq(Message), NEW x \in Message
  PROVE  /\ Kept(m, Append(m, x)) /\ Append(m, x) \in Seq(Message) /\ Len(Append(m, x)) = Len(m) + 1
         /\ Append(m, x)[Len(m) + 1] = x
         /\ \A j \in 1 .. Len(m) : Append(m, x)[j] = m[j]
         /\ \A j \in Len(m) + 1 .. Len(Append(m, x)) : j = Len(m) + 1 /\ Append(m, x)[j] = x
  <1> DEFINE M == Append(m, x)
  <1>1. /\ M \in Seq(Message) /\ Len(M) = Len(m) + 1 /\ M[Len(m) + 1] = x /\ Len(m) \in Nat
        /\ \A j \in 1 .. Len(m) : M[j] = m[j]
    BY AppendProperties, LenProperties
  <1> HIDE DEF M
  <1>2. Len(m) <= Len(M) /\ \A j \in Len(m) + 1 .. Len(M) : j = Len(m) + 1
    BY <1>1
  <1>3. Kept(m, M)
    BY <1>1, <1>2, KeptPrefix
  <1> QED BY <1>1, <1>2, <1>3 DEF M

LEMMA HumanIs == Human \in Message /\ Human.type = "human"
  BY DEF Human, Message

InvokeStep ==
  /\ node' \in {"before", "model"} /\ turn' = turn + 1
  /\ Kept(messages, messages')
  /\ \A j \in Len(messages) + 1 .. Len(messages') : messages'[j].type = "human"
  /\ AIs(messages') = AIs(messages)
  /\ \A i \in AIs(messages') : ~InRun(messages', i)

LEMMA InvokeShape ==
  ASSUME MessagesOK, Invoke
  PROVE  InvokeStep
  <1> DEFINE m == messages
             M == messages'
  <1>1. M = Append(m, Human) /\ m \in Seq(Message) /\ turn' = turn + 1 /\ node' \in {"before", "model"}
    BY DEF Invoke, MessagesOK, Goto, LoopEntry
  <1> HIDE DEF m, M
  <1>2. /\ Kept(m, M) /\ M \in Seq(Message) /\ Len(M) = Len(m) + 1
        /\ \A j \in Len(m) + 1 .. Len(M) : j = Len(m) + 1 /\ M[j].type = "human"
    <2>1. /\ Kept(m, Append(m, Human)) /\ Append(m, Human) \in Seq(Message)
          /\ Len(Append(m, Human)) = Len(m) + 1
          /\ \A j \in Len(m) + 1 .. Len(Append(m, Human)) : j = Len(m) + 1 /\ Append(m, Human)[j] = Human
      BY <1>1, OneMore, HumanIs
    <2> QED BY <1>1, <2>1, HumanIs
  <1>4. /\ Len(m) \in Nat /\ DOMAIN m = 1 .. Len(m) /\ DOMAIN M = 1 .. Len(M)
        /\ AIs(m) = {i \in AIs(M) : i <= Len(m)}
    BY <1>1, <1>2, Lengths
  <1>5. \A i \in AIs(M) : i \in 1 .. Len(m)
    <2> SUFFICES ASSUME NEW i \in AIs(M) PROVE i \in 1 .. Len(m)
      OBVIOUS
    <2>1. i \in 1 .. Len(m) + 1 /\ M[i].type = "ai"
      BY <1>2, <1>4 DEF AIs
    <2>2. i # Len(m) + 1
      BY <1>2, <1>4, <2>1
    <2> QED BY <2>1, <2>2, <1>4
  <1>6. AIs(M) = AIs(m)
    BY <1>4, <1>5
  <1>7. \A i \in AIs(M) : ~InRun(M, i)
    <2>1. Len(m) + 1 \in DOMAIN M /\ M[Len(m) + 1].type = "human"
      BY <1>2, <1>4
    <2> QED BY <1>4, <1>5, <2>1 DEF InRun
  <1> QED BY <1>1, <1>2, <1>6, <1>7 DEF InvokeStep, m, M

LEMMA InvokeKeeps ==
  ASSUME ControlOK, MessagesOK, AnswersOK, OnceOK, InvokeStep
  PROVE  MessagesOK' /\ AnswersOK' /\ OnceOK'
  <1> DEFINE m == messages
             M == messages'
  <1>1. /\ turn \in Nat /\ turn' \in Nat /\ turn <= turn' /\ node' \notin Open
        /\ Kept(m, M) /\ m \in Seq(Message) /\ RunsOnce(m)
        /\ \A j \in Len(m) + 1 .. Len(M) : M[j].type = "human"
    BY AgentAssumption DEF InvokeStep, ControlOK, MessagesOK, OnceOK, Open
  <1>2. Quiet(m, M) /\ NoneRan(m, M) /\ \A j \in Len(m) + 1 .. Len(M) : Sound(M, j, turn')
    BY <1>1 DEF Quiet, NoneRan, Sound
  <1>3. MessagesOK'
    BY <1>1, <1>2, MessagesAfter
  <1>4. AnsweredAtOnce(M)
    BY <1>1, <1>2, QuietKeepsAnswers DEF AnswersOK
  <1>5. AnswersOK'
    BY <1>4 DEF AnswersOK, InvokeStep
  <1>6. RunsOnce(M)
    <2>1. \A j \in Len(m) + 1 .. Len(M) : M[j].type # "tool"
      BY <1>1
    <2> HIDE DEF m, M
    <2> QED BY <1>1, <1>2, <2>1, NoneRanKeepsOnce
  <1> QED BY <1>1, <1>3, <1>5, <1>6 DEF OnceOK

BeforeModelStep ==
  /\ node' = "model" /\ UNCHANGED messages
  /\ ~Exceeded(threadModel, agent.modelThread) /\ ~Exceeded(runModel, agent.modelRun)

LEMMA BeforeModelShape ==
  ASSUME ControlOK, MessagesOK, BeforeModel
  PROVE  /\ node = "before" /\ UNCHANGED <<agent, structured, threadModel, runModel, threadTool, runTool, turn, approved>>
         /\ BeforeModelStep \/ EndStep
  <1>1. /\ node = "before" /\ UNCHANGED <<agent, structured, threadModel, runModel, threadTool, runTool, turn, approved>>
        /\ turn \in Nat \ {0} /\ messages \in Seq(Message) /\ turn' = turn
    BY AgentAssumption DEF BeforeModel, counts, ControlOK, MessagesOK
  <1>2. CASE /\ ~Exceeded(threadModel, agent.modelThread) /\ ~Exceeded(runModel, agent.modelRun)
             /\ Goto("model") /\ UNCHANGED messages
    BY <1>1, <1>2 DEF BeforeModelStep, Goto
  <1>3. CASE End("failed") /\ UNCHANGED messages
    <2>1. Kept(messages, messages') /\ Len(messages) + 1 .. Len(messages') = {}
      BY <1>1, <1>3, KeptSame, LenProperties
    <2> QED BY <1>1, <1>3, <2>1 DEF EndStep, End, Quiet
  <1>4. CASE End("limit") /\ messages' = Append(messages, AI(<< >>, "limit"))
    <2> DEFINE a == AI(<< >>, "limit")
    <2>1. << >> \in Seq(Call) /\ DOMAIN << >> = {}
      BY EmptySeq
    <2>2. a \in Message /\ a.type = "ai" /\ a.calls = << >> /\ a.by = "limit" /\ a.turn = turn
      BY <1>1, <2>1, AIIs
    <2> HIDE DEF a
    <2>3. messages' = Append(messages, a)
      BY <1>4 DEF a
    <2>4. /\ Kept(messages, messages')
          /\ \A j \in Len(messages) + 1 .. Len(messages') : messages'[j] = a
      <3>1. /\ Kept(messages, Append(messages, a))
            /\ \A j \in Len(messages) + 1 .. Len(Append(messages, a)) : Append(messages, a)[j] = a
        BY <1>1, <2>2, OneMore
      <3> QED BY <2>3, <3>1
    <2>5. Quiet(messages, messages')
      BY <2>2, <2>4 DEF Quiet
    <2>6. \A j \in Len(messages) + 1 .. Len(messages') :
            Sound(messages', j, turn') /\ messages'[j].type # "tool"
      BY <1>1, <2>1, <2>2, <2>4 DEF Sound
    <2> QED BY <1>1, <1>4, <2>4, <2>5, <2>6 DEF EndStep, End
  <1> QED BY <1>2, <1>3, <1>4 DEF BeforeModel

LEMMA BeforeModelKeeps ==
  ASSUME MessagesOK, AnswersOK, OnceOK, node = "before", BeforeModelStep, turn' = turn
  PROVE  MessagesOK' /\ AnswersOK' /\ OnceOK'
  <1>1. node' = "model" /\ messages' = messages
    BY DEF BeforeModelStep
  <1>2. MessagesOK'
    BY <1>1 DEF MessagesOK, Open, IsTool
  <1>3. AnswersOK'
    BY <1>1 DEF AnswersOK, Open
  <1>4. OnceOK'
    BY <1>1 DEF OnceOK, Open
  <1> QED BY <1>2, <1>3, <1>4

LEMMA RaiseEnds ==
  ASSUME MessagesOK, Raise, turn' = turn
  PROVE  EndStep
  <1>1. node' = "idle" /\ messages' = messages /\ messages \in Seq(Message)
    BY DEF Raise, End, MessagesOK
  <1>2. Kept(messages, messages') /\ Len(messages) + 1 .. Len(messages') = {}
    BY <1>1, KeptSame, LenProperties
  <1> QED BY <1>1, <1>2 DEF EndStep, Quiet

\* The new output is the last one, and only replies follow it.
LEMMA ModelAppends ==
  ASSUME ControlOK, MessagesOK, node = "model", turn' = turn, ModelAnswers
  PROVE  LET m == messages
             M == messages'
             i == Len(m) + 1 IN
         /\ Kept(m, M) /\ m \in Seq(Message) /\ M \in Seq(Message) /\ turn \in Nat \ {0}
         /\ \A j \in DOMAIN m : M[j] = m[j]
         /\ i \in Nat /\ i \in Len(m) + 1 .. Len(M) /\ M[i].type = "ai" /\ i \notin DOMAIN m
         /\ M[i].by = "model" /\ M[i].turn = turn
         /\ AIs(M) = AIs(m) \cup {i} /\ LastAI(M) = i
         /\ \A k \in DOMAIN M[i].calls : M[i].calls[k].id = <<i, k>>
         /\ \A j \in Len(m) + 1 .. Len(M) : j = i \/ (j \in i + 1 .. Len(M) /\ M[j].type = "tool"
                                                      /\ M[j].by # "tool" /\ M[j].turn = turn /\ M[j].call[1] = i)
         /\ \A k \in DOMAIN M[i].calls : M[i].calls[k].name = Answer => HasAnswer(M, i, k)
         /\ node' \in Open \/ node' = "idle" \/ Pending(M) = {}
  <1> DEFINE m == messages
             M == messages'
             i == Len(m) + 1
             P == Named(M[i].calls, {Answer})
  <1>1. m \in Seq(Message) /\ turn \in Nat \ {0} /\ agent \in Agents
    BY AgentAssumption DEF ControlOK, MessagesOK
  <1>2. /\ AfterHook(Len(agent.middleware) + 1, messages', structured')
        /\ Kept(m, M) /\ \A j \in DOMAIN m : M[j] = m[j]
        /\ i \in AIs(M) /\ M[i].by = "model" /\ M[i].turn = turn
        /\ \A k \in DOMAIN M[i].calls : M[i].calls[k].id = <<i, k>>
        /\ Answered(M, i, Len(M), i, P, "model", turn)
    BY DEF ModelAnswers
  <1>3. node' \in Open \/ node' = "idle" \/ Pending(M) = {}
    <2>1. Len(agent.middleware) + 1 \in 1 .. Len(agent.middleware) + 1
      BY <1>1, AgentIs
    <2> QED BY <1>1, <1>2, <2>1, EdgeIs DEF Open
  <1> HIDE DEF m, M, P
  <1>4. /\ Len(m) \in Nat /\ Len(M) \in Nat /\ M \in Seq(Message)
        /\ DOMAIN m = 1 .. Len(m) /\ DOMAIN M = 1 .. Len(M)
        /\ AIs(m) = {a \in AIs(M) : a <= Len(m)}
    BY <1>1, <1>2, Lengths
  <1>5. i \in Nat /\ i \in Len(m) + 1 .. Len(M) /\ M[i].type = "ai" /\ i \notin DOMAIN m
    BY <1>2, <1>4 DEF AIs
  <1>6. \A j \in i + 1 .. Len(M) :
          M[j].type = "tool" /\ M[j].by = "model" /\ M[j].turn = turn /\ M[j].call[1] = i
    BY <1>2 DEF Answered
  <1>7. \A j \in Len(m) + 1 .. Len(M) : j = i \/ j \in i + 1 .. Len(M)
    BY <1>4
  <1>8. \A a \in AIs(M) : a \in AIs(m) \/ a = i
    <2> SUFFICES ASSUME NEW a \in AIs(M), ~(a <= Len(m)) PROVE a = i
      BY <1>4
    <2>1. a \in 1 .. Len(M) /\ M[a].type = "ai"
      BY <1>4 DEF AIs
    <2> QED BY <2>1, <1>4, <1>6
  <1>9. AIs(M) = AIs(m) \cup {i}
    BY <1>2, <1>4, <1>8
  <1>10. LastAI(M) = i
    <2>1. \A a \in AIs(M) : a <= i
      <3>1. \A a \in AIs(M) : a \in 1 .. Len(M)
        BY <1>4 DEF AIs
      <3> QED BY <3>1, <1>4, <1>8
    <2> HIDE DEF i
    <2> QED BY <1>2, <1>4, <2>1, LastIsThis
  <1>11. \A k \in DOMAIN M[i].calls : M[i].calls[k].name = Answer => HasAnswer(M, i, k)
    <2> SUFFICES ASSUME NEW k \in DOMAIN M[i].calls, M[i].calls[k].name = Answer PROVE HasAnswer(M, i, k)
      OBVIOUS
    <2>1. k \in P
      BY DEF P, Named
    <2>2. PICK j \in i + 1 .. Len(M) : M[j].call = <<i, k>>
      BY <1>2, <2>1 DEF Answered
    <2>3. j \in DOMAIN M /\ M[j].type = "tool"
      BY <1>4, <1>6
    <2> QED BY <2>2, <2>3 DEF HasAnswer
  <1>12. \A j \in Len(m) + 1 .. Len(M) :
           j = i \/ (j \in i + 1 .. Len(M) /\ M[j].type = "tool"
                     /\ M[j].by # "tool" /\ M[j].turn = turn /\ M[j].call[1] = i)
    BY <1>6, <1>7
  <1>13. \A k \in DOMAIN M[i].calls : M[i].calls[k].id = <<i, k>>
    BY <1>2
  <1> QED BY <1>1, <1>2, <1>3, <1>4, <1>5, <1>9, <1>10, <1>11, <1>12, <1>13 DEF m, M

LEMMA ModelKeeps ==
  ASSUME ControlOK, MessagesOK, AnswersOK, OnceOK, node = "model", turn' = turn, ModelAnswers
  PROVE  MessagesOK' /\ AnswersOK' /\ OnceOK'
  <1> DEFINE m == messages
             M == messages'
  <1> PICK i \in Nat :
         /\ i = Len(m) + 1
         /\ Kept(m, M) /\ m \in Seq(Message) /\ M \in Seq(Message) /\ turn \in Nat \ {0}
         /\ \A j \in DOMAIN m : M[j] = m[j]
         /\ i \in Len(m) + 1 .. Len(M) /\ M[i].type = "ai" /\ i \notin DOMAIN m
         /\ M[i].by = "model" /\ M[i].turn = turn
         /\ AIs(M) = AIs(m) \cup {i} /\ LastAI(M) = i
         /\ \A k \in DOMAIN M[i].calls : M[i].calls[k].id = <<i, k>>
         /\ \A j \in Len(m) + 1 .. Len(M) : j = i \/ (j \in i + 1 .. Len(M) /\ M[j].type = "tool"
                                                      /\ M[j].by # "tool" /\ M[j].turn = turn /\ M[j].call[1] = i)
         /\ \A k \in DOMAIN M[i].calls : M[i].calls[k].name = Answer => HasAnswer(M, i, k)
         /\ node' \in Open \/ node' = "idle" \/ Pending(M) = {}
    BY ModelAppends
  <1>1. /\ Len(m) \in Nat /\ Len(M) \in Nat /\ DOMAIN m = 1 .. Len(m) /\ DOMAIN M = 1 .. Len(M)
        /\ \A j \in DOMAIN M : j \in DOMAIN m \/ j \in Len(m) + 1 .. Len(M)
    BY Lengths
  <1>2. MessagesOK'
    <2>1. \A j \in Len(m) + 1 .. Len(M) : Sound(M, j, turn)
      <3> SUFFICES ASSUME NEW j \in Len(m) + 1 .. Len(M) PROVE Sound(M, j, turn)
        OBVIOUS
      <3>1. CASE j = i
        BY <3>1 DEF Sound
      <3>2. CASE j \in i + 1 .. Len(M) /\ M[j].type = "tool" /\ M[j].turn = turn /\ M[j].call[1] = i
        BY <3>2 DEF Sound
      <3> QED BY <3>1, <3>2
    <2>2. AIs(M) # {} /\ turn \in Nat /\ turn <= turn
      OBVIOUS
    <2> QED BY <2>1, <2>2, MessagesAfter
  <1>3. AnsweredAtOnce(M)
    <2> SUFFICES ASSUME NEW a \in AIs(m), NEW k \in DOMAIN M[a].calls, M[a].calls[k].name = Answer
                 PROVE  HasAnswer(M, a, k)
      BY DEF AnsweredAtOnce
    <2>1. M[a] = m[a]
      BY DEF AIs
    <2> QED BY <2>1, StaysAnswered DEF AnswersOK, AnsweredAtOnce
  <1>4. AnswersOK'
    <2> SUFFICES ASSUME node' # "idle", NEW a \in AIs(M), InRun(M, a), ~(node' \in Open /\ a = LastAI(M))
                 PROVE  \A k \in DOMAIN M[a].calls : HasAnswer(M, a, k)
      BY <1>3 DEF AnswersOK
    <2>1. CASE a # i
      <3>1. a \in AIs(m)
        BY <2>1
      <3>2. InRun(m, a)
        <4>1. \A h \in DOMAIN m : h \in DOMAIN M
          BY <1>1
        <4> QED BY <4>1 DEF InRun
      <3>3. \A k \in DOMAIN m[a].calls : HasAnswer(m, a, k)
        BY <3>1, <3>2 DEF AnswersOK, Open
      <3> QED BY <3>1, <3>3, StillAnswered
    <2>2. CASE a = i
      <3>1. Pending(M) = {} /\ AIs(M) # {}
        BY <2>2
      <3>2. \A k \in DOMAIN LastCalls(M) : LastCalls(M)[k].id = <<LastAI(M), k>>
        BY DEF LastCalls
      <3> HIDE DEF M
      <3> QED BY <1>3, <2>2, <3>1, <3>2, NothingPending
    <2> QED BY <2>1, <2>2
  <1>5. OnceOK'
    <2>1. \A j \in DOMAIN m : m[j].type = "tool" => m[j].call[1] < j
      BY DEF MessagesOK, IsTool
    <2>2. \A j \in DOMAIN m : m[j].type = "tool" => m[j].call[1] # i
      BY <1>1, <2>1
    <2>3. NoneRan(m, M) /\ RunsOnce(m)
      BY DEF NoneRan, OnceOK
    <2>4. \A j \in Len(m) + 1 .. Len(M) : \A j1 \in DOMAIN m :
            M[j].type = "tool" /\ m[j1].type = "tool" /\ m[j1].by = "tool" => m[j1].call # M[j].call
      <3> HIDE DEF m, M
      <3> QED BY <2>2
    <2>5. RunsOnce(M)
      <3> HIDE DEF m, M
      <3> QED BY <2>3, <2>4, NoneRanKeepsOnce
    <2>6. \A j \in DOMAIN M : M[j].type = "tool" /\ M[j].by = "tool" => M[j].call[1] # i
      <3> HIDE DEF m, M
      <3> QED BY <1>1, <2>2
    <2> QED BY <2>5, <2>6 DEF OnceOK, IsTool
  <1> QED BY <1>2, <1>4, <1>5

LEMMA ToolsEdge ==
  ASSUME Tools
  PROVE  node' \in {"idle", "before", "model"} /\ node = "tools" /\ turn' = turn
         /\ UNCHANGED <<agent, structured, threadModel, runModel, threadTool, runTool, turn, approved>>
  BY DEF Tools, ToolsToModel, End, Goto, LoopEntry, counts

LEMMA ToolsKeeps ==
  ASSUME ControlOK, MessagesOK, AnswersOK, OnceOK, Tools
  PROVE  MessagesOK' /\ AnswersOK' /\ OnceOK'
  <1> DEFINE m == messages
             M == messages'
             L == LastAI(messages)
             P == Pending(messages)
  <1>1. /\ Kept(m, M) /\ \A j \in DOMAIN m : M[j] = m[j]
        /\ Answered(M, Len(m), Len(M), L, P, "tool", turn)
    BY ToolsShape
  <1>2. /\ node' \in {"idle", "before", "model"} /\ node = "tools" /\ turn' = turn
        /\ node \in Open /\ node' \notin Open
        /\ turn \in Nat /\ turn <= turn /\ m \in Seq(Message) /\ M \in Seq(Message)
    BY <1>1, ToolsEdge, AgentAssumption DEF ControlOK, MessagesOK, Kept, Open
  <1>3. L \in AIs(m) /\ m[L].calls = LastCalls(m) /\ L = LastAI(m) /\ P = Pending(m) /\ L \in 1 .. Len(m)
    BY <1>2, LastIsOpen
  <1>4. /\ AIs(M) = AIs(m) /\ LastAI(M) = L
        /\ \A j \in AIs(m) : InRun(M, j) => InRun(m, j)
        /\ \A j \in Len(m) + 1 .. Len(M) : Sound(M, j, turn)
    <2> HIDE DEF m, M, L, P
    <2> QED BY <1>1, <1>2, <1>3, RepliesAlone DEF L
  <1>5. MessagesOK'
    BY <1>1, <1>2, <1>4, MessagesAfter
  <1>6. \A k \in DOMAIN LastCalls(m) : LastCalls(m)[k].id = <<L, k>>
    BY <1>2, LastIsOpen
  <1>7. \A j \in Len(m) + 1 .. Len(M) :
          M[j].type = "tool" /\ M[j].by = "tool" /\ \E k \in P : M[j].call = <<L, k>>
    BY <1>1 DEF Answered
  <1>8. /\ \A k \in P : \E j \in Len(m) + 1 .. Len(M) : M[j].call = <<L, k>>
        /\ \A j1, j2 \in Len(m) + 1 .. Len(M) : M[j1].call = M[j2].call => j1 = j2
    BY <1>1 DEF Answered
  <1>9. /\ Len(m) \in Nat /\ Len(M) \in Nat /\ DOMAIN m = 1 .. Len(m) /\ DOMAIN M = 1 .. Len(M)
        /\ Len(m) <= Len(M) /\ \A j \in DOMAIN M : j \in DOMAIN m \/ j \in Len(m) + 1 .. Len(M)
    BY <1>1, <1>2, Lengths
  <1>10. AnsweredAtOnce(m) /\ RunsOnce(m)
    BY DEF AnswersOK, OnceOK
  <1>11. \A j \in DOMAIN m : m[j].type = "tool" => m[j].call[1] < j
    BY DEF MessagesOK, IsTool
  <1>12. \A j \in DOMAIN m : m[j].type = "tool" /\ m[j].by = "tool" => m[j].call[1] # L
    BY <1>2 DEF OnceOK, IsTool
  <1>13. \A j \in DOMAIN m : m[j].type = "tool" => \A k \in P : m[j].call # <<L, k>>
    <2> SUFFICES ASSUME NEW j \in DOMAIN m, m[j].type = "tool", NEW k \in P, m[j].call = <<L, k>> PROVE FALSE
      OBVIOUS
    <2>1. k \in DOMAIN LastCalls(m) /\ \A a \in After(m) : a.call # LastCalls(m)[k].id
      BY DEF Pending
    <2>2. j \in L + 1 .. Len(m)
      <3>1. L < j
        BY <1>11
      <3> QED BY <3>1, <1>3, <1>9
    <2>3. m[j] \in After(m)
      BY <2>2 DEF After
    <2> QED BY <2>1, <2>3, <1>6
  <1>14. \A k \in DOMAIN LastCalls(m) : k \in P \/ HasAnswer(m, L, k)
    <2> SUFFICES ASSUME NEW k \in DOMAIN LastCalls(m), k \notin P PROVE HasAnswer(m, L, k)
      OBVIOUS
    <2>1. CASE LastCalls(m)[k].name = Answer
      BY <2>1, <1>3, <1>10 DEF AnsweredAtOnce
    <2>2. CASE LastCalls(m)[k].name # Answer
      <3>1. PICK a \in After(m) : a.call = LastCalls(m)[k].id
        BY <2>2 DEF Pending
      <3>2. PICK j \in L + 1 .. Len(m) : m[j].type = "tool" /\ m[j].call = <<L, k>>
        BY <3>1, <1>6 DEF After
      <3>3. j \in DOMAIN m
        BY <1>3, <1>9
      <3> QED BY <3>2, <3>3 DEF HasAnswer
    <2> QED BY <2>1, <2>2
  <1> HIDE DEF m, M, L, P
  <1>15. AnsweredAtOnce(M)
    <2> SUFFICES ASSUME NEW i \in AIs(M), NEW k \in DOMAIN M[i].calls, M[i].calls[k].name = Answer
                 PROVE  HasAnswer(M, i, k)
      BY DEF AnsweredAtOnce
    <2>1. i \in AIs(m) /\ M[i] = m[i]
      BY <1>1, <1>4 DEF AIs
    <2> QED BY <2>1, <1>1, <1>2, <1>10, StaysAnswered DEF AnsweredAtOnce
  <1>16. AnswersOK'
    <2> SUFFICES ASSUME NEW i \in AIs(M), InRun(M, i)
                 PROVE  \A k \in DOMAIN M[i].calls : HasAnswer(M, i, k)
      BY <1>15 DEF AnswersOK, M
    <2>1. i \in AIs(m) /\ InRun(m, i) /\ M[i] = m[i]
      BY <1>1, <1>4 DEF AIs
    <2>2. CASE i # L
      <3>1. \A k \in DOMAIN m[i].calls : HasAnswer(m, i, k)
        BY <1>2, <1>3, <2>1, <2>2 DEF AnswersOK, m
      <3> QED BY <1>1, <1>2, <2>1, <3>1, StillAnswered
    <2>3. CASE i = L
      <3> SUFFICES ASSUME NEW k \in DOMAIN LastCalls(m) PROVE HasAnswer(M, L, k)
        BY <1>3, <2>1, <2>3
      <3>1. CASE k \in P
        <4>1. PICK j \in Len(m) + 1 .. Len(M) : M[j].call = <<L, k>>
          BY <3>1, <1>8
        <4>2. j \in DOMAIN M /\ M[j].type = "tool"
          BY <1>7, <1>9
        <4> QED BY <4>1, <4>2 DEF HasAnswer
      <3>2. CASE HasAnswer(m, L, k)
        BY <3>2, <1>1, <1>2, StaysAnswered
      <3> QED BY <3>1, <3>2, <1>14
    <2> QED BY <2>2, <2>3
  <1>17. RunsOnce(M)
    <2> SUFFICES ASSUME NEW j1 \in DOMAIN M, NEW j2 \in DOMAIN M, M[j1].type = "tool",
                        M[j2].type = "tool", M[j1].by = "tool", M[j1].call = M[j2].call
                 PROVE  j1 = j2
      BY DEF RunsOnce
    <2>1. CASE j1 \in DOMAIN m /\ j2 \in DOMAIN m
      BY <2>1, <1>1, <1>10 DEF RunsOnce
    <2>2. CASE j1 \in Len(m) + 1 .. Len(M) /\ j2 \in Len(m) + 1 .. Len(M)
      BY <2>2, <1>8
    <2>3. CASE j1 \in DOMAIN m /\ j2 \in Len(m) + 1 .. Len(M)
      BY <2>3, <1>1, <1>7, <1>12
    <2>4. CASE j1 \in Len(m) + 1 .. Len(M) /\ j2 \in DOMAIN m
      BY <2>4, <1>1, <1>7, <1>13
    <2> QED BY <2>1, <2>2, <2>3, <2>4, <1>9
  <1> QED BY <1>2, <1>5, <1>16, <1>17 DEF OnceOK, M

-----------------------------------------------------------------------------
(* Which step an action is *)

LEMMA HookEdge ==
  ASSUME ControlOK, node \in {"after", "interrupted"}, NEW msgs, NEW response, AfterHook(hook, msgs, response)
  PROVE  node' \in Open \cup {"idle"} \/ Pending(msgs) = {}
  <1>1. agent \in Agents /\ hook \in 1 .. Len(agent.middleware) + 1
    BY AgentIs DEF ControlOK
  <1> QED BY <1>1, EdgeIs DEF Open

LEMMA NothingSaid ==
  ASSUME MessagesOK, node \in {"after", "interrupted"}, UNCHANGED <<messages, turn>>,
         node' \in Open \cup {"idle"} \/ Pending(messages) = {}
  PROVE  HookStep({}, "limit")
  <1>1. messages \in Seq(Message) /\ messages' = messages
    BY DEF MessagesOK
  <1>2. Kept(messages, messages) /\ Answered(messages, Len(messages), Len(messages), LastAI(messages), {}, "limit", turn)
    BY <1>1, NoReplies
  <1> QED BY <1>1, <1>2 DEF HookStep

LEMMA CountModelStep ==
  ASSUME ControlOK, MessagesOK, CountModel
  PROVE  HookStep({}, "limit")
  <1>1. node = "after" /\ UNCHANGED <<messages, turn>> /\ AfterHook(hook, messages, structured)
    BY DEF CountModel, Runs
  <1> QED BY <1>1, HookEdge, NothingSaid

LEMMA ReviewStep ==
  ASSUME ControlOK, MessagesOK, Review
  PROVE  HookStep({}, "limit")
  <1>1. node = "after" /\ UNCHANGED <<messages, turn>>
    BY DEF Review, Runs
  <1>2. node' \in Open \cup {"idle"} \/ Pending(messages) = {}
    BY <1>1, HookEdge DEF Review, Open
  <1> QED BY <1>1, <1>2, NothingSaid

LEMMA LimitsAnswerStep ==
  ASSUME ControlOK, MessagesOK, node = "after", LimitsAnswer, turn' = turn
  PROVE  HookStep(Blocked, "limit")
  <1>1. /\ AfterHook(hook, messages', structured') /\ Kept(messages, messages')
        /\ Answered(messages', Len(messages), Len(messages'), LastAI(messages), Blocked, "limit", turn')
    BY DEF LimitsAnswer
  <1>2. node' \in Open \cup {"idle"} \/ Pending(messages') = {}
    BY <1>1, HookEdge
  <1> QED BY <1>1, <1>2 DEF HookStep

LEMMA LimitsJumpStep ==
  ASSUME node = "after", LimitsJump, turn' = turn
  PROVE  EndStep
  BY DEF LimitsJump, EndStep, Open, End

LEMMA ResumeStep ==
  ASSUME ControlOK, MessagesOK, node = "interrupted", turn' = turn + 1, NEW P, ResumeAnswers(P)
  PROVE  HookStep(P, "human")
  <1>1. /\ AfterHook(hook, messages', structured') /\ Kept(messages, messages')
        /\ Answered(messages', Len(messages), Len(messages'), LastAI(messages), P, "human", turn')
    BY DEF ResumeAnswers
  <1>2. node' \in Open \cup {"idle"} \/ Pending(messages') = {}
    BY <1>1, HookEdge
  <1> QED BY <1>1, <1>2 DEF HookStep

LEMMA RefusedStep ==
  ASSUME MessagesOK, ResumeRefused
  PROVE  EndStep
  <1>1. node' = "idle" /\ messages' = messages /\ messages \in Seq(Message) /\ turn' = turn + 1
    BY DEF ResumeRefused, End, MessagesOK
  <1>2. Kept(messages, messages') /\ Len(messages) + 1 .. Len(messages') = {}
    BY <1>1, KeptSame, LenProperties
  <1> QED BY <1>1, <1>2 DEF EndStep, Quiet

LEMMA KeepsMessages ==
  ASSUME ControlOK, MessagesOK, AnswersOK, OnceOK, Next
  PROVE  MessagesOK' /\ AnswersOK' /\ OnceOK'
  <1>1. CASE Invoke
    BY <1>1, InvokeShape, InvokeKeeps
  <1>2. CASE BeforeModel
    BY <1>2, BeforeModelShape, BeforeModelKeeps, EndKeeps
  <1>3. CASE Model
    BY <1>3, ModelShape, RaiseEnds, ModelKeeps, EndKeeps
  <1>4. CASE CountModel
    BY <1>4, CountModelStep, HookKeeps
  <1>5. CASE LimitTools
    <2>1. node = "after" /\ turn' = turn /\ (Raise \/ LimitsJump \/ LimitsAnswer)
      BY <1>5, LimitToolsShape DEF LimitsRaise
    <2>2. CASE Raise \/ LimitsJump
      BY <2>1, <2>2, RaiseEnds, LimitsJumpStep, EndKeeps
    <2>3. CASE LimitsAnswer
      BY <2>1, <2>3, LimitsAnswerStep, HookKeeps
    <2> QED BY <2>1, <2>2, <2>3
  <1>6. CASE Review
    BY <1>6, ReviewStep, HookKeeps
  <1>7. CASE Resume
    <2>1. node = "interrupted" /\ turn' = turn + 1 /\ \E P \in SUBSET DOMAIN LastCalls(messages) : ResumeAnswers(P)
      BY <1>7, ResumeShape
    <2>2. PICK P : ResumeAnswers(P)
      BY <2>1
    <2> QED BY <2>1, <2>2, ResumeStep, HookKeeps
  <1>8. CASE ResumeRefused
    BY <1>8, RefusedStep, EndKeeps
  <1>9. CASE Tools
    BY <1>9, ToolsKeeps
  <1>10. CASE ToolsRaise
    BY <1>10, RaiseEnds, EndKeeps DEF ToolsRaise
  <1> QED BY <1>1, <1>2, <1>3, <1>4, <1>5, <1>6, <1>7, <1>8, <1>9, <1>10 DEF Next

LEMMA HookLeaves ==
  ASSUME ControlOK, MessagesOK, NEW P, NEW by, HookStep(P, by)
  PROVE  /\ messages \in Seq(Message) /\ Kept(messages, messages') /\ Quiet(messages, messages')
         /\ AIs(messages) # {} /\ AIs(messages') = AIs(messages) /\ LastAI(messages') = LastAI(messages)
         /\ turn' \in {turn, turn + 1}
  <1> DEFINE m == messages
             M == messages'
             L == LastAI(messages)
  <1>1. /\ node \in Open /\ turn \in Nat /\ turn' \in Nat /\ turn' \in {turn, turn + 1} /\ turn' <= turn'
        /\ Kept(m, M) /\ m \in Seq(Message)
    BY AgentAssumption DEF HookStep, Open, ControlOK, MessagesOK
  <1>2. L \in AIs(m) /\ AIs(m) # {} /\ L = LastAI(m)
    BY <1>1, LastIsOpen
  <1>3. Answered(M, Len(m), Len(M), L, P, by, turn') /\ by # "tool"
    BY DEF HookStep
  <1>4. AIs(M) = AIs(m) /\ LastAI(M) = L /\ Quiet(m, M)
    <2> HIDE DEF m, M, L
    <2> QED BY <1>1, <1>2, <1>3, RepliesAlone DEF L
  <1> QED BY <1>1, <1>2, <1>4

-----------------------------------------------------------------------------
(* Approval *)

LEMMA PendingShrinks ==
  ASSUME NEW m \in Seq(Message), NEW M, Kept(m, M), AIs(m) # {},
         LastAI(M) = LastAI(m), LastCalls(M) = LastCalls(m)
  PROVE  Pending(M) \subseteq Pending(m)
  <1> SUFFICES ASSUME NEW k \in Pending(M), NEW a \in After(m) PROVE a.call # LastCalls(m)[k].id
    BY DEF Pending
  <1>1. PICK j \in LastAI(m) + 1 .. Len(m) : m[j].type = "tool" /\ m[j] = a
    BY DEF After
  <1>2. LastAI(m) \in 1 .. Len(m) /\ Len(m) \in Nat /\ Len(M) \in Nat /\ Len(m) <= Len(M)
    BY LastIs, Lengths
  <1>3. j \in 1 .. Len(m) /\ j \in LastAI(M) + 1 .. Len(M)
    BY <1>2
  <1>4. M[j].type = "tool" /\ M[j] = a
    BY <1>1, <1>3 DEF Kept
  <1>5. a \in After(M)
    BY <1>3, <1>4 DEF After
  <1> QED BY <1>5 DEF Pending

\* What a hook replied to is not pending any more.
LEMMA RepliesAnswer ==
  ASSUME ControlOK, MessagesOK, NEW P, NEW by, HookStep(P, by)
  PROVE  \A k \in Pending(messages') : k \notin P
  <1> DEFINE m == messages
             M == messages'
  <1> SUFFICES ASSUME NEW k \in Pending(M), k \in P PROVE FALSE
    OBVIOUS
  <1>1. /\ m \in Seq(Message) /\ Kept(m, M) /\ AIs(m) # {}
        /\ M \in Seq(Message) /\ AIs(M) = AIs(m) /\ LastAI(M) = LastAI(m)
    BY HookLeaves DEF Kept
  <1>2. PICK j \in Len(m) + 1 .. Len(M) : M[j].call = <<LastAI(m), k>> /\ M[j].type = "tool"
    BY DEF HookStep, Answered
  <1>3. LastCalls(M)[k].id = <<LastAI(m), k>>
    <2>1. LastAI(m) \in AIs(m) /\ LastAI(m) \in 1 .. Len(m) /\ m[LastAI(m)].type = "ai"
      BY <1>1, LastIs DEF AIs
    <2>2. DOMAIN M[LastAI(m)].calls = DOMAIN m[LastAI(m)].calls
      BY <1>1, <2>1 DEF Kept
    <2>3. k \in DOMAIN m[LastAI(m)].calls
      BY <1>1, <2>2 DEF Pending, LastCalls
    <2>4. M[LastAI(m)].calls[k].id = m[LastAI(m)].calls[k].id
      BY <1>1, <2>1, <2>3 DEF Kept
    <2>5. m[LastAI(m)].calls[k].id = <<LastAI(m), k>>
      BY <2>1, <2>3 DEF MessagesOK
    <2> QED BY <1>1, <2>4, <2>5 DEF LastCalls
  <1>4. j \in LastAI(M) + 1 .. Len(M)
    <2>1. LastAI(m) \in 1 .. Len(m) /\ Len(m) \in Nat /\ Len(M) \in Nat
      BY <1>1, LastIs, LenProperties
    <2> QED BY <1>1, <2>1
  <1>5. M[j] \in After(M)
    BY <1>2, <1>4 DEF After
  <1> QED BY <1>2, <1>3, <1>5 DEF Pending

LEMMA LimitsKeepCalls ==
  ASSUME ControlOK, MessagesOK, HookStep(Blocked, "limit"), LimitsAnswer
  PROVE  LastCalls(messages') = LastCalls(messages)
  <1>1. messages \in Seq(Message) /\ AIs(messages) # {} /\ LastAI(messages') = LastAI(messages)
    BY HookLeaves
  <1>2. LastAI(messages) \in DOMAIN messages
    BY <1>1, LastIs DEF AIs
  <1> QED BY <1>1, <1>2 DEF LimitsAnswer, LastCalls

\* A hook of another middleware goes past none but its own.
LEMMA PastMoves ==
  ASSUME ControlOK, node \in {"after", "interrupted"}, NEW msgs, NEW response,
         AfterHook(hook, msgs, response), agent' = agent,
         NEW w, Has(w), agent.middleware[hook] # w,
         Past(w)' \/ node' \in {"before", "model", "tools"}
  PROVE  Past(w)
  <1>1. /\ agent \in Agents /\ hook \in 1 .. Len(agent.middleware) + 1 /\ Len(agent.middleware) \in Nat
        /\ DOMAIN agent.middleware = 1 .. Len(agent.middleware)
        /\ hook \in 1 .. Len(agent.middleware)
    BY AgentIs DEF ControlOK
  <1>2. /\ node' = "after" => hook' = hook - 1
        /\ node' # "after" => hook = 1
        /\ node' \in {"idle", "before", "model", "after", "tools"}
    BY <1>1, EdgeIs
  <1>3. \E h \in DOMAIN agent.middleware : agent.middleware[h] = w
    BY DEF Has, Range
  <1>4. CASE node' = "after"
    <2>1. PICK h \in DOMAIN agent.middleware : h > hook - 1 /\ agent.middleware[h] = w
      BY <1>2, <1>4 DEF Past
    <2>2. h # hook
      BY <2>1
    <2>3. h > hook
      BY <1>1, <2>1, <2>2
    <2> QED BY <2>1, <2>3 DEF Past
  <1>5. CASE node' # "after"
    <2>1. PICK h \in DOMAIN agent.middleware : agent.middleware[h] = w
      BY <1>3
    <2>2. h # hook /\ hook = 1
      BY <1>2, <1>5, <2>1
    <2>3. h > hook
      BY <1>1, <2>2
    <2> QED BY <2>1, <2>3 DEF Past
  <1> QED BY <1>4, <1>5

\* The hooks start with the last one.
LEMMA PastModel ==
  ASSUME ControlOK, NEW msgs, NEW response, AfterHook(Len(agent.middleware) + 1, msgs, response),
         agent' = agent, NEW w, Has(w)
  PROVE  /\ ~Past(w)' /\ node' = "after" /\ hook' = Len(agent.middleware)
  <1>1. /\ agent \in Agents /\ Len(agent.middleware) \in Nat
        /\ DOMAIN agent.middleware = 1 .. Len(agent.middleware)
    BY AgentIs DEF ControlOK
  <1>2. Len(agent.middleware) # 0
    BY <1>1 DEF Has, Range
  <1>3. node' = "after" /\ hook' = Len(agent.middleware)
    BY <1>1, <1>2 DEF AfterHook
  <1> QED BY <1>1, <1>3 DEF Past

RanIsApproved(M, A) ==
  \A j \in DOMAIN M : M[j].type = "tool" /\ M[j].by = "tool" /\ M[j].name \in Guarded
                        => [id |-> M[j].call, name |-> M[j].name] \in A

PendingIsApproved(M, A) == \A k \in Pending(M) : LastCalls(M)[k].name \in Guarded => LastCalls(M)[k] \in A

LEMMA ApprovedIs ==
  ApprovedOK <=> (Has("hitl") => RanIsApproved(messages, approved)
                                 /\ (Past("hitl") => PendingIsApproved(messages, approved)))
  BY DEF ApprovedOK, RanIsApproved, PendingIsApproved, IsTool

LEMMA NoneRanApproved ==
  ASSUME NEW m \in Seq(Message), NEW M, Kept(m, M), NoneRan(m, M), NEW A, NEW B, A \subseteq B,
         RanIsApproved(m, A)
  PROVE  RanIsApproved(M, B)
  <1>1. \A j \in DOMAIN M : j \in DOMAIN m \/ j \in Len(m) + 1 .. Len(M)
    BY Lengths
  <1>2. \A j \in DOMAIN m : M[j].type = m[j].type /\ (m[j].type # "ai" => M[j] = m[j])
    BY Lengths DEF Kept
  <1> QED BY <1>1, <1>2 DEF RanIsApproved, NoneRan

LEMMA KeepsApproved ==
  ASSUME ControlOK, MessagesOK, ApprovedOK, Next
  PROVE  ApprovedOK'
  <1> DEFINE m == messages
             M == messages'
  <1>0. m \in Seq(Message) /\ approved \in SUBSET Call /\ (node = "interrupted" => agent.middleware[hook] = "hitl")
    BY DEF MessagesOK, ControlOK
  <1> SUFFICES ASSUME Has("hitl"), agent' = agent
               PROVE  RanIsApproved(M, approved') /\ (Past("hitl")' => PendingIsApproved(M, approved'))
    <2>1. agent' = agent
      BY DEF Next, Invoke, BeforeModel, Model, CountModel, LimitTools, Review, Resume, ResumeRefused, Tools, ToolsRaise
    <2>2. Has("hitl")' <=> Has("hitl")
      BY <2>1 DEF Has
    <2> QED BY <2>1, <2>2 DEF ApprovedOK, RanIsApproved, PendingIsApproved, IsTool
  <1>1. RanIsApproved(m, approved) /\ (Past("hitl") => PendingIsApproved(m, approved))
    BY ApprovedIs
  <1>2. ASSUME Kept(m, M), Quiet(m, M), approved \subseteq approved' PROVE RanIsApproved(M, approved')
    <2>1. NoneRan(m, M)
      BY <1>2 DEF Quiet, NoneRan
    <2> HIDE DEF m, M
    <2> QED BY <1>0, <1>1, <1>2, <2>1, NoneRanApproved
  <1>3. ASSUME EndStep, UNCHANGED approved
        PROVE  RanIsApproved(M, approved') /\ ~Past("hitl")'
    BY <1>2, <1>3 DEF EndStep, Past
  <1>4. ASSUME NEW P, NEW by, HookStep(P, by), UNCHANGED approved,
               AfterHook(hook, M, structured'), LastCalls(M) = LastCalls(m), agent.middleware[hook] # "hitl"
        PROVE  RanIsApproved(M, approved') /\ (Past("hitl")' => PendingIsApproved(M, approved'))
    <2>1. Kept(m, M) /\ Quiet(m, M) /\ AIs(m) # {} /\ LastAI(M) = LastAI(m)
      BY <1>4, HookLeaves
    <2>2. Pending(M) \subseteq Pending(m)
      <3> HIDE DEF m, M
      <3> QED BY <1>0, <1>4, <2>1, PendingShrinks
    <2>3. Past("hitl")' => Past("hitl")
      BY <1>4, PastMoves DEF HookStep
    <2> QED BY <1>1, <1>2, <1>4, <2>1, <2>2, <2>3 DEF PendingIsApproved
  <1>5. CASE Invoke
    <2>1. InvokeStep /\ approved' = approved
      BY <1>5, InvokeShape DEF Invoke
    <2>2. Kept(m, M) /\ Quiet(m, M) /\ ~Past("hitl")'
      BY <2>1 DEF InvokeStep, Quiet, Past
    <2> QED BY <2>1, <2>2, <1>2
  <1>6. CASE BeforeModel
    <2>1. approved' = approved /\ (BeforeModelStep \/ EndStep)
      BY <1>6, BeforeModelShape
    <2>2. CASE BeforeModelStep
      BY <2>1, <2>2, <1>1 DEF BeforeModelStep, Past
    <2> QED BY <2>1, <2>2, <1>3
  <1>7. CASE Model
    <2>1. node = "model" /\ approved' = approved /\ turn' = turn /\ (Raise \/ ModelAnswers)
      BY <1>7, ModelShape
    <2>2. CASE ModelAnswers
      <3>1. ~Past("hitl")'
        BY <2>2, PastModel DEF ModelAnswers
      <3>2. Kept(m, M) /\ NoneRan(m, M)
        BY <2>1, <2>2, ModelAppends DEF NoneRan
      <3>3. RanIsApproved(M, approved')
        <4> HIDE DEF m, M
        <4> QED BY <1>0, <1>1, <2>1, <3>2, NoneRanApproved
      <3> QED BY <3>1, <3>3
    <2> QED BY <1>3, <2>1, <2>2, RaiseEnds
  <1>8. CASE CountModel
    <2>1. /\ HookStep({}, "limit") /\ UNCHANGED <<approved, messages, structured>>
          /\ AfterHook(hook, messages, structured) /\ agent.middleware[hook] = "model_limit"
      BY <1>8, CountModelStep DEF CountModel, Runs
    <2>2. AfterHook(hook, M, structured') /\ agent.middleware[hook] # "hitl" /\ LastCalls(M) = LastCalls(m)
      BY <2>1
    <2> HIDE DEF m, M
    <2> QED BY <1>4, <2>1, <2>2
  <1>9. CASE LimitTools
    <2>1. /\ node = "after" /\ turn' = turn /\ approved' = approved /\ agent.middleware[hook] = "tool_limit"
          /\ Raise \/ LimitsJump \/ LimitsAnswer
      BY <1>9, LimitToolsShape DEF LimitsRaise
    <2>2. CASE Raise \/ LimitsJump
      BY <1>3, <2>1, <2>2, RaiseEnds, LimitsJumpStep
    <2>3. CASE LimitsAnswer
      <3>1. HookStep(Blocked, "limit") /\ AfterHook(hook, M, structured')
        BY <2>1, <2>3, LimitsAnswerStep DEF LimitsAnswer
      <3>2. LastCalls(M) = LastCalls(m)
        BY <2>3, <3>1, LimitsKeepCalls
      <3> HIDE DEF m, M
      <3> QED BY <1>4, <2>1, <3>1, <3>2
    <2> QED BY <2>1, <2>2, <2>3
  <1>10. CASE Review
    <2>1. /\ node = "after" /\ UNCHANGED <<approved, messages>>
      BY <1>10 DEF Review, Runs
    <2>2. CASE Asked = {}
      BY <2>1, <2>2, <1>1 DEF Asked, PendingIsApproved, Pending
    <2>3. CASE Asked # {}
      <3>1. node' = "interrupted" /\ hook' = hook
        BY <1>10, <2>3 DEF Review
      <3>2. Past("hitl")' => Past("hitl")
        BY <2>1, <3>1 DEF Past
      <3> QED BY <2>1, <3>2, <1>1
    <2> QED BY <2>2, <2>3
  <1>11. CASE Resume
    <2>1. node = "interrupted" /\ turn' = turn + 1 /\ \E P \in SUBSET DOMAIN LastCalls(messages) : ResumeAnswers(P)
      BY <1>11, ResumeShape
    <2>2. PICK P : ResumeAnswers(P)
      BY <2>1
    <2>3. HookStep(P, "human")
      BY <2>1, <2>2, ResumeStep
    <2>4. Kept(m, M) /\ Quiet(m, M) /\ AIs(m) # {} /\ LastAI(M) = LastAI(m) /\ M \in Seq(Message) /\ AIs(M) = AIs(m)
      BY <2>3, HookLeaves DEF Kept
    <2>5. /\ approved \subseteq approved'
          /\ \A k \in DOMAIN M[LastAI(m)].calls :
               M[LastAI(m)].calls[k].name \in Guarded => k \in P \/ M[LastAI(m)].calls[k] \in approved'
      BY <2>2 DEF ResumeAnswers
    <2>6. PendingIsApproved(M, approved')
      <3>1. \A k \in Pending(M) : k \notin P
        BY <2>3, RepliesAnswer
      <3> QED BY <2>4, <2>5, <3>1 DEF PendingIsApproved, Pending, LastCalls
    <2>7. RanIsApproved(M, approved')
      BY <1>2, <2>4, <2>5
    <2> QED BY <2>6, <2>7
  <1>12. CASE ResumeRefused
    BY <1>3, <1>12, RefusedStep DEF ResumeRefused
  <1>13. CASE Tools
    <2>1. /\ node' \in {"idle", "before", "model"} /\ node = "tools" /\ approved' = approved
          /\ ~Past("hitl")' /\ PendingIsApproved(m, approved)
      BY <1>1, <1>13, ToolsEdge DEF Past
    <2>2. /\ Kept(m, M) /\ \A j \in DOMAIN m : M[j] = m[j]
          /\ Answered(M, Len(m), Len(M), LastAI(m), Pending(m), "tool", turn)
      BY <1>13, ToolsShape
    <2>3. \A j \in DOMAIN M : j \in DOMAIN m \/ j \in Len(m) + 1 .. Len(M)
      BY <1>0, <2>2, Lengths
    <2>4. ASSUME NEW j \in Len(m) + 1 .. Len(M), M[j].name \in Guarded
          PROVE  [id |-> M[j].call, name |-> M[j].name] \in approved
      <3>1. PICK k \in Pending(m) : M[j].call = <<LastAI(m), k>> /\ M[j].name = M[LastAI(m)].calls[k].name
        BY <2>2 DEF Answered
      <3>2. /\ LastAI(m) \in DOMAIN m /\ k \in DOMAIN LastCalls(m)
            /\ LastCalls(m)[k].id = <<LastAI(m), k>> /\ LastCalls(m)[k] \in Call
        BY <2>1, LastIsOpen DEF Open, Pending, AIs
      <3>3. M[LastAI(m)].calls[k] = LastCalls(m)[k]
        BY <2>2, <3>2 DEF LastCalls
      <3>4. LastCalls(m)[k] \in approved
        BY <2>1, <2>4, <3>1, <3>3 DEF PendingIsApproved
      <3>5. LastCalls(m)[k] = [id |-> LastCalls(m)[k].id, name |-> LastCalls(m)[k].name]
        BY <3>2 DEF Call
      <3> QED BY <3>1, <3>2, <3>3, <3>4, <3>5
    <2>5. RanIsApproved(M, approved)
      <3> HIDE DEF m, M
      <3> QED BY <1>1, <2>2, <2>3, <2>4 DEF RanIsApproved
    <2> QED BY <2>1, <2>5
  <1>14. CASE ToolsRaise
    BY <1>3, <1>14, RaiseEnds DEF ToolsRaise
  <1> QED BY <1>5, <1>6, <1>7, <1>8, <1>9, <1>10, <1>11, <1>12, <1>13, <1>14 DEF Next

-----------------------------------------------------------------------------
(* The limits on model calls *)

LEMMA CountsAreSets ==
  ASSUME MessagesOK, NEW T
  PROVE  /\ ModelMessages(T) = Cardinality(ModelSet(messages, T)) /\ ModelMessages(T) \in Nat
         /\ ToolMessages(T) = Cardinality(ToolSet(messages, T)) /\ ToolMessages(T) \in Nat
         /\ IsFiniteSet(ModelSet(messages, T)) /\ IsFiniteSet(ToolSet(messages, T))
         /\ ModelSet(messages, T) \subseteq DOMAIN messages /\ ToolSet(messages, T) \subseteq DOMAIN messages
  <1>1. DOMAIN messages = 1 .. Len(messages) /\ Len(messages) \in Int
    BY LenProperties DEF MessagesOK
  <1>2. IsFiniteSet(DOMAIN messages)
    BY <1>1, FS_Interval
  <1>3. ModelSet(messages, T) \subseteq DOMAIN messages /\ ToolSet(messages, T) \subseteq DOMAIN messages
    BY DEF ModelSet, ToolSet, AIs
  <1>4. IsFiniteSet(ModelSet(messages, T)) /\ IsFiniteSet(ToolSet(messages, T))
    BY <1>2, <1>3, FS_Subset
  <1>5. Cardinality(ModelSet(messages, T)) \in Nat /\ Cardinality(ToolSet(messages, T)) \in Nat
    BY <1>4, FS_CardinalityType
  <1> QED BY <1>3, <1>4, <1>5 DEF ModelMessages, ToolMessages, ModelSet, ToolSet

\* A new invocation starts without messages of its own.
LEMMA NewTurn ==
  ASSUME MessagesOK, turn \in Nat
  PROVE  /\ ModelSet(messages, {turn + 1}) = {} /\ ToolSet(messages, {turn + 1}) = {}
         /\ ModelSet(messages, 1 .. turn + 1) = ModelSet(messages, 1 .. turn)
         /\ ToolSet(messages, 1 .. turn + 1) = ToolSet(messages, 1 .. turn)
  <1>1. \A j \in DOMAIN messages : messages[j].type # "human" => messages[j].turn <= turn
    BY DEF MessagesOK
  <1>2. \A j \in DOMAIN messages : messages[j].type # "human" => messages[j].turn \in Nat \ {0}
    <2> SUFFICES ASSUME NEW j \in DOMAIN messages, messages[j].type # "human"
                 PROVE  messages[j].turn \in Nat \ {0}
      OBVIOUS
    <2>1. messages[j] \in Message
      BY LenProperties, ElementOfSeq DEF MessagesOK
    <2> QED BY <2>1, KindOf DEF AIMessage, ToolMessage
  <1>3. \A j \in DOMAIN messages : messages[j].type # "human" =>
          messages[j].turn \in 1 .. turn /\ messages[j].turn \in 1 .. turn + 1 /\ messages[j].turn # turn + 1
    BY <1>1, <1>2
  <1> QED BY <1>3 DEF ModelSet, ToolSet, AIs

LEMMA CountsQuiet ==
  ASSUME ControlOK, MessagesOK, Kept(messages, messages'), Quiet(messages, messages'),
         agent' = agent, turn' \in {turn, turn + 1}
  PROVE  /\ turn' = turn => /\ ModelMessages({turn})' = ModelMessages({turn})
                            /\ ToolMessages({turn})' = ToolMessages({turn})
         /\ turn' = turn + 1 => ModelMessages({turn})' = 0 /\ ToolMessages({turn})' = 0
         /\ ModelMessages(1 .. turn)' = ModelMessages(1 .. turn)
         /\ ToolMessages(1 .. turn)' = ToolMessages(1 .. turn)
  <1>1. \A T : ModelSet(messages', T) = ModelSet(messages, T) /\ ToolSet(messages', T) = ToolSet(messages, T)
    BY QuietKeepsSets DEF MessagesOK
  <1>2. /\ ModelMessages({turn})' = Cardinality(ModelSet(messages, {turn'}))
        /\ ToolMessages({turn})' = Cardinality(ToolSet(messages, {turn'}))
        /\ ModelMessages(1 .. turn)' = Cardinality(ModelSet(messages, 1 .. turn'))
        /\ ToolMessages(1 .. turn)' = Cardinality(ToolSet(messages, 1 .. turn'))
    <2>1. /\ ModelMessages({turn})' = Cardinality(ModelSet(messages', {turn'}))
          /\ ToolMessages({turn})' = Cardinality(ToolSet(messages', {turn'}))
          /\ ModelMessages(1 .. turn)' = Cardinality(ModelSet(messages', 1 .. turn'))
          /\ ToolMessages(1 .. turn)' = Cardinality(ToolSet(messages', 1 .. turn'))
      BY DEF ModelMessages, ToolMessages, ModelSet, ToolSet
    <2> QED BY <1>1, <2>1
  <1>3. /\ ModelMessages({turn}) = Cardinality(ModelSet(messages, {turn}))
        /\ ToolMessages({turn}) = Cardinality(ToolSet(messages, {turn}))
        /\ ModelMessages(1 .. turn) = Cardinality(ModelSet(messages, 1 .. turn))
        /\ ToolMessages(1 .. turn) = Cardinality(ToolSet(messages, 1 .. turn))
    BY CountsAreSets
  <1>4. CASE turn' = turn
    <2>1. turn # turn + 1
      BY AgentAssumption DEF ControlOK
    <2> QED BY <1>2, <1>3, <1>4, <2>1
  <1>5. CASE turn' = turn + 1
    <2>1. turn \in Nat /\ turn # turn + 1
      BY AgentAssumption DEF ControlOK
    <2>2. Cardinality({}) = 0
      BY FS_EmptySet
    <2> QED BY <1>2, <1>3, <1>5, <2>1, <2>2, NewTurn
  <1> QED BY <1>4, <1>5

LEMMA CountsModel ==
  ASSUME ControlOK, MessagesOK, node = "model", UNCHANGED <<agent, turn>>, ModelAnswers
  PROVE  /\ ModelMessages({turn})' = ModelMessages({turn}) + 1
         /\ ModelMessages(1 .. turn)' = ModelMessages(1 .. turn) + 1
         /\ ToolMessages({turn})' = ToolMessages({turn})
         /\ ToolMessages(1 .. turn)' = ToolMessages(1 .. turn)
  <1> DEFINE m == messages
             M == messages'
  <1> PICK i \in Nat :
         /\ Kept(m, M) /\ m \in Seq(Message) /\ M \in Seq(Message) /\ turn \in Nat \ {0}
         /\ \A j \in DOMAIN m : M[j] = m[j]
         /\ i \in Len(m) + 1 .. Len(M) /\ M[i].type = "ai" /\ i \notin DOMAIN m
         /\ M[i].by = "model" /\ M[i].turn = turn
         /\ AIs(M) = AIs(m) \cup {i}
         /\ \A j \in Len(m) + 1 .. Len(M) : j = i \/ (M[j].type = "tool" /\ M[j].by # "tool")
    BY ModelAppends
  <1>1. \A j \in DOMAIN M : j \in DOMAIN m \/ j \in Len(m) + 1 .. Len(M)
    BY Lengths
  <1>2. ASSUME NEW T, turn \in T PROVE ModelSet(M, T) = ModelSet(m, T) \cup {i}
    <2> HIDE DEF m, M
    <2> QED BY <1>2 DEF ModelSet, AIs
  <1>3. ASSUME NEW T PROVE ToolSet(M, T) = ToolSet(m, T)
    <2>1. DOMAIN m \subseteq DOMAIN M
      BY Lengths
    <2> HIDE DEF m, M
    <2> QED BY <1>1, <2>1 DEF ToolSet
  <1>4. ASSUME NEW T, turn \in T PROVE Cardinality(ModelSet(M, T)) = Cardinality(ModelSet(m, T)) + 1
    <2>1. IsFiniteSet(ModelSet(m, T)) /\ i \notin ModelSet(m, T)
      BY CountsAreSets DEF ModelSet, AIs
    <2> HIDE DEF m, M
    <2> QED BY <1>2, <1>4, <2>1, FS_AddElement
  <1>5. turn \in {turn} /\ turn \in 1 .. turn
    OBVIOUS
  <1>6. /\ ModelMessages({turn})' = Cardinality(ModelSet(M, {turn}))
        /\ ToolMessages({turn})' = Cardinality(ToolSet(M, {turn}))
        /\ ModelMessages(1 .. turn)' = Cardinality(ModelSet(M, 1 .. turn))
        /\ ToolMessages(1 .. turn)' = Cardinality(ToolSet(M, 1 .. turn))
    BY DEF ModelMessages, ToolMessages, ModelSet, ToolSet
  <1>7. /\ ModelMessages({turn}) = Cardinality(ModelSet(m, {turn}))
        /\ ToolMessages({turn}) = Cardinality(ToolSet(m, {turn}))
        /\ ModelMessages(1 .. turn) = Cardinality(ModelSet(m, 1 .. turn))
        /\ ToolMessages(1 .. turn) = Cardinality(ToolSet(m, 1 .. turn))
    BY CountsAreSets
  <1>8. /\ Cardinality(ModelSet(M, {turn})) = Cardinality(ModelSet(m, {turn})) + 1
        /\ Cardinality(ModelSet(M, 1 .. turn)) = Cardinality(ModelSet(m, 1 .. turn)) + 1
    BY <1>4, <1>5
  <1> HIDE DEF m, M
  <1> QED BY <1>3, <1>6, <1>7, <1>8

\* The tools add to the calls that ran and not to the model calls.
LEMMA CountsTools ==
  ASSUME ControlOK, MessagesOK, Tools
  PROVE  /\ ModelMessages({turn})' = ModelMessages({turn})
         /\ ModelMessages(1 .. turn)' = ModelMessages(1 .. turn)
  <1> DEFINE m == messages
             M == messages'
  <1>1. /\ Kept(m, M) /\ \A j \in DOMAIN m : M[j] = m[j]
        /\ Answered(M, Len(m), Len(M), LastAI(m), Pending(m), "tool", turn)
    BY ToolsShape
  <1>2. m \in Seq(Message) /\ agent' = agent /\ turn' = turn
    BY ToolsEdge DEF MessagesOK
  <1>3. DOMAIN m \subseteq DOMAIN M /\ \A j \in DOMAIN M : j \in DOMAIN m \/ j \in Len(m) + 1 .. Len(M)
    BY <1>1, <1>2, Lengths
  <1>4. \A j \in Len(m) + 1 .. Len(M) : M[j].type = "tool"
    BY <1>1 DEF Answered
  <1> HIDE DEF m, M
  <1>5. ASSUME NEW T PROVE ModelSet(M, T) = ModelSet(m, T)
    BY <1>1, <1>3, <1>4 DEF ModelSet, AIs
  <1>6. /\ ModelMessages({turn})' = Cardinality(ModelSet(M, {turn}))
        /\ ModelMessages(1 .. turn)' = Cardinality(ModelSet(M, 1 .. turn))
    BY <1>2 DEF ModelMessages, ModelSet, M
  <1>7. /\ ModelMessages({turn}) = Cardinality(ModelSet(m, {turn}))
        /\ ModelMessages(1 .. turn) = Cardinality(ModelSet(m, 1 .. turn))
    BY DEF ModelMessages, ModelSet, m
  <1> QED BY <1>5, <1>6, <1>7

\* An output of the model, and nothing else, adds to the model calls.
LEMMA StepsCount ==
  ASSUME ControlOK, MessagesOK, Next
  PROVE  /\ agent' = agent
         /\ \/ Invoke /\ InvokeStep
            \/ BeforeModel /\ BeforeModelStep /\ UNCHANGED <<threadModel, runModel, threadTool, runTool, turn>>
            \/ Model /\ ModelAnswers /\ node = "model" /\ UNCHANGED <<threadModel, runModel, threadTool, runTool, turn>>
            \/ CountModel /\ HookStep({}, "limit")
            \/ LimitTools /\ LimitsAnswer /\ HookStep(Blocked, "limit")
            \/ Review /\ HookStep({}, "limit")
            \/ Resume /\ turn' = turn + 1 /\ node = "interrupted" /\ \E P : HookStep(P, "human")
            \/ ResumeRefused /\ EndStep /\ turn' = turn + 1 /\ UNCHANGED <<threadModel, threadTool>>
            \/ Tools /\ node = "tools" /\ node' \in {"idle", "before", "model"}
                     /\ UNCHANGED <<threadModel, runModel, threadTool, runTool, turn>>
            \/ LimitTools /\ LimitsJump /\ EndStep /\ UNCHANGED <<threadModel, runModel, turn>>
            \/ EndStep /\ UNCHANGED <<threadModel, runModel, threadTool, runTool, turn>>
                       /\ (node # "after" \/ agent.middleware[hook] = "tool_limit")
  <1>0. agent' = agent
    BY DEF Next, Invoke, BeforeModel, Model, CountModel, LimitTools, Review, Resume, ResumeRefused, Tools, ToolsRaise
  <1>1. CASE Invoke
    BY <1>0, <1>1, InvokeShape
  <1>2. CASE BeforeModel
    BY <1>0, <1>2, BeforeModelShape
  <1>3. ASSUME Raise, turn' = turn
        PROVE  EndStep /\ UNCHANGED <<threadModel, runModel, threadTool, runTool, turn>>
    BY <1>3, RaiseEnds DEF Raise, counts
  <1>4. CASE Model
    <2>1. /\ node = "model" /\ node # "after" /\ UNCHANGED <<threadModel, runModel, threadTool, runTool, turn>>
          /\ Raise \/ ModelAnswers
      BY <1>4, ModelShape DEF counts
    <2> QED BY <1>0, <1>3, <1>4, <2>1
  <1>5. CASE CountModel
    BY <1>0, <1>5, CountModelStep
  <1>6. CASE LimitTools
    <2>1. /\ node = "after" /\ UNCHANGED <<threadModel, runModel, turn>> /\ turn' = turn
          /\ agent.middleware[hook] = "tool_limit"
          /\ Raise \/ LimitsJump \/ LimitsAnswer
      BY <1>6, LimitToolsShape DEF LimitsRaise
    <2> QED BY <1>0, <1>3, <1>6, <2>1, LimitsJumpStep, LimitsAnswerStep
  <1>7. CASE Review
    BY <1>0, <1>7, ReviewStep
  <1>8. CASE Resume
    <2>1. /\ node = "interrupted" /\ turn' = turn + 1
          /\ \E P \in SUBSET DOMAIN LastCalls(messages) : ResumeAnswers(P)
      BY <1>8, ResumeShape
    <2>2. PICK P : ResumeAnswers(P)
      BY <2>1
    <2>3. HookStep(P, "human")
      BY <2>1, <2>2, ResumeStep
    <2> QED BY <1>0, <1>8, <2>1, <2>3
  <1>9. CASE ResumeRefused
    BY <1>0, <1>9, RefusedStep DEF ResumeRefused
  <1>10. CASE Tools
    BY <1>0, <1>10, ToolsEdge
  <1>11. CASE ToolsRaise
    BY <1>0, <1>3, <1>11 DEF ToolsRaise
  <1> QED BY <1>1, <1>2, <1>4, <1>5, <1>6, <1>7, <1>8, <1>9, <1>10, <1>11 DEF Next

LEMMA WithinLess ==
  ASSUME NEW a \in Nat, NEW b \in Nat, NEW limit \in Limit, a <= b, Within(b, limit)
  PROVE  Within(a, limit)
  BY DEF Within, Limit

LEMMA KeepsRunModel ==
  ASSUME ControlOK, MessagesOK, RunModelOK, ControlOK', MessagesOK', Next
  PROVE  RunModelOK'
  <1> DEFINE c == ModelMessages({turn})
             d == ModelMessages({turn})'
  <1>1. /\ agent \in Agents /\ agent.modelRun \in Limit /\ turn \in Nat
        /\ runModel \in Nat /\ runModel' \in Nat /\ c \in Nat
        /\ node = "model" /\ Has("model_limit") => ~Exceeded(runModel, agent.modelRun)
    BY AgentIs, AgentAssumption, CountsAreSets DEF ControlOK
  <1> SUFFICES ASSUME Has("model_limit"), agent' = agent
               PROVE  /\ Within(d, agent.modelRun)
                      /\ node' \in {"after", "interrupted"} => d <= runModel' + 1
                      /\ node' \in {"before", "model"} \/ Past("model_limit")' => d <= runModel'
    <2>1. agent' = agent
      BY StepsCount
    <2>2. Has("model_limit")' <=> Has("model_limit")
      BY <2>1 DEF Has
    <2> QED BY <2>1, <2>2 DEF RunModelOK
  <1>2. /\ Within(c, agent.modelRun)
        /\ node \in {"after", "interrupted"} => c <= runModel + 1
        /\ node \in {"before", "model"} \/ Past("model_limit") => c <= runModel
    BY DEF RunModelOK
  <1>3. ASSUME Kept(messages, messages'), Quiet(messages, messages'), turn' \in {turn, turn + 1}
        PROVE  (turn' = turn => d = c) /\ (turn' = turn + 1 => d = 0)
    BY <1>3, CountsQuiet
  <1> HIDE DEF c, d
  <1>4. Within(0, agent.modelRun)
    BY <1>1 DEF Within, Limit
  <1>5. CASE EndStep
    <2>1. node' = "idle" /\ ~Past("model_limit")' /\ (d = c \/ d = 0)
      BY <1>3, <1>5 DEF EndStep, Past
    <2> QED BY <1>2, <1>4, <2>1
  <1>6. ASSUME HookStep({}, "limit") \/ HookStep(Blocked, "limit"), node = "after", turn' = turn, runModel' = runModel,
               Past("model_limit")' \/ node' \in {"before", "model"} => Past("model_limit")
        PROVE  /\ Within(d, agent.modelRun)
               /\ node' \in {"after", "interrupted"} => d <= runModel' + 1
               /\ node' \in {"before", "model"} \/ Past("model_limit")' => d <= runModel'
    <2>1. d = c
      BY <1>3, <1>6, HookLeaves
    <2> QED BY <1>2, <1>6, <2>1
  <1>7. CASE Invoke /\ InvokeStep
    <2>1. turn' = turn + 1 /\ Kept(messages, messages') /\ Quiet(messages, messages')
      BY <1>7 DEF InvokeStep, Quiet
    <2>2. d = 0
      BY <1>3, <2>1
    <2>3. d <= runModel' /\ d <= runModel' + 1
      <3> DEFINE r == runModel'
      <3>0. r \in Nat
        BY <1>1
      <3> HIDE DEF r
      <3>1. 0 <= r /\ 0 <= r + 1
        BY <3>0
      <3> QED BY <2>2, <3>1 DEF r
    <2>4. Within(d, agent.modelRun)
      BY <1>4, <2>2
    <2> QED BY <2>3, <2>4
  <1>8. CASE BeforeModel /\ BeforeModelStep /\ UNCHANGED <<threadModel, runModel, threadTool, runTool, turn>>
    <2>1. node = "before" /\ messages' = messages
      BY <1>8 DEF BeforeModel, BeforeModelStep
    <2>2. d = c
      BY <1>8, <2>1 DEF c, d, ModelMessages
    <2>3. c <= runModel
      BY <1>2, <2>1
    <2> QED BY <1>1, <1>2, <1>8, <2>2, <2>3
  <1>9. CASE ModelAnswers /\ node = "model" /\ UNCHANGED <<threadModel, runModel, threadTool, runTool, turn>>
    <2>1. d = c + 1
      BY <1>9, CountsModel DEF c, d
    <2>2. c <= runModel /\ ~Exceeded(runModel, agent.modelRun)
      BY <1>1, <1>2, <1>9
    <2>3. Within(c + 1, agent.modelRun)
      BY <1>1, <2>2 DEF Within, Exceeded, Limit
    <2>4. ~Past("model_limit")' /\ node' = "after"
      BY <1>9, PastModel DEF ModelAnswers
    <2> QED BY <1>1, <1>9, <2>1, <2>2, <2>3, <2>4
  <1>10. CASE CountModel /\ HookStep({}, "limit")
    <2>1. node = "after" /\ turn' = turn /\ runModel' = runModel + 1
      BY <1>10 DEF CountModel, Runs
    <2>2. d = c
      BY <1>3, <1>10, <2>1, HookLeaves
    <2> QED BY <1>1, <1>2, <2>1, <2>2
  <1>11. CASE LimitTools /\ LimitsAnswer /\ HookStep(Blocked, "limit")
    <2>1. /\ node = "after" /\ agent.middleware[hook] = "tool_limit" /\ turn' = turn /\ runModel' = runModel
          /\ AfterHook(hook, messages', structured')
      BY <1>11, LimitToolsShape DEF LimitsAnswer
    <2>2. Past("model_limit")' \/ node' \in {"before", "model"} => Past("model_limit")
      BY <2>1, PastMoves
    <2> QED BY <1>6, <1>11, <2>1, <2>2
  <1>12. CASE Review /\ HookStep({}, "limit")
    <2>1. node = "after" /\ agent.middleware[hook] = "hitl" /\ turn' = turn /\ runModel' = runModel
      BY <1>12 DEF Review, Runs, counts
    <2>2. Past("model_limit")' \/ node' \in {"before", "model"} => Past("model_limit")
      <3>1. CASE AfterHook(hook, messages, structured)
        BY <2>1, <3>1, PastMoves
      <3>2. CASE node' = "interrupted" /\ hook' = hook
        BY <2>1, <3>2 DEF Past
      <3> QED BY <1>12, <3>1, <3>2 DEF Review
    <2> QED BY <1>6, <1>12, <2>1, <2>2
  <1>13. CASE Resume /\ turn' = turn + 1 /\ \E P : HookStep(P, "human")
    <2>1. PICK P : HookStep(P, "human")
      BY <1>13
    <2>2. d = 0
      BY <1>3, <1>13, <2>1, HookLeaves
    <2>3. d <= runModel' /\ d <= runModel' + 1
      <3> DEFINE r == runModel'
      <3>0. r \in Nat
        BY <1>1
      <3> HIDE DEF r
      <3>1. 0 <= r /\ 0 <= r + 1
        BY <3>0
      <3> QED BY <2>2, <3>1 DEF r
    <2>4. Within(d, agent.modelRun)
      BY <1>4, <2>2
    <2> QED BY <2>3, <2>4
  <1>14. CASE Tools /\ node = "tools" /\ node' \in {"idle", "before", "model"}
                    /\ UNCHANGED <<threadModel, runModel, threadTool, runTool, turn>>
    <2>1. d = c
      BY <1>14, CountsTools DEF c, d
    <2>2. c <= runModel
      BY <1>2, <1>14 DEF Past
    <2> QED BY <1>1, <1>2, <1>14, <2>1, <2>2
  <1> QED BY <1>5, <1>7, <1>8, <1>9, <1>10, <1>11, <1>12, <1>13, <1>14, StepsCount

LEMMA KeepsThreadModel ==
  ASSUME ControlOK, MessagesOK, ThreadModelOK, ControlOK', MessagesOK', Next
  PROVE  ThreadModelOK'
  <1> DEFINE c == ModelMessages(1 .. turn)
             d == ModelMessages(1 .. turn)'
             n == Len(agent.middleware)
             more == IF node = "after" /\ hook = n THEN 1 ELSE 0
  <1>1. /\ agent \in Agents /\ agent.modelThread \in Limit /\ turn \in Nat
        /\ threadModel \in Nat /\ threadModel' \in Nat /\ c \in Nat
        /\ node = "model" /\ Has("model_limit") => ~Exceeded(threadModel, agent.modelThread)
        /\ node = "interrupted" => agent.middleware[hook] = "hitl"
    BY AgentIs, AgentAssumption, CountsAreSets DEF ControlOK
  <1> SUFFICES ASSUME Has("model_limit"), Last(agent.middleware) = "model_limit", agent' = agent
               PROVE  /\ Within(d, agent.modelThread)
                      /\ d <= threadModel' + IF node' = "after" /\ hook' = n THEN 1 ELSE 0
    <2>1. agent' = agent
      BY StepsCount
    <2>2. Has("model_limit")' <=> Has("model_limit")
      BY <2>1 DEF Has
    <2> QED BY <2>1, <2>2 DEF ThreadModelOK
  <1>2. agent.middleware[n] = "model_limit"
    BY DEF Last
  <1>3. Within(c, agent.modelThread) /\ c <= threadModel + more
    BY DEF ThreadModelOK
  <1>4. ASSUME Kept(messages, messages'), Quiet(messages, messages'), turn' \in {turn, turn + 1}
        PROVE  d = c
    BY <1>4, CountsQuiet
  <1> HIDE DEF c, d, n
  <1>5. ASSUME d = c, threadModel' = threadModel, ~(node = "after" /\ hook = n)
        PROVE  /\ Within(d, agent.modelThread)
               /\ d <= threadModel' + IF node' = "after" /\ hook' = n THEN 1 ELSE 0
    <2>1. c <= threadModel
      BY <1>1, <1>3, <1>5
    <2> QED BY <1>1, <1>3, <1>5, <2>1
  <1>6. ASSUME EndStep, threadModel' = threadModel, node # "after" \/ agent.middleware[hook] = "tool_limit"
        PROVE  /\ Within(d, agent.modelThread)
               /\ d <= threadModel' + IF node' = "after" /\ hook' = n THEN 1 ELSE 0
    <2>1. d = c
      BY <1>4, <1>6 DEF EndStep
    <2>2. ~(node = "after" /\ hook = n)
      BY <1>2, <1>6
    <2> QED BY <1>5, <1>6, <2>1, <2>2
  <1>7. ASSUME NEW P, NEW by, HookStep(P, by), threadModel' = threadModel,
               node # "after" \/ agent.middleware[hook] \in {"tool_limit", "hitl"}
        PROVE  /\ Within(d, agent.modelThread)
               /\ d <= threadModel' + IF node' = "after" /\ hook' = n THEN 1 ELSE 0
    <2>1. d = c
      BY <1>4, <1>7, HookLeaves
    <2>2. ~(node = "after" /\ hook = n)
      BY <1>2, <1>7
    <2> QED BY <1>5, <1>7, <2>1, <2>2
  <1>8. CASE Invoke /\ InvokeStep
    <2>1. /\ turn' = turn + 1 /\ Kept(messages, messages') /\ Quiet(messages, messages')
          /\ node # "after" /\ threadModel' = threadModel
      BY <1>8 DEF InvokeStep, Invoke, Quiet
    <2> QED BY <1>4, <1>5, <2>1
  <1>9. CASE BeforeModel /\ BeforeModelStep /\ UNCHANGED <<threadModel, runModel, threadTool, runTool, turn>>
    <2>1. node = "before" /\ messages' = messages
      BY <1>9 DEF BeforeModel, BeforeModelStep
    <2>2. d = c
      BY <1>9, <2>1 DEF c, d, ModelMessages
    <2> QED BY <1>5, <1>9, <2>1, <2>2
  <1>10. CASE ModelAnswers /\ node = "model" /\ UNCHANGED <<threadModel, runModel, threadTool, runTool, turn>>
    <2>1. d = c + 1
      BY <1>10, CountsModel DEF c, d
    <2>2. c <= threadModel /\ ~Exceeded(threadModel, agent.modelThread)
      BY <1>1, <1>3, <1>10
    <2>3. Within(c + 1, agent.modelThread)
      BY <1>1, <2>2 DEF Within, Exceeded, Limit
    <2>4. node' = "after" /\ hook' = n
      BY <1>10, PastModel DEF ModelAnswers, n
    <2> QED BY <1>1, <1>10, <2>1, <2>2, <2>3, <2>4
  <1>11. CASE CountModel /\ HookStep({}, "limit")
    <2>1. turn' = turn /\ threadModel' = threadModel + 1
      BY <1>11 DEF CountModel
    <2>2. d = c
      BY <1>4, <1>11, <2>1, HookLeaves
    <2>3. c <= threadModel + 1
      BY <1>1, <1>3
    <2> QED BY <1>1, <1>3, <2>1, <2>2, <2>3
  <1>12. CASE LimitTools /\ LimitsAnswer /\ HookStep(Blocked, "limit")
    <2>1. agent.middleware[hook] = "tool_limit" /\ threadModel' = threadModel
      BY <1>12, LimitToolsShape
    <2> QED BY <1>7, <1>12, <2>1
  <1>13. CASE Review /\ HookStep({}, "limit")
    <2>1. agent.middleware[hook] = "hitl" /\ threadModel' = threadModel
      BY <1>13 DEF Review, Runs, counts
    <2> QED BY <1>7, <1>13, <2>1
  <1>14. CASE Resume /\ node = "interrupted" /\ \E P : HookStep(P, "human")
    <2>1. PICK P : HookStep(P, "human")
      BY <1>14
    <2>2. threadModel' = threadModel
      BY <1>14 DEF Resume
    <2> QED BY <1>7, <1>14, <2>1, <2>2
  <1>15. CASE Tools /\ node = "tools" /\ UNCHANGED <<threadModel, runModel, threadTool, runTool, turn>>
    <2>1. d = c
      BY <1>15, CountsTools DEF c, d
    <2> QED BY <1>5, <1>15, <2>1
  <1>16. CASE LimitTools /\ LimitsJump /\ EndStep /\ UNCHANGED <<threadModel, runModel, turn>>
    <2>1. agent.middleware[hook] = "tool_limit"
      BY <1>16, LimitToolsShape
    <2> QED BY <1>6, <1>16, <2>1
  <1>17. CASE ResumeRefused /\ EndStep /\ turn' = turn + 1 /\ UNCHANGED <<threadModel, threadTool>>
    <2>1. node = "interrupted"
      BY <1>17 DEF ResumeRefused
    <2> QED BY <1>6, <1>17, <2>1
  <1>18. CASE EndStep /\ UNCHANGED <<threadModel, runModel, threadTool, runTool, turn>>
                     /\ (node # "after" \/ agent.middleware[hook] = "tool_limit")
    BY <1>6, <1>18
  <1> QED BY <1>8, <1>9, <1>10, <1>11, <1>12, <1>13, <1>14, <1>15, <1>16, <1>17, <1>18, StepsCount

-----------------------------------------------------------------------------
(* The limits on tool calls *)

DueSet(M) == {k \in Pending(M) : agent.toolName \in {AnyTool, LastCalls(M)[k].name}}

LEMMA DueIs ==
  ASSUME ControlOK, MessagesOK
  PROVE  /\ Due \in Nat
         /\ Due = IF Past("tool_limit") THEN Cardinality(DueSet(messages)) ELSE 0
         /\ Past("tool_limit") =>
              /\ Cardinality(DueSet(messages)) \in Nat /\ IsFiniteSet(DueSet(messages))
              /\ DueSet(messages) \subseteq DOMAIN LastCalls(messages)
  <1>1. Due = IF Past("tool_limit") THEN Cardinality(DueSet(messages)) ELSE 0
    BY DEF Due, DueSet
  <1>2. ASSUME Past("tool_limit")
        PROVE  /\ Cardinality(DueSet(messages)) \in Nat /\ IsFiniteSet(DueSet(messages))
               /\ DueSet(messages) \subseteq DOMAIN LastCalls(messages)
    <2>1. node \in Open
      BY <1>2 DEF Past, Open
    <2>2. LastCalls(messages) \in Seq(Call)
      BY <2>1, LastIsOpen
    <2>3. DOMAIN LastCalls(messages) = 1 .. Len(LastCalls(messages)) /\ Len(LastCalls(messages)) \in Int
      BY <2>2, LenProperties
    <2>4. IsFiniteSet(DOMAIN LastCalls(messages))
      BY <2>3, FS_Interval
    <2>5. DueSet(messages) \subseteq DOMAIN LastCalls(messages)
      BY DEF DueSet, Pending
    <2>6. IsFiniteSet(DueSet(messages))
      BY <2>4, <2>5, FS_Subset
    <2> QED BY <2>5, <2>6, FS_CardinalityType
  <1> QED BY <1>1, <1>2

\* What the hook lets through keeps within the limits.
LEMMA LimitsAllow ==
  ASSUME ControlOK, MessagesOK, AIs(messages) # {}
  PROVE  /\ Allowed \in Nat /\ Cardinality(Counted) \in Nat /\ Allowed <= Cardinality(Counted)
         /\ Within(threadTool, agent.toolThread) => Within(threadTool + Allowed, agent.toolThread)
         /\ \A x \in Nat : x <= runTool /\ Within(x, agent.toolRun) => Within(x + Allowed, agent.toolRun)
  <1>1. /\ threadTool \in Nat /\ runTool \in Nat
        /\ agent.toolThread \in Limit /\ agent.toolRun \in Limit
    BY AgentIs DEF ControlOK
  <1> DEFINE c == Cardinality(Counted)
             rt == Room(threadTool, agent.toolThread, c)
             rr == Room(runTool, agent.toolRun, c)
  <1>2. c \in Nat /\ Allowed \in Nat /\ Allowed <= rt /\ Allowed <= rr
    BY CountedIs
  <1> HIDE DEF c
  <1>3. /\ rt \in 0 .. c /\ rr \in 0 .. c
        /\ agent.toolThread # NoLimit => rt = 0 \/ threadTool + rt <= agent.toolThread
        /\ agent.toolRun # NoLimit => rr = 0 \/ runTool + rr <= agent.toolRun
    BY <1>1, <1>2, RoomIs
  <1> HIDE DEF rt, rr
  <1>4. Allowed <= c
    BY <1>2, <1>3
  <1>5. Within(threadTool, agent.toolThread) => Within(threadTool + Allowed, agent.toolThread)
    <2> SUFFICES ASSUME agent.toolThread # NoLimit, threadTool <= agent.toolThread
                 PROVE  threadTool + Allowed <= agent.toolThread
      BY DEF Within
    <2>1. agent.toolThread \in Nat
      BY <1>1 DEF Limit
    <2> QED BY <1>1, <1>2, <1>3, <2>1
  <1>6. \A x \in Nat : x <= runTool /\ Within(x, agent.toolRun) => Within(x + Allowed, agent.toolRun)
    <2> SUFFICES ASSUME NEW x \in Nat, x <= runTool, agent.toolRun # NoLimit, x <= agent.toolRun
                 PROVE  x + Allowed <= agent.toolRun
      BY DEF Within
    <2>1. agent.toolRun \in Nat
      BY <1>1 DEF Limit
    <2> QED BY <1>1, <1>2, <1>3, <2>1
  <1> QED BY <1>2, <1>4, <1>5, <1>6 DEF c

\* No more calls than it let through are due behind it.
LEMMA DueAllowed ==
  ASSUME ControlOK, MessagesOK, HookStep(Blocked, "limit"), LimitsAnswer
  PROVE  IsFiniteSet(DueSet(messages')) /\ Cardinality(DueSet(messages')) <= Allowed
  <1> DEFINE F == {i \in Counted : Cardinality({j \in Counted : j <= i}) <= Allowed}
             n == Len(LastCalls(messages))
  <1>1. /\ messages \in Seq(Message) /\ AIs(messages) # {} /\ Kept(messages, messages')
        /\ LastAI(messages') = LastAI(messages) /\ LastCalls(messages') = LastCalls(messages)
    BY HookLeaves, LimitsKeepCalls
  <1>2. LastCalls(messages) \in Seq(Call) /\ n \in Nat /\ DOMAIN LastCalls(messages) = 1 .. n
    BY <1>1, LastIs, LenProperties
  <1>3. Counted \in SUBSET (1 .. n) /\ Allowed \in Nat /\ IsFiniteSet(Counted)
    BY <1>1, <1>2, CountedIs
  <1>4. IsFiniteSet(F) /\ Cardinality(F) <= Allowed
    <2> HIDE DEF n
    <2> QED BY <1>2, <1>3, FewAtFront
  <1>5. DueSet(messages') \subseteq F
    <2> SUFFICES ASSUME NEW k \in DueSet(messages') PROVE k \in F
      OBVIOUS
    <2>1. k \in Pending(messages') /\ agent.toolName \in {AnyTool, LastCalls(messages)[k].name}
      BY <1>1 DEF DueSet
    <2>2. k \notin Blocked
      BY <2>1, RepliesAnswer
    <2>3. k \in DOMAIN LastCalls(messages)
      BY <1>1, <2>1 DEF Pending
    <2>4. k \in Counted
      BY <2>1, <2>3 DEF Counted, Named
    <2>5. ~(Cardinality({j \in Counted : j <= k}) > Allowed)
      BY <2>2, <2>4 DEF Blocked
    <2>6. Cardinality({j \in Counted : j <= k}) \in Nat
      <3>1. {j \in Counted : j <= k} \in SUBSET Counted
        OBVIOUS
      <3>2. IsFiniteSet({j \in Counted : j <= k})
        BY <1>3, <3>1, FS_Subset
      <3> QED BY <3>2, FS_CardinalityType
    <2> QED BY <1>3, <2>4, <2>5, <2>6
  <1>6. IsFiniteSet(DueSet(messages')) /\ Cardinality(DueSet(messages')) <= Cardinality(F)
    <2> HIDE DEF F
    <2> QED BY <1>4, <1>5, FS_Subset
  <1>7. Cardinality(F) \in Nat /\ Cardinality(DueSet(messages')) \in Nat
    <2> HIDE DEF F
    <2> QED BY <1>4, <1>6, FS_CardinalityType
  <1> HIDE DEF F
  <1> QED BY <1>3, <1>4, <1>6, <1>7

\* The calls that run were due.
LEMMA DueRuns ==
  ASSUME ControlOK, MessagesOK, MessagesOK', Tools, NEW T
  PROVE  /\ Cardinality(ToolSet(messages', T)) \in Nat
         /\ Cardinality(ToolSet(messages', T)) <= Cardinality(ToolSet(messages, T)) + Cardinality(DueSet(messages))
  <1> DEFINE m == messages
             M == messages'
             L == LastAI(messages)
             N == {j \in Len(m) + 1 .. Len(M) : agent.toolName \in {AnyTool, M[j].name}}
             f == [j \in N |-> M[j].call[2]]
             D == DueSet(messages)
  <1>1. /\ Kept(m, M) /\ \A j \in DOMAIN m : M[j] = m[j]
        /\ Answered(M, Len(m), Len(M), L, Pending(m), "tool", turn)
    BY ToolsShape
  <1>2. /\ m \in Seq(Message) /\ node \in Open /\ node = "tools" /\ agent' = agent
    BY ToolsEdge DEF MessagesOK, Open
  <1>3. DOMAIN m \subseteq DOMAIN M /\ \A j \in DOMAIN M : j \in DOMAIN m \/ j \in Len(m) + 1 .. Len(M)
    BY <1>1, <1>2, Lengths
  <1>4. IsFiniteSet(D) /\ Cardinality(D) \in Nat
    BY <1>2, DueIs DEF Past
  <1>5. L \in DOMAIN m /\ LastCalls(m) = M[L].calls
    BY <1>1, <1>2, LastIsOpen DEF AIs, LastCalls
  <1>6. IsFiniteSet(ToolSet(m, T)) /\ Cardinality(ToolSet(m, T)) \in Nat
    BY CountsAreSets, FS_CardinalityType
  <1>7. f \in Injection(N, D)
    <2>1. \A j \in N : \E k \in Pending(m) : M[j].call = <<L, k>> /\ M[j].name = LastCalls(m)[k].name
      BY <1>1, <1>5 DEF Answered
    <2>2. \A j \in N : M[j].call = <<L, f[j]>> /\ f[j] \in D
      <3> SUFFICES ASSUME NEW j \in N PROVE M[j].call = <<L, f[j]>> /\ f[j] \in D
        OBVIOUS
      <3>1. PICK k \in Pending(m) : M[j].call = <<L, k>> /\ M[j].name = LastCalls(m)[k].name
        BY <2>1
      <3>2. f[j] = k
        BY <3>1
      <3>3. k \in D
        BY <3>1 DEF DueSet
      <3> QED BY <3>1, <3>2, <3>3
    <2>3. \A j1, j2 \in Len(m) + 1 .. Len(M) : M[j1].call = M[j2].call => j1 = j2
      BY <1>1 DEF Answered
    <2>4. \A j1, j2 \in N : f[j1] = f[j2] => j1 = j2
      <3> HIDE DEF f, D
      <3> QED BY <2>2, <2>3
    <2>5. f \in [N -> D]
      <3>1. DOMAIN f = N /\ f = [j \in DOMAIN f |-> f[j]]
        OBVIOUS
      <3> HIDE DEF f, D, N
      <3> QED BY <2>2, <3>1
    <2>6. IsInjective(f)
      <3>1. DOMAIN f = N
        OBVIOUS
      <3> HIDE DEF f, N
      <3> QED BY <2>4, <3>1 DEF IsInjective
    <2> HIDE DEF f, N, D
    <2> QED BY <2>5, <2>6 DEF Injection
  <1> HIDE DEF f, D
  <1>8. ToolSet(M, T) \subseteq ToolSet(m, T) \cup N
    <2> HIDE DEF m, M
    <2> QED BY <1>1, <1>3 DEF ToolSet
  <1> HIDE DEF N, m, M
  <1>9. IsFiniteSet(N) /\ Cardinality(N) \in Nat /\ Cardinality(N) <= Cardinality(D)
    BY <1>4, <1>7, FS_Injection, FS_CardinalityType
  <1> DEFINE A == ToolSet(m, T)
             B == ToolSet(M, T)
             U == A \cup N
  <1> HIDE DEF A, B
  <1>10. /\ IsFiniteSet(U) /\ Cardinality(U) = Cardinality(A) + Cardinality(N) - Cardinality(A \cap N)
         /\ Cardinality(A \cap N) \in Nat
    <2>1. IsFiniteSet(A) /\ IsFiniteSet(N)
      BY <1>6, <1>9 DEF A
    <2>2. IsFiniteSet(U) /\ Cardinality(U) = Cardinality(A) + Cardinality(N) - Cardinality(A \cap N)
      BY <2>1, FS_Union
    <2>3. IsFiniteSet(A \cap N)
      <3>1. A \cap N \in SUBSET A
        OBVIOUS
      <3> QED BY <2>1, <3>1, FS_Subset
    <2> QED BY <2>2, <2>3, FS_CardinalityType
  <1>11. B \in SUBSET U
    BY <1>8 DEF A, B
  <1>12. IsFiniteSet(B) /\ Cardinality(B) \in Nat /\ Cardinality(B) <= Cardinality(U) /\ Cardinality(U) \in Nat
    <2> HIDE DEF U
    <2> QED BY <1>10, <1>11, FS_Subset, FS_CardinalityType
  <1>13. Cardinality(A) \in Nat
    BY <1>6 DEF A
  <1>14. Cardinality(B) <= Cardinality(A) + Cardinality(D)
    <2> HIDE DEF U
    <2> QED BY <1>4, <1>9, <1>10, <1>12, <1>13
  <1> QED BY <1>12, <1>14 DEF A, B, m, M, D

LEMMA KeepsToolCount ==
  ASSUME ControlOK, MessagesOK, ToolCountOK, ControlOK', MessagesOK', Next
  PROVE  ToolCountOK'
  <1> DEFINE t  == ToolMessages(1 .. turn)
             r  == ToolMessages({turn})
             u  == Due
             t1 == ToolMessages(1 .. turn)'
             r1 == ToolMessages({turn})'
             u1 == Due'
             Goal == /\ Within(threadTool', agent.toolThread)
                     /\ t1 + u1 <= threadTool'
                     /\ r1 + u1 <= runTool'
                     /\ Within(r1 + u1, agent.toolRun)
  <1>1. /\ agent \in Agents /\ agent.toolThread \in Limit /\ agent.toolRun \in Limit
        /\ threadTool \in Nat /\ runTool \in Nat
        /\ t \in Nat /\ r \in Nat /\ u \in Nat
        /\ hook \in 0 .. Len(agent.middleware) /\ DOMAIN agent.middleware = 1 .. Len(agent.middleware)
        /\ Len(agent.middleware) \in Nat /\ (hook # 0 <=> node \in {"after", "interrupted"})
    BY AgentIs, CountsAreSets, DueIs DEF ControlOK
  <1> SUFFICES ASSUME Has("tool_limit"), ~Before("hitl", "tool_limit"), agent' = agent
               PROVE  Goal
    <2>1. agent' = agent
      BY StepsCount
    <2>2. (Has("tool_limit")' <=> Has("tool_limit")) /\ (Before("hitl", "tool_limit")' <=> Before("hitl", "tool_limit"))
      BY <2>1 DEF Has, Before
    <2> QED BY <2>1, <2>2 DEF ToolCountOK
  <1>2. /\ Within(threadTool, agent.toolThread) /\ t + u <= threadTool
        /\ r + u <= runTool /\ Within(r + u, agent.toolRun)
    BY DEF ToolCountOK
  <1>3. ASSUME Kept(messages, messages'), Quiet(messages, messages'), turn' \in {turn, turn + 1}
        PROVE  /\ turn' = turn => r1 = r
               /\ turn' = turn + 1 => r1 = 0
               /\ t1 = t
    BY <1>3, CountsQuiet
  <1>4. ~Past("tool_limit")' => u1 = 0
    BY DEF Due
  <1>5. ASSUME UNCHANGED messages, Past("tool_limit")' => Past("tool_limit")
        PROVE  u1 = u \/ u1 = 0
    <2>1. CASE Past("tool_limit")' /\ Past("tool_limit")
      BY <1>5, <2>1 DEF Due
    <2> QED BY <1>4, <1>5, <2>1
  <1>6. node' \in {"idle", "before", "model"} => ~Past("tool_limit")'
    BY DEF Past
  <1> HIDE DEF t, r, u, t1, r1, u1
  <1>7. ASSUME t1 = t, r1 = r, u1 = u \/ u1 = 0, threadTool' = threadTool, runTool' = runTool
        PROVE  Goal
    <2>1. t1 + u1 <= threadTool' /\ r1 + u1 <= runTool'
      BY <1>1, <1>2, <1>7
    <2>2. Within(r1 + u1, agent.toolRun)
      <3>1. r1 + u1 \in Nat /\ r + u \in Nat /\ r1 + u1 <= r + u
        BY <1>1, <1>7
      <3> QED BY <1>1, <1>2, <3>1, WithinLess
    <2> QED BY <1>2, <1>7, <2>1, <2>2
  <1>8. ASSUME t1 = t, r1 = 0, u1 = 0, threadTool' = threadTool, runTool' = 0
        PROVE  Goal
    <2>1. t1 + u1 <= threadTool'
      BY <1>1, <1>2, <1>8
    <2>2. Within(0, agent.toolRun)
      BY <1>1 DEF Within, Limit
    <2> QED BY <1>2, <1>8, <2>1, <2>2
  <1>9. ASSUME t1 = t, r1 = r, AIs(messages) # {}, u1 \in Nat, u1 <= Allowed,
               threadTool' = threadTool + Allowed, runTool' = runTool + Cardinality(Counted)
        PROVE  Goal
    <2>1. /\ Allowed \in Nat /\ Cardinality(Counted) \in Nat /\ Allowed <= Cardinality(Counted)
          /\ Within(threadTool + Allowed, agent.toolThread)
          /\ \A x \in Nat : x <= runTool /\ Within(x, agent.toolRun) => Within(x + Allowed, agent.toolRun)
      BY <1>2, <1>9, LimitsAllow
    <2> DEFINE c == Cardinality(Counted)
               a == Allowed
    <2> HIDE DEF c, a
    <2>2. c \in Nat /\ a \in Nat /\ a <= c /\ threadTool' = threadTool + a /\ runTool' = runTool + c /\ u1 <= a
      BY <1>9, <2>1 DEF a, c
    <2>3. t1 + u1 <= threadTool' /\ r1 + u1 <= runTool'
      BY <1>1, <1>2, <1>9, <2>2
    <2>4. Within(r + a, agent.toolRun)
      <3>1. r <= runTool /\ r <= r + u /\ r + u \in Nat
        BY <1>1, <1>2
      <3>2. Within(r, agent.toolRun)
        BY <1>1, <1>2, <3>1, WithinLess
      <3> QED BY <1>1, <2>1, <3>1, <3>2 DEF a
    <2>5. Within(r1 + u1, agent.toolRun)
      <3>1. r1 + u1 \in Nat /\ r + a \in Nat /\ r1 + u1 <= r + a
        BY <1>1, <1>9, <2>2
      <3> QED BY <1>1, <2>4, <3>1, WithinLess
    <2>6. Within(threadTool', agent.toolThread)
      BY <1>9, <2>1
    <2> QED BY <2>3, <2>5, <2>6
  <1>10. CASE Invoke /\ InvokeStep
    <2>1. /\ turn' = turn + 1 /\ Kept(messages, messages') /\ Quiet(messages, messages')
          /\ threadTool' = threadTool /\ runTool' = 0 /\ node' \in {"before", "model"}
      BY <1>10 DEF InvokeStep, Invoke, Quiet
    <2>2. t1 = t /\ r1 = 0
      BY <1>3, <2>1
    <2> QED BY <1>4, <1>6, <1>8, <2>1, <2>2
  <1>11. CASE BeforeModel /\ BeforeModelStep /\ UNCHANGED <<threadModel, runModel, threadTool, runTool, turn>>
    <2>1. messages' = messages /\ node' = "model"
      BY <1>11 DEF BeforeModelStep
    <2>2. t1 = t /\ r1 = r
      BY <1>11, <2>1 DEF t, r, t1, r1, ToolMessages
    <2> QED BY <1>4, <1>6, <1>7, <1>11, <2>1, <2>2
  <1>12. CASE ModelAnswers /\ node = "model" /\ UNCHANGED <<threadModel, runModel, threadTool, runTool, turn>>
    <2>1. t1 = t /\ r1 = r
      BY <1>12, CountsModel DEF t, r, t1, r1
    <2>2. ~Past("tool_limit")'
      BY <1>12, PastModel DEF ModelAnswers
    <2> QED BY <1>4, <1>7, <1>12, <2>1, <2>2
  <1>13. CASE CountModel /\ HookStep({}, "limit")
    <2>1. /\ node = "after" /\ agent.middleware[hook] = "model_limit"
          /\ UNCHANGED <<messages, turn, threadTool, runTool>> /\ AfterHook(hook, messages, structured)
      BY <1>13 DEF CountModel, Runs
    <2>2. Past("tool_limit")' => Past("tool_limit")
      BY <2>1, PastMoves
    <2>3. t1 = t /\ r1 = r
      BY <1>3, <1>13, <2>1, HookLeaves
    <2> QED BY <1>5, <1>7, <2>1, <2>2, <2>3
  <1>14. CASE LimitTools /\ LimitsAnswer /\ HookStep(Blocked, "limit")
    <2>1. turn' = turn /\ threadTool' = threadTool + Allowed /\ runTool' = runTool + Cardinality(Counted)
      BY <1>14, LimitToolsShape DEF LimitsAnswer
    <2>2. t1 = t /\ r1 = r /\ AIs(messages) # {}
      BY <1>3, <1>14, <2>1, HookLeaves
    <2>3. u1 \in Nat /\ u1 <= Allowed
      <3>1. /\ IsFiniteSet(DueSet(messages')) /\ Cardinality(DueSet(messages')) <= Allowed
            /\ Allowed \in Nat
        BY <1>14, <2>2, DueAllowed, LimitsAllow
      <3>2. Cardinality(DueSet(messages')) \in Nat
        BY <3>1, FS_CardinalityType
      <3>3. u1 = Cardinality(DueSet(messages')) \/ u1 = 0
        BY DEF u1, Due, DueSet
      <3> QED BY <3>1, <3>2, <3>3
    <2> QED BY <1>9, <2>1, <2>2, <2>3
  <1>15. CASE Review /\ HookStep({}, "limit")
    <2>1. node = "after" /\ agent.middleware[hook] = "hitl" /\ UNCHANGED <<messages, turn, threadTool, runTool>>
      BY <1>15 DEF Review, Runs, counts
    <2>2. Past("tool_limit")' => Past("tool_limit")
      <3>1. CASE AfterHook(hook, messages, structured)
        BY <2>1, <3>1, PastMoves
      <3>2. CASE node' = "interrupted" /\ hook' = hook
        BY <2>1, <3>2 DEF Past
      <3> QED BY <1>15, <3>1, <3>2 DEF Review
    <2>3. t1 = t /\ r1 = r
      BY <1>3, <1>15, <2>1, HookLeaves
    <2> QED BY <1>5, <1>7, <2>1, <2>2, <2>3
  <1>16. CASE Resume /\ turn' = turn + 1 /\ node = "interrupted" /\ \E P : HookStep(P, "human")
    <2>1. PICK P : HookStep(P, "human")
      BY <1>16
    <2>2. t1 = t /\ r1 = 0
      BY <1>3, <1>16, <2>1, HookLeaves
    <2>3. /\ AfterHook(hook, messages', structured') /\ threadTool' = threadTool /\ runTool' = 0
          /\ agent.middleware[hook] = "hitl"
      BY <1>16, ResumeShape DEF ResumeAnswers, ControlOK
    <2>4. ~Past("tool_limit")'
      <3> SUFFICES ASSUME Past("tool_limit")' PROVE FALSE
        OBVIOUS
      <3>1. Past("tool_limit")
        BY <1>16, <2>3, PastMoves
      <3>2. PICK h \in DOMAIN agent.middleware : h > hook /\ agent.middleware[h] = "tool_limit"
        BY <1>16, <3>1 DEF Past
      <3>3. hook \in DOMAIN agent.middleware
        BY <1>1, <1>16
      <3> QED BY <1>1, <2>3, <3>2, <3>3 DEF Before
    <2> QED BY <1>4, <1>8, <2>2, <2>3, <2>4
  <1>17. CASE ResumeRefused /\ EndStep /\ turn' = turn + 1
    <2>1. threadTool' = threadTool /\ runTool' = 0 /\ node' = "idle"
      BY <1>17 DEF ResumeRefused, EndStep
    <2>2. t1 = t /\ r1 = 0
      BY <1>3, <1>17 DEF EndStep
    <2> QED BY <1>4, <1>6, <1>8, <2>1, <2>2
  <1>18. CASE Tools /\ node = "tools" /\ node' \in {"idle", "before", "model"}
                    /\ UNCHANGED <<threadModel, runModel, threadTool, runTool, turn>>
    <2>1. u1 = 0
      BY <1>4, <1>6, <1>18
    <2>2. u = Cardinality(DueSet(messages))
      BY <1>18, DueIs DEF u, Past
    <2>3. t1 \in Nat /\ t1 <= t + u
      <3>1. t1 = Cardinality(ToolSet(messages', 1 .. turn)) /\ t = Cardinality(ToolSet(messages, 1 .. turn))
        BY <1>18 DEF t, t1, ToolMessages, ToolSet
      <3> QED BY <1>18, <2>2, <3>1, DueRuns
    <2>4. r1 \in Nat /\ r1 <= r + u
      <3>1. r1 = Cardinality(ToolSet(messages', {turn})) /\ r = Cardinality(ToolSet(messages, {turn}))
        BY <1>18 DEF r, r1, ToolMessages, ToolSet
      <3> QED BY <1>18, <2>2, <3>1, DueRuns
    <2>5. t1 + u1 <= threadTool' /\ r1 + u1 <= runTool'
      BY <1>1, <1>2, <1>18, <2>1, <2>3, <2>4
    <2>6. Within(r1 + u1, agent.toolRun)
      <3>1. r1 + u1 \in Nat /\ r + u \in Nat /\ r1 + u1 <= r + u
        BY <1>1, <2>1, <2>4
      <3> QED BY <1>1, <1>2, <3>1, WithinLess
    <2> QED BY <1>2, <1>18, <2>5, <2>6
  <1>19. CASE LimitTools /\ LimitsJump /\ EndStep
    <2>1. turn' = turn /\ threadTool' = threadTool + Allowed /\ runTool' = runTool + Cardinality(Counted)
      BY <1>19, LimitToolsShape DEF LimitsJump
    <2>2. t1 = t /\ r1 = r /\ u1 = 0
      BY <1>3, <1>4, <1>6, <1>19, <2>1 DEF EndStep
    <2>3. AIs(messages) # {}
      <3>1. node = "after"
        BY <1>19, LimitToolsShape
      <3> QED BY <3>1, LastIsOpen DEF Open
    <2>4. u1 \in Nat /\ u1 <= Allowed
      BY <2>2, <2>3, LimitsAllow
    <2> QED BY <1>9, <2>1, <2>2, <2>3, <2>4
  <1>20. CASE EndStep /\ UNCHANGED <<threadModel, runModel, threadTool, runTool, turn>>
    <2>1. t1 = t /\ r1 = r /\ u1 = 0
      BY <1>3, <1>4, <1>6, <1>20 DEF EndStep
    <2> QED BY <1>7, <1>20, <2>1
  <1> HIDE DEF Goal
  <1> QED BY <1>10, <1>11, <1>12, <1>13, <1>14, <1>15, <1>16, <1>17, <1>18, <1>19, <1>20, StepsCount

-----------------------------------------------------------------------------
(* The theorems *)

IInv ==
  /\ ControlOK /\ MessagesOK /\ AnswersOK /\ OnceOK /\ ApprovedOK
  /\ RunModelOK /\ ThreadModelOK /\ ToolCountOK

LEMMA InitIInv == Init => IInv
  <1> SUFFICES ASSUME Init PROVE IInv
    OBVIOUS
  <1> USE AgentAssumption
  <1>1. /\ agent \in Agents /\ messages = << >> /\ node = "idle" /\ hook = 0 /\ structured = 0
        /\ threadModel = 0 /\ runModel = 0 /\ threadTool = 0 /\ runTool = 0
        /\ turn = 0 /\ outcome = "none" /\ approved = {}
    BY DEF Init
  <1>2. /\ agent.modelThread \in Limit /\ agent.modelRun \in Limit
        /\ agent.toolThread \in Limit /\ agent.toolRun \in Limit /\ Len(agent.middleware) \in Nat
    BY <1>1, AgentIs
  <1>3. ControlOK
    BY <1>1, <1>2 DEF ControlOK
  <1>4. messages \in Seq(Message) /\ DOMAIN messages = {} /\ AIs(messages) = {}
    BY <1>1, EmptySeq DEF AIs
  <1>5. MessagesOK
    BY <1>1, <1>4 DEF MessagesOK, Open, IsTool
  <1>6. AnswersOK
    BY <1>1, <1>4 DEF AnswersOK, AnsweredAtOnce
  <1>7. OnceOK
    BY <1>1, <1>4 DEF OnceOK, RunsOnce, Open
  <1>8. \A w : ~Past(w)
    BY <1>1 DEF Past
  <1>9. ApprovedOK
    BY <1>4, <1>8 DEF ApprovedOK
  <1>10. \A limit \in Limit : Within(0, limit)
    BY DEF Within, Limit
  <1>11. ASSUME NEW T PROVE ModelMessages(T) = 0 /\ ToolMessages(T) = 0
    <2>1. ModelSet(messages, T) = {} /\ ToolSet(messages, T) = {}
      BY <1>4 DEF ModelSet, ToolSet
    <2> QED BY <1>5, <2>1, CountsAreSets, FS_EmptySet
  <1>12. Due = 0
    BY <1>8 DEF Due
  <1>13. RunModelOK
    BY <1>1, <1>2, <1>10, <1>11 DEF RunModelOK
  <1>14. ThreadModelOK
    BY <1>1, <1>2, <1>10, <1>11 DEF ThreadModelOK
  <1>15. ToolCountOK
    <2>1. ToolMessages(1 .. turn) = 0 /\ ToolMessages({turn}) = 0
      BY <1>11
    <2> QED BY <1>1, <1>2, <1>10, <1>12, <2>1 DEF ToolCountOK
  <1> QED BY <1>3, <1>5, <1>6, <1>7, <1>9, <1>13, <1>14, <1>15 DEF IInv

LEMMA NextIInv == IInv /\ [Next]_vars => IInv'
  <1> SUFFICES ASSUME IInv, [Next]_vars PROVE IInv'
    OBVIOUS
  <1> USE DEF IInv
  <1>1. CASE Next
    <2>1. ControlOK'
      BY <1>1, KeepsControl
    <2>2. MessagesOK' /\ AnswersOK' /\ OnceOK'
      BY <1>1, KeepsMessages
    <2>3. ApprovedOK'
      BY <1>1, KeepsApproved
    <2>4. RunModelOK'
      BY <1>1, <2>1, <2>2, KeepsRunModel
    <2>5. ThreadModelOK'
      BY <1>1, <2>1, <2>2, KeepsThreadModel
    <2>6. ToolCountOK'
      BY <1>1, <2>1, <2>2, KeepsToolCount
    <2> QED BY <2>1, <2>2, <2>3, <2>4, <2>5, <2>6
  <1>2. CASE UNCHANGED vars
    <2> USE <1>2 DEF vars, counts
    <2>1. ControlOK'
      BY DEF ControlOK, Has
    <2>2. MessagesOK'
      BY DEF MessagesOK, IsTool
    <2>3. AnswersOK' /\ OnceOK'
      BY DEF AnswersOK, OnceOK, IsTool
    <2>4. ApprovedOK'
      BY DEF ApprovedOK, Has, IsTool, Past
    <2>5. RunModelOK'
      BY DEF RunModelOK, ModelMessages, Has, Past
    <2>6. ThreadModelOK'
      BY DEF ThreadModelOK, ModelMessages, Has
    <2>7. ToolCountOK'
      BY DEF ToolCountOK, ToolMessages, Has, Before, Due, Past
    <2> QED BY <2>1, <2>2, <2>3, <2>4, <2>5, <2>6, <2>7
  <1> QED BY <1>1, <1>2

\* create_agent's graph keeps the whole invariant, whatever its middlewares are.
THEOREM Invariance == Spec => []IInv
  <1> QED BY InitIInv, NextIInv, PTL DEF Spec

\* Every variable of the graph and of the middlewares keeps to its type: the
\* messages are those of the four kinds, of the turns there were.
THEOREM AgentTypes == Spec => []TypeOK
  <1>1. IInv => TypeOK
    <2> SUFFICES ASSUME ControlOK, MessagesOK PROVE TypeOK
      BY DEF IInv
    <2>1. ASSUME NEW i \in DOMAIN messages
          PROVE  LET m == messages[i] IN
                 \/ m = Human
                 \/ m.type = "ai" /\ m.calls \in Seq(Call) /\ m.by \in {"model", "limit"} /\ m.turn \in 1 .. turn
                 \/ m.type = "tool" /\ m.by \in {"model", "limit", "human", "tool"} /\ m.turn \in 1 .. turn
      <3>1. messages[i] \in Message
        BY LenProperties, ElementOfSeq DEF MessagesOK
      <3>2. messages[i].type # "human" => messages[i].turn <= turn
        BY DEF MessagesOK
      <3>3. turn \in Nat
        BY AgentAssumption DEF ControlOK
      <3> QED BY <3>1, <3>2, <3>3, KindOf DEF AIMessage, ToolMessage
    <2> QED BY <2>1 DEF TypeOK, ControlOK
  <1> QED BY <1>1, Invariance, PTL

\* Within a run the model is called only when every call it made is answered, by a
\* tool, a limit, the human or as structured output: the hooks, whichever they are
\* and in any order, and the edges behind them leave no call open.
THEOREM ModelSeesAnswers == Spec => []AnsweredBeforeModel
  <1>1. IInv => AnsweredBeforeModel
    <2> SUFFICES ASSUME IInv, node = "model", NEW i \in ThisRun, NEW k \in DOMAIN messages[i].calls
                 PROVE  Answers(messages[i].calls[k]) # {}
      BY DEF AnsweredBeforeModel
    <2>1. i \in AIs(messages) /\ messages[i].calls[k].id = <<i, k>>
      BY DEF ThisRun, IInv, MessagesOK
    <2>2. InRun(messages, i)
      <3> SUFFICES ASSUME NEW h \in DOMAIN messages, messages[h].type = "human" PROVE h < i
        BY DEF InRun
      <3>1. messages[h] = Human
        BY LenProperties, ElementOfSeq, KindOf DEF IInv, MessagesOK
      <3> QED BY <3>1 DEF ThisRun
    <2>3. HasAnswer(messages, i, k)
      BY <2>1, <2>2 DEF IInv, AnswersOK, Open
    <2> QED BY <2>1, <2>3 DEF HasAnswer, Answers
  <1> QED BY <1>1, Invariance, PTL

\* A call that a limit blocked or the human answered does not run as well, and none
\* runs twice, however the hooks are ordered.
THEOREM CallsRunOnce == Spec => []BlockedNeverRuns
  <1>1. IInv => BlockedNeverRuns
    <2> SUFFICES ASSUME IInv, NEW i \in AIs(messages), NEW k \in DOMAIN messages[i].calls,
                        NEW j \in Answers(messages[i].calls[k]), messages[j].by = "tool"
                 PROVE  Cardinality(Answers(messages[i].calls[k])) = 1
      BY DEF BlockedNeverRuns
    <2>1. \A a \in Answers(messages[i].calls[k]) : a = j
      BY DEF Answers, IInv, OnceOK, RunsOnce
    <2>2. Answers(messages[i].calls[k]) = {j}
      BY <2>1
    <2> QED BY <2>2, FS_Singleton
  <1> QED BY <1>1, Invariance, PTL

\* No call of a guarded tool runs that a human did not approve under the name it ran
\* with, wherever the review stands among the hooks.
THEOREM RunsAreApproved == Spec => []OnlyApprovedRuns
  <1>1. IInv => OnlyApprovedRuns
    BY DEF IInv, ApprovedOK, OnlyApprovedRuns, IsTool, Range
  <1> QED BY <1>1, Invariance, PTL

\* ModelCallLimitMiddleware keeps to the limit of a run anywhere in the list, and to
\* that of the thread as the last of it.
THEOREM ModelLimitHolds == Spec => []ModelLimitKept
  <1>1. IInv => ModelLimitKept
    BY DEF IInv, RunModelOK, ThreadModelOK, ModelLimitKept
  <1> QED BY <1>1, Invariance, PTL

\* ToolCallLimitMiddleware keeps to both its limits when it counts the calls as they
\* are after the review.
THEOREM ToolLimitHolds == Spec => []ToolLimitKept
  <1>1. IInv => ToolLimitKept
    <2> SUFFICES ASSUME IInv, Has("tool_limit"), ~Before("hitl", "tool_limit")
                 PROVE  /\ Within(ToolMessages(1 .. turn), agent.toolThread)
                        /\ Within(ToolMessages({turn}), agent.toolRun)
      BY DEF ToolLimitKept
    <2> DEFINE t == ToolMessages(1 .. turn)
               r == ToolMessages({turn})
    <2>1. /\ Within(threadTool, agent.toolThread) /\ t + Due <= threadTool
          /\ Within(r + Due, agent.toolRun)
      BY DEF IInv, ToolCountOK
    <2>2. /\ t \in Nat /\ r \in Nat /\ Due \in Nat /\ threadTool \in Nat
          /\ agent.toolThread \in Limit /\ agent.toolRun \in Limit
      BY CountsAreSets, DueIs, AgentIs DEF IInv, ControlOK
    <2> HIDE DEF t, r
    <2>3. t <= threadTool /\ r <= r + Due /\ r + Due \in Nat
      BY <2>1, <2>2
    <2> QED BY <2>1, <2>2, <2>3, WithinLess DEF t, r
  <1> QED BY <1>1, Invariance, PTL

=============================================================================
