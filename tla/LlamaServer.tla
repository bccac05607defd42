----------------------------- MODULE LlamaServer -----------------------------
(***************************************************************************)
(* The HTTP server of llama-cpp-python (llama_cpp/server/app.py) and its   *)
(* model proxy (llama_cpp/server/model.py): requests of one event loop     *)
(* that share one Llama object under a double lock, streams that are       *)
(* published through a bounded channel, and the interruption of a stream   *)
(* when another request is pending.                                        *)
(*                                                                         *)
(* One action is what a request's task does between two suspension points  *)
(* of asyncio; work handed to the thread pool ends in an action of its own.*)
(***************************************************************************)
EXTENDS Integers, Sequences, FiniteSets

CONSTANTS
  Request,            \* the HTTP requests the server may receive
  NoRequest,          \* the owner of a free lock
  Alias,              \* the model aliases of the configuration
  Default,            \* the alias of the first configured model
  NoAlias,            \* an alias that no model has, and "no model loaded"
  InterruptRequests,  \* ServerSettings.interrupt_requests
  Endpoint,           \* the kinds of request that clients send
  ChanCap             \* create_memory_object_stream(10)

\* "stream" and "plain" are completions with and without stream = True,
\* "embed" an endpoint that takes the lock with Depends and uses the model,
\* "models" the one (GET /v1/models) that takes it and only lists aliases.
Kind == {"stream", "plain", "embed", "models"}

ASSUME ServerAssumption ==
  /\ NoRequest \notin Request
  /\ Default \in Alias
  /\ NoAlias \notin Alias
  /\ InterruptRequests \in BOOLEAN
  /\ Endpoint \subseteq Kind
  /\ ChanCap \in Nat \ {0}

VARIABLES
  outer,   \* llama_outer_lock
  inner,   \* llama_inner_lock
  proxy,   \* LlamaProxy: the current model and its alias; the open models
  pc,      \* where the task of a request is suspended, or how it ended
  kind,    \* which endpoint was called
  wants,   \* body.model
  using,   \* the model the handler was given
  gone,    \* the client has closed its connection
  chan,    \* the memory object stream of a streaming response
  owed     \* chunks taken from the generator that the client has not received

lockVars   == <<outer, inner>>
streamVars == <<chan, owed>>
vars == <<outer, inner, proxy, pc, kind, wants, using, gone, chan, owed>>

INSTANCE AnyioLock WITH Task <- Request, NoTask <- NoRequest

Pending   == {"outer", "inner"}
Streaming == {"compute", "send", "poll", "sendStop", "sendDone"}
Active    == Streaming \cup {"check", "run"}
Ended     == {"complete", "interrupted", "cancelled", "error", "rejected"}
Place     == {"idle"} \cup Pending \cup Active \cup Ended

\* What travels through the channel of a stream.
Frame == {"chunk", "done"}

Proxy == [model : Alias \cup {NoAlias}, alias : Alias, open : SUBSET Alias]

------------------------------------------------------------------------------
(* LlamaProxy.__call__ *)

Resolve(a) == IF a \in Alias THEN a ELSE Default

Called_NotClosed(a) ==
  IF proxy.alias = a /\ proxy.model # NoAlias
    THEN {proxy}
    ELSE {[model |-> a, alias |-> a, open |-> proxy.open \cup {a}]}

\* The states in which a call for alias a may leave the proxy.  A model that
\* fails to load leaves no current model, and the alias of the previous one.
Called(a) ==
  IF proxy.alias = a /\ proxy.model # NoAlias
    THEN {proxy}
    ELSE LET others == proxy.open \ {proxy.model}
         IN  { [model |-> a, alias |-> a, open |-> others \cup {a}],
               [model |-> NoAlias, alias |-> proxy.alias, open |-> others] }

------------------------------------------------------------------------------
(* Tasks *)

Goto(r, p) == pc' = [pc EXCEPT ![r] = p]

\* The request leaves get_llama_proxy after its yield.
Leave(r, how) == Goto(r, how) /\ inner' = Release(inner)

Init ==
  /\ outer = Unlocked
  /\ inner = Unlocked
  /\ proxy = [model |-> Default, alias |-> Default, open |-> {Default}]
  /\ pc    = [r \in Request |-> "idle"]
  /\ kind  = [r \in Request |-> "models"]
  /\ wants = [r \in Request |-> NoAlias]
  /\ using = [r \in Request |-> NoAlias]
  /\ gone  = [r \in Request |-> FALSE]
  /\ chan  = [r \in Request |-> << >>]
  /\ owed  = [r \in Request |-> 0]

\* A request arrives and calls llama_outer_lock.acquire().  A client sends its
\* next one when it has received all of the last or has connected again.
Arrive(r) ==
  /\ pc[r] \in {"idle"} \cup Ended
  /\ gone[r] \/ chan[r] = << >>
  /\ \E k \in Endpoint, a \in Alias \cup {NoAlias} :
       /\ kind'  = [kind EXCEPT ![r] = k]
       /\ wants' = [wants EXCEPT ![r] = a]
  /\ outer' = Acquire(outer, r)
  /\ Goto(r, "outer")
  /\ using' = [using EXCEPT ![r] = NoAlias]
  /\ gone'  = [gone EXCEPT ![r] = FALSE]
  /\ chan'  = [chan EXCEPT ![r] = << >>]
  /\ owed'  = [owed EXCEPT ![r] = 0]
  /\ UNCHANGED <<inner, proxy>>

TakeInner_Barges(r) ==
  /\ pc[r] = "outer"
  /\ outer.owner = r
  /\ inner' = [inner EXCEPT !.owner = r]
  /\ Goto(r, "inner")
  /\ UNCHANGED <<outer, proxy, kind, wants, using, gone, streamVars>>

\* It has the outer lock and calls llama_inner_lock.acquire().
TakeInner(r) ==
  /\ pc[r] = "outer"
  /\ outer.owner = r
  /\ inner' = Acquire(inner, r)
  /\ Goto(r, "inner")
  /\ UNCHANGED <<outer, proxy, kind, wants, using, gone, streamVars>>

FirstPlace(k) == CASE k = "stream" -> "compute"
                   [] k = "plain"  -> "check"
                   [] OTHER        -> "run"

\* It has both locks: the outer one is released and, before the next
\* suspension, the model is chosen.  Loading it or preparing the arguments
\* (prepare_request_resources) may raise.
Enter(r) ==
  /\ pc[r] = "inner"
  /\ inner.owner = r
  /\ outer' = Release(outer)
  /\ \/ /\ kind[r] = "models"
        /\ Goto(r, "run")
        /\ UNCHANGED <<inner, proxy, using>>
     \/ /\ kind[r] # "models"
        /\ proxy' \in Called(Resolve(wants[r]))
        /\ \/ /\ proxy'.model # NoAlias
              /\ using' = [using EXCEPT ![r] = proxy'.model]
              /\ Goto(r, FirstPlace(kind[r]))
              /\ UNCHANGED inner
           \/ Leave(r, "error") /\ UNCHANGED using
  /\ UNCHANGED <<kind, wants, gone, streamVars>>

\* The regular completion asks once whether its client is still there.
CheckClient(r) ==
  /\ pc[r] = "check"
  /\ IF gone[r] THEN Leave(r, "rejected") ELSE Goto(r, "run") /\ UNCHANGED inner
  /\ UNCHANGED <<outer, proxy, kind, wants, using, gone, streamVars>>

\* The call in the thread pool returns or raises.
Finish(r) ==
  /\ pc[r] = "run"
  /\ \E how \in {"complete", "error"} : Leave(r, how)
  /\ UNCHANGED <<outer, proxy, kind, wants, using, gone, streamVars>>

------------------------------------------------------------------------------
(* get_event_publisher *)

\* The thread pool returns the next chunk of the generator ...
Chunk(r) ==
  /\ pc[r] = "compute"
  /\ owed' = [owed EXCEPT ![r] = @ + 1]
  /\ Goto(r, "send")
  /\ UNCHANGED <<lockVars, proxy, kind, wants, using, gone, chan>>

\* ... or finds its end ...
EndOfStream(r) ==
  /\ pc[r] = "compute"
  /\ Goto(r, "sendDone")
  /\ UNCHANGED <<lockVars, proxy, kind, wants, using, gone, streamVars>>

\* ... or raises, which ends the response with what the channel still holds.
Raise(r) ==
  /\ pc[r] = "compute"
  /\ Leave(r, "error")
  /\ chan' = [chan EXCEPT ![r] = << >>]
  /\ UNCHANGED <<outer, proxy, kind, wants, using, gone, owed>>

Put_DropsWhenFull(r, frame) ==
  chan' = [chan EXCEPT ![r] = IF Len(@) < ChanCap THEN Append(@, frame) ELSE @]

Put(r, frame) ==
  /\ Len(chan[r]) < ChanCap
  /\ chan' = [chan EXCEPT ![r] = Append(@, frame)]

Send(r) ==
  /\ pc[r] = "send"
  /\ Put(r, "chunk")
  /\ Goto(r, "poll")
  /\ UNCHANGED <<lockVars, proxy, kind, wants, using, gone, owed>>

Interrupted_Never == FALSE

Interrupted_Always == InterruptRequests

\* The test by which a stream gives way.
Interrupted == InterruptRequests /\ Locked(outer)

\* After every chunk: is the client gone, or is another request pending?
Poll(r) ==
  /\ pc[r] = "poll"
  /\ \/ gone[r] /\ Leave(r, "cancelled")
     \/ /\ ~gone[r]
        /\ Goto(r, IF Interrupted THEN "sendStop" ELSE "compute")
        /\ UNCHANGED inner
  /\ UNCHANGED <<outer, proxy, kind, wants, using, gone, streamVars>>

\* The last frame is the same "[DONE]" for an interrupted and a whole stream.
SendLast(r) ==
  /\ \/ pc[r] = "sendStop" /\ Leave(r, "interrupted")
     \/ pc[r] = "sendDone" /\ Leave(r, "complete")
  /\ Put(r, "done")
  /\ UNCHANGED <<outer, proxy, kind, wants, using, gone, owed>>

AbandonInner_KeepsOuter(r) == outer' = outer /\ inner' = Withdraw(inner, r)

\* acquire() of the inner lock is cancelled: the finally clause of get_llama_proxy
\* gives back the outer lock.
AbandonInner(r) == outer' = Release(outer) /\ inner' = Withdraw(inner, r)

\* The response of a client that is gone cancels the publisher, wherever it
\* awaits a lock or the channel.  A call in the thread pool is not abandoned.
Cancel(r) ==
  /\ kind[r] = "stream"
  /\ gone[r]
  /\ \/ pc[r] = "outer" /\ outer' = Withdraw(outer, r) /\ UNCHANGED inner
     \/ pc[r] = "inner" /\ AbandonInner(r)
     \/ /\ pc[r] \in {"send", "sendStop", "sendDone"}
        /\ inner' = Release(inner)
        /\ UNCHANGED outer
  /\ Goto(r, "cancelled")
  /\ chan' = [chan EXCEPT ![r] = << >>]
  /\ UNCHANGED <<proxy, kind, wants, using, gone, owed>>

------------------------------------------------------------------------------
(* The client *)

\* The response takes a frame from the channel and the client accepts it.
Deliver(r) ==
  /\ ~gone[r]
  /\ chan[r] # << >>
  /\ chan' = [chan EXCEPT ![r] = Tail(@)]
  /\ owed' = [owed EXCEPT ![r] = IF Head(chan[r]) = "chunk" THEN @ - 1 ELSE @]
  /\ UNCHANGED <<lockVars, proxy, pc, kind, wants, using, gone>>

Disconnect(r) ==
  /\ pc[r] \in Pending \cup Active
  /\ ~gone[r]
  /\ gone' = [gone EXCEPT ![r] = TRUE]
  /\ UNCHANGED <<lockVars, proxy, pc, kind, wants, using, streamVars>>

------------------------------------------------------------------------------

\* What the task of r does once it has arrived.
Step(r) ==
  \/ TakeInner(r) \/ Enter(r) \/ CheckClient(r) \/ Finish(r)
  \/ Chunk(r) \/ EndOfStream(r) \/ Raise(r) \/ Send(r) \/ Poll(r) \/ SendLast(r) \/ Cancel(r)

Next == \E r \in Request : Arrive(r) \/ Step(r) \/ Deliver(r) \/ Disconnect(r)

Spec == Init /\ [][Next]_vars

\* The event loop runs every task that can go on, and every call in the thread
\* pool returns.
FairServer == \A r \in Request : WF_vars(Step(r))

\* Clients that stay connected read what they are sent.
FairClients == \A r \in Request : WF_vars(Deliver(r))

\* Generations end: max_tokens and the context bound them.
FairGenerations == \A r \in Request : SF_vars(EndOfStream(r))

EndlessGenerationsSpec == Spec /\ FairServer /\ FairClients
FairSpec               == Spec /\ FairServer /\ FairClients /\ FairGenerations
=============================================================================
