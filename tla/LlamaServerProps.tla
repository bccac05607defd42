-------------------------- MODULE LlamaServerProps --------------------------
(***************************************************************************)
(* What is checked of LlamaServer.                                         *)
(***************************************************************************)
EXTENDS LlamaServer

\* Every variable keeps to its type (app.py and model.py declare them).
TypeOK ==
  /\ outer \in Lock /\ inner \in Lock
  /\ proxy \in Proxy
  /\ pc    \in [Request -> Place]
  /\ kind  \in [Request -> Kind]
  /\ wants \in [Request -> Alias \cup {NoAlias}]
  /\ using \in [Request -> Alias \cup {NoAlias}]
  /\ gone  \in [Request -> BOOLEAN]
  /\ chan  \in [Request -> Seq(Frame)]
  /\ owed  \in [Request -> Int]

\* The requests that use the Llama object, or are about to, after the yield of
\* get_llama_proxy.
ActiveRequests == {r \in Request : pc[r] \in Active}

\* At most one request at a time is past the double lock: the Llama object and
\* the proxy are never shared, whatever is cancelled and however calls end.
MutualExclusion == \A r, s \in ActiveRequests : r = s

\* The test of the comment in get_llama_proxy: llama_outer_lock.locked() tells a
\* stream exactly whether another request is pending.
OuterLockedIffPending ==
  Locked(outer) <=> \E r \in Request : pc[r] \in Pending

\* The model a handler was given is the one it asked for (the default one for an
\* unknown name), it is still the proxy's current model, and it is the only one
\* that is open: no switch closes a model under a running call, and a failed load
\* never leaves a closed model to be reused through its stale alias.
UsesOpenModel ==
  \A r \in ActiveRequests :
    kind[r] # "models" =>
      /\ using[r] = Resolve(wants[r])
      /\ using[r] = proxy.model
      /\ proxy.open = {using[r]}

\* A lock whose owner and waiters are all different, and which is owned when
\* somebody waits.
Orderly(l) ==
  /\ \A i, j \in DOMAIN l.queue : l.queue[i] = l.queue[j] => i = j
  /\ \A i \in DOMAIN l.queue : l.queue[i] # l.owner
  /\ ~Locked(l) => l.queue = << >>

HolderSet(l) == {r \in Request : r = l.owner \/ \E i \in DOMAIN l.queue : l.queue[i] = r}

\* Who owns or awaits which lock is known from where the tasks are suspended;
\* in particular a cancelled acquire() leaves nothing behind in either lock.
\* (The inductive invariant from which the properties above follow.)
LockInvariant ==
  /\ Orderly(outer) /\ Orderly(inner)
  /\ HolderSet(outer) = {r \in Request : pc[r] \in Pending}
  /\ HolderSet(inner) = {r \in Request : pc[r] \in Active \cup {"inner"}}
  /\ \A r \in Request : pc[r] = "inner" => outer.owner = r
  /\ \A r \in Request : pc[r] \in Active => inner.owner = r

Frames(r, frame) == Cardinality({i \in DOMAIN chan[r] : chan[r][i] = frame})

\* No chunk taken from the generator is lost on its way to a client that stays,
\* whether the stream ends by itself or is interrupted: one it has not received
\* is in the channel or about to be sent; and nothing follows "[DONE]".
NoChunkLost ==
  \A r \in Request :
    /\ pc[r] \in Streaming \cup {"complete", "interrupted"} =>
         owed[r] = Frames(r, "chunk") + (IF pc[r] = "send" THEN 1 ELSE 0)
    /\ \A i \in DOMAIN chan[r] :
         chan[r][i] = "done" => i = Len(chan[r]) /\ pc[r] \in Ended

------------------------------------------------------------------------------

\* The double lock is one FIFO queue: whoever owns or awaits the outer lock, in
\* order, waits; whoever is past the inner one is served.
Abstract == INSTANCE FifoServer WITH
  waiting <- Holders(outer),
  active  <- IF inner.owner # NoRequest /\ pc[inner.owner] \in Active
               THEN inner.owner ELSE NoRequest,
  cut     <- {r \in Request : pc[r] \in {"sendStop", "interrupted"}}

\* LlamaServer implements FifoServer: service in the order of arrival, one at a
\* time, and a stream is only cut while somebody waits.
ImplementsFifo == Abstract!Spec

\* Nobody waits for ever behind a stream, even one whose generation never ends:
\* with interrupt_requests the pending request gets its turn, though others keep
\* arriving, models fail to load and clients leave at any point.
EveryRequestServed ==
  \A r \in Request : pc[r] \in Pending ~> pc[r] \notin Pending

\* Without interruption, every request that arrives is answered or given up as
\* long as generations end.
EveryRequestEnds ==
  \A r \in Request : pc[r] \in Pending ~> pc[r] \in Ended
=============================================================================
