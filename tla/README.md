# The llama-agent repository in TLA+

This directory holds TLA+ modules that model the core of the repository, the
configurations with which TLC checks them on small instances, and theorems about
them with proofs for the TLA+ proof system. Paths below are relative to `src/`;
`llama_cpp/` stands for `llama-cpp-python/llama_cpp/`, `agents/` for
`langchain/libs/langchain_v1/langchain/agents/`, `core/` for
`langchain/libs/core/langchain_core/`.

## The system

`agent-wrapper/03-agent.py` builds a LangChain agent whose chat model is
`ChatOpenAI` with `base_url=http://localhost:8000/v1`. At that address runs the
server of llama-cpp-python, which drives one local model. A call goes down through

    agent loop (LangChain)  ->  HTTP server  ->  Llama object  ->  llama.cpp

and comes back as one answer or as a stream of chunks. In the lower half the state is
shared, memory is reused from one request to the next, and requests meet. In the upper
half one conversation is extended by a model, by tools, by limits and by a human, over
many invocations; its shell tool, rate limiter and indexing keep state of their own.

| Component | State | Operations | Interaction |
|---|---|---|---|
| HTTP server, `llama_cpp/server/app.py` | `llama_outer_lock`, `llama_inner_lock`, a bounded channel per stream | one handler per endpoint, `get_llama_proxy`, `get_event_publisher` | tasks of one event loop; model calls run in a thread pool; a client may close its connection at any point |
| Model proxy, `llama_cpp/server/model.py` | the loaded model and its alias | `__call__` (serve an alias, closing the other model) | called by handlers under both locks |
| Completion engine, `llama_cpp/llama.py` | `input_ids`, `n_tokens`, `scores`, the memory of llama.cpp, `cache` | `create_completion`, `generate`, `eval`, `sample`, `embed`, `save_state`, `load_state` | generators driven chunk by chunk by the server; their consumer may close them |
| Text of a completion, in `_create_completion` | tokens, those returned, missing bytes | one step per token, chunks, final flush | between `generate` and the server's stream |
| State caches, `llama_cpp/llama_cache.py` | saved states by tokens, in order of use | `__getitem__` (longest prefix), `__setitem__` (evicts) | read before and written after a completion |
| Draft model, `llama_cpp/llama_speculative.py` | none | find a candidate continuation | called by `generate` |
| llama.cpp, `llama-cpp-python/vendor/` | KV or recurrent memory | decode, removal from a sequence | external: modelled from how `llama.py` uses it |
| Agent loop, `agents/factory.py` | messages, `jump_to`, structured response | model node, tool node, middleware hooks | a graph whose edges read the messages |
| Call limits, approval, `agents/middleware/` | counters per run and thread; interrupts | `before_model`, `after_model` | write into the agent's state |
| Shell tool, `agents/middleware/shell_tool.py` | a subprocess, two reader threads, a queue | `execute`, `restart`, `stop` | threads, a deadline |
| Rate limiter, `core/rate_limiters.py` | tokens, time of last refill | `acquire` | shared by threads, under a lock |
| Indexing, `core/indexing/api.py` | record manager and vector store | `index` with four cleanup modes | two stores, written one after the other |
| Rest of LangChain | | | interfaces, data conversions, other integrations |

What makes each correct, and where that is hard to get right:

- **HTTP server**: one handler at a time in the model; first come, first served; a
  stream gives way when, and only when, somebody waits; nobody waits for ever; no
  chunk of a stream is lost. Hard because a task may be cancelled at each await,
  between or inside the two acquisitions, and because a lock is held across the
  sends of a stream.
- **Model proxy**: a handler uses the model it asked for, and it is open. Hard
  because a load may fail after the old model was closed.
- **Completion engine**: what is sampled depends on the request alone. Hard because
  memory is reused after completions that ended, failed in the middle of a batch,
  were abandoned between two chunks, or drafted tokens that were rejected.
- **State caches**: hits never cost correctness, and the size stays within bounds.
- **Text of a completion**: the chunks of a stream are the answer, nothing of a stop
  sequence is sent, nothing is held longer than needed. Hard because tokens split
  characters and stop sequences, and stop sequences overlap.
- **Agent loop and middleware**: every tool call is answered before the model is called
  again, and runs at most once; limits hold over jumps of hooks, resumes and failures;
  a decision meets the call it was made for. Hard because hooks add messages, and the
  edges decide by the messages alone; the order of the hooks is the user's.
- **Shell tool**: output and exit code of a command are its own, whatever timed out
  before; a timeout leaves a shell that can be used. Hard because reader threads of older
  shells go on, and because `restart` takes no lock.
- **Rate limiter**: rate and burst over any period. Hard because credit is added late, in
  lumps, and clipped afterwards.
- **Indexing**: a record promises a stored document, cleanup spares what the run has
  written, and a later run repairs what an earlier one left. Hard because two stores are
  written one after the other, and a call may fail between.

`PROJECT.json` lists every component with its sources, and every hazard at its line.

## The modules

| Module | Models |
|---|---|
| `AnyioLock` | `anyio.Lock` (external): owner and FIFO queue, hand-over on release, cancelled acquisition |
| `LlamaServer` | `app.py` and `model.py`: requests, both locks, proxy, streams, disconnections |
| `FifoServer` | abstract specification: one request served at a time, in the order of arrival |
| `LlamaServerProps`, `MCLlamaServer` | properties of `LlamaServer`, its instances for TLC |
| `LlamaServerProofs` | theorems about `LlamaServer` |
| `LlamaCache` | the two caches as operators on a sequence of entries |
| `LlamaEngine` | one `Llama`: completions, embeddings, memory, cache, drafts, failures |
| `LlamaEngineProps`, `MCLlamaEngine` | properties of `LlamaEngine`, its instances for TLC |
| `LlamaEngineProofs` | theorems about `LlamaEngine` |
| `CompletionStream` | the text of one completion, byte by byte, with and without stream |
| `CompletionStreamProps`, `MCCompletionStream`, `CompletionStreamProofs` | its properties, instances and theorems |
| `AgentLoop` | the graph of `agents/factory.py` with call limits and human approval |
| `AgentLoopProps`, `MCAgentLoop`, `AgentLoopProofs` | its properties, the agents TLC looks at, and theorems |
| `ShellSession` | one shell shared by threads: pipes, readers, queue, lock, deadlines |
| `ShellSessionProps`, `MCShellSession`, `ShellSessionProofs` | its properties, instance and theorems |
| `Indexing` | `index()` over `SQLRecordManager` and a vector store |
| `IndexingProps`, `MCIndexing`, `IndexingProofs` | its properties, instance and theorems |
| `RateLimiter` | the token bucket of `core/rate_limiters.py` |
| `RateLimiterProps`, `MCRateLimiter`, `RateLimiterProofs` | its properties, instance and theorems |
| `ProofLemmas` | lemmas on least elements, parts of sequences and counting, for the proofs |

`LlamaServer` uses `AnyioLock` twice and is shown to implement `FifoServer`.
`LlamaEngine` extends `LlamaCache`. The parts are not composed. The theorem
`ServerMutualExclusion` is what entitles `LlamaEngine` and `CompletionStream` to a single
caller; `LlamaEngine` lets a completion end after any token, which covers what
`CompletionStream` decides; `AgentLoop` lets its model return anything. Middlewares and
loop, however, are one module, since the hooks meet in the messages.

### LlamaServer

A request is a process; `pc[r]` says at which await its task is suspended or how it
ended. An action is what a task does between two awaits, as asyncio runs no other
task in between.

| Action | Code |
|---|---|
| `Arrive`, `TakeInner`, `Enter` | `get_llama_proxy` up to its `yield`, then what the handler does before its next await: choose the model, prepare the arguments (both may raise) |
| `CheckClient`, `Finish` | a plain completion (it looks once whether its client is there) and the other endpoints: the call in the thread pool returns or raises |
| `Chunk`, `EndOfStream`, `Raise` | the next step of the generator in the thread pool |
| `Send`, `Poll`, `SendLast` | `get_event_publisher`: put a frame into the bounded channel, look for a closed client and a pending request, send `[DONE]` |
| `Cancel` | the cancellation of a publisher at a lock or in the channel |
| `Deliver`, `Disconnect` | the client |

The channel holds 10 frames in the code and `ChanCap` here. A frame is "chunk" or
"done": the text does not matter to the server. `owed` counts chunks that left the
generator and have not reached the client; it exists for `NoChunkLost` only.

### LlamaEngine

One completion runs at a time. `phase` tells what the code does next: `match` (the
prefix match of `generate`), `eval` (one batch per step, so that a failure between
two batches is seen), `sample`, `yield` (the token reaches `_create_completion`),
`chunk` (chunks are sent, and the consumer may close the generator), `resume` (the
token left a character incomplete, and nothing is sent). `kv` is the memory of
sequence 0: the token evaluated at each position, which is what the logits of the
last one depend on. Logits are not modelled: `sample` may return any token.

| Action | Code |
|---|---|
| `Start` | `_create_completion` up to `generate`: limits, and the restoration of a cached state (`load_state`), which may fail halfway |
| `Match` | prefix match, the refusal to rewind on recurrent and hybrid models, `reset` |
| `Eval`, `ScoresRaise`, `DecodeRaises` | a batch of `eval` that succeeds, whose logits do not fit `scores`, or that `llama_decode` refuses or leaves half done |
| `Sample`, `EndOfGeneration`, `Consume` | sampling, end-of-generation tokens and stopping criteria, incomplete characters, stop sequences, `max_tokens`, and the saving of the state |
| `AcceptDrafted`, `Continue` | the inner loop of `generate`: keep a drafted token, or roll back and draft anew |
| `Abandon` | the stream is closed at a chunk (the server does so when it interrupts) |
| `Embed` | embeddings on the same context, which may fail halfway |

`Init` leaves `input_ids` arbitrary, as `np.ndarray` does. A state in the cache
keeps the whole array, as `save_state` does; its size is the number of tokens in its
memory, which the size of the saved bytes grows with.

### CompletionStream

The loop of `_create_completion` on bytes. A byte stands for its kind: `"L"`, `"T"` and
`"F"` lead a character of two, three and four bytes, `"C"` continues one, others are characters.
The module computes the text of the call without stream next to the chunks of the call
with it, so that the two can be compared; the code's branches are the same for both.

| Action | Code |
|---|---|
| `Token`, `EndOfGeneration` | one step of `generate`: missing bytes, stop sequences, or on to the chunks (l.1389 to 1416) |
| `Emit`, `Hold` | chunks, as long as whole characters lie before what may begin a stop sequence (l.1418 to 1557) |
| `Limit` | `max_tokens` (l.1559) |
| `Flush`, `NothingRemains` | what was held, token by token, up to the first stop sequence (l.1573 to 1690) |

### AgentLoop

An action is one node of the graph with the edge behind it, which langgraph runs as one
superstep; a node that raises writes nothing. `node` is the node that runs next, and
`hook` the middleware whose `after_model` it is. Contents of messages are left out; a
message tells who wrote it (`by`) and in which invocation (`turn`), for the properties.

| Action | Code |
|---|---|
| `Invoke` | an invocation with a new message; run counts are untracked and start at zero |
| `BeforeModel`, `CountModel` | `ModelCallLimitMiddleware` before and after the model |
| `Model` | `model_node` and `_handle_model_output`: any tool calls, structured output that parses or not |
| `LimitTools` | `ToolCallLimitMiddleware.after_model`, all exit behaviours |
| `Review`, `Resume`, `ResumeRefused` | `HumanInTheLoopMiddleware.after_model` up to its interrupt, and with the decisions |
| `Tools`, `ToolsRaise` | the tools node (external) |
| `AfterHook`, `ModelToTools`, `ToolsToModel` | the edges |

### ShellSession

A tool call is a thread; `pc[t]` is where it is between two steps that another thread
may see. `restart` and `stop` take no lock and read `self._process` at every turn, so a
step reads or sets the attributes of the session in one place of the code, and a call on
an attribute that has become None raises. `on[t]` is a local reference: the queue a `get`
waits on, the process a `wait` waits for, what `start` has spawned. `shell[g]` is the
g-th process with its input, its output pipe and the status of its last command; queues
and reader threads bear the number of the process whose `start` made them, and `source`
says which pipe a reader was given, which two starts at once may mix up. A command prints
one line, and its status is its number.

| Action | Code |
|---|---|
| `Execute`, `Lock`, `WriteCommand`, `WriteMarker`, `Flush` | `execute` |
| `Look`, `Get`, `TimeOut` | `_collect_output`: the queue, the next line or its marker, the deadline |
| `CollectAfterExit`, `PollCode` | `_collect_output_after_exit`: a shell that ended before the marker was written |
| `Restart` | `restart`, by the tool without the lock; `TimeOut` goes the same way under it |
| `StopLooks`, `StopAsk`, `StopWait`, `StopWaited` | `stop` up to its wait: each test, the `exit` that is written |
| `Kill`, `KillGroup` | `_kill_process` |
| `SetTerminated`, `Close`, `Clear` | the `finally` clause of `stop` |
| `StartCheck`, `StartPoll`, `Spawn`, `SetStdin`, `Reset`, `SetQueue`, `SetReader`, `SetStderr`, `StartReader` | `start`, attribute by attribute |
| `Read` | `_enqueue_stream`, into the queue that is the session's at that moment |
| `ShellReads`, `ShellEnds` | the shell (external) |

A shell that is killed is gone at once. `Spawn` is both the call of the execution policy
and the assignment of what it returns.

### Indexing

A document stands for its hash. An action is one call to one of the stores, so that a
failure or the end of the process may come between any two.

| Action | Code |
|---|---|
| `Start` | `index` is called with any load, batch size, cleanup mode and `force_update` |
| `Refresh`, `Add`, `UpdateAll` | one batch: `exists` and the refresh, the vector store, all records |
| `ListKeys`, `DeleteStored`, `DeleteKeys`, `NothingOutdated` | the cleanup loops |
| `EndOfLoad` | the end of the batches |
| `AddRaises`, `DeleteRaises`, `UpdateRaises`, `Stop` | a call fails, having done a part of its work, or the run ends between two |
| `ClockBack` | the clock of the record manager is set back |

`faults` says what may go wrong in a history, so that properties that need a
precondition name it.

### RateLimiter

`_consume` is one step, as it holds its lock and reads the clock inside. Credit is
counted in parts of a token. `first`, `granted`, `clipped`, `since` and `taken` are
history variables: the module remembers one period, opened at any moment, for `RateKept`.

## The runs

| Run | Expect | Shows |
|---|---|---|
| `server_models` | pass | `MutualExclusion`, `UsesOpenModel`, `EveryRequestEnds`: all endpoints, two aliases, failing loads and calls, clients that leave |
| `server_queue` | pass | three streams that never end by themselves: `NoChunkLost`, `OuterLockedIffPending`, `EveryRequestServed`, and the refinement `ImplementsFifo` |
| `engine_cache` | pass | `SampledFromRequest`, `TokensDescribeMemory`, `ReusedIsEvictedLast` on an attention model with a RAM cache, some of whose states are too large for it |
| `engine_draft` | pass | `SampledFromRequest`, `SampledRowIsOutput` with drafts of up to three tokens |
| `engine_hybrid` | pass | `MemoryAcceptsBatches` on a memory that cannot be rewound, with a disk cache |
| `engine_faults` | pass | `EveryCompletionEnds` when everything may fail, split characters carry a completion to the end of the context, and rejected drafts stay in the memory |
| `stream` | pass | `TypeOK`, `StopsAreHeldBack`, `StreamIsWhole`, `StreamIsAnswer`, `NothingHeldNeedlessly`: every completion of up to five tokens |
| `stream_max_tokens` | violation | `MaxTokensGenerated`: split characters carry a completion past `max_tokens` |
| `agent_loop` | pass | `TypeOK`, `AnsweredBeforeModel`, `BlockedNeverRuns`, `OnlyApprovedRuns`, `ModelLimitKept`, `ToolLimitKept`, `EveryInvocationEnds` for six agents |
| `shell` | pass | `CodeIsOwn`, `StdoutIsWhole`, `ShellIsFree`, `SessionSurvives`, `NoShellLeft`, `EveryCallReturns` with shells that end, hang or are restarted |
| `indexing` | pass | `RecordedIsStored`, `CompleteWhenDone`, `CleanWhenDone`, `GroupsKept`, `NeverDeletesFresh`, `EveryRunEnds` over three calls of `index` |
| `rate_limiter` | pass | `RateKept`, `CreditKept` over twenty ticks |

The `TypeOK` of `LlamaServer`, `LlamaEngine`, `Indexing`, `RateLimiter` and `ShellSession` is no
property of a run, as the theorems prove it for all constants.

Deadlock is not checked in `stream`, `agent_loop`, `shell` and `indexing`: there the tokens,
invocations, calls and runs are used up and the system rightly stops. That nothing stops
before is what their liveness properties say (`stream` has no concurrency and no loop
without progress).

### Bounds

- *Server.* Two requests suffice for each pairwise property, and two aliases for a
  switch of models; three requests make a queue in which order shows and in which a
  waiting request is cancelled between two others. A request may arrive again and
  again, so histories are unbounded. A channel of one frame is the smallest that
  blocks a sender; what the code does depends on full and empty only.
- *Engine.* Two tokens are enough to tell a matching prefix from another. A context of 4 to
  6 tokens has prompts of several batches, prompts that share part of their prefix with
  what the memory or the cache holds, and completions that reach the end of the context.
  `NBatch` is 1 in `engine_cache`, so that every prompt of two tokens is split; elsewhere
  it leaves room for a batch and a rest. With `Capacity` 2 and a context of 4 the cache
  has to evict, and gets states larger than itself. The drafts of `engine_draft` are longer
  than one token, so that they are accepted in part. `engine_faults` asks for the logits of
  all tokens, as otherwise `ScoresRaise` would end what has outgrown `scores` before the
  context does.
- *Text.* Ten tokens, so that characters lie whole in a token, split over several byte by
  byte, as 1+2 and 2+2 bytes, and two characters lie in one token; characters have up to
  four bytes; stop sequences that overlap
  themselves, lie inside each other, or end in a split character. With `MaxTokens` 4 a
  stop sequence of three characters may start and end anywhere; one more token is what
  a split character may add.
- *Agents.* Six, with the middlewares in different orders and all exit behaviours; two
  tools, one of which needs approval and returns directly; two calls at a time, which is
  one blocked and one not. Three invocations give a resume after a resume and a thread
  that outgrows its limits; `MaxCalls` lies above every limit.
- *Shell.* Two threads and three calls: a call that times out, one that waits behind it,
  and one that uses what is left. Histories with an `exit` or a restart from outside have
  two calls: that is a restart against a command, or two restarts at once, at each step of
  either. `CodeIsOwn` and `EveryCallReturns` are about all of them.
- *Indexing.* Two documents of one source and one of another, so that a batch may split a
  source; batches of one and two, one key per round of cleanup. Three runs: one that
  fails, one that repairs, and one that would skip what is not repaired. Failed deletions
  and failed additions are looked at in separate histories, as their properties are.
- *Rate limiter.* A tick adds two fifths of a token and the bucket holds two and two
  fifths, so that rate, token and bucket are never in step; twenty ticks are eight tokens.
- *Symmetry* over requests or tokens is used by runs of safety properties only.

### Fairness

Temporal properties are checked under what the code's scheduling gives:

- `FairServer`: weak fairness of each request's task. The event loop runs every ready
  task, and every call in the thread pool returns.
- `FairClients`: a client that stays connected reads what it is sent. It is needed: see
  the observations.
- `FairGenerations`: strong fairness of a generation's end, for `max_tokens` and the
  context bound it. `server_queue` leaves it out, since interruption must work
  without it.
- `WF_vars(Run)` in `LlamaEngine`: the thread in a completion goes on until it returns.
  No fairness is assumed of `Start`, `Abandon` and `Embed`, the caller's choices, nor
  of which way a step goes.
- `WF_vars(Step)` in `AgentLoop`: langgraph runs the next node. Nobody has to invoke or
  resume. `EveryInvocationEnds` holds because all six agents limit the model calls of a run.
- `WF_vars(Step(t))` in `ShellSession`: threads run, and deadlines pass, that of a wait
  for a process included. Nothing is asked of
  the shells, which may hang, nor of the readers.
- `WF_vars(Step)` in `Indexing`: a call goes on until it returns or raises.
- `RateLimiter` has no liveness property: among several blocked callers one may be
  overtaken for ever, as each sleeps and tries again.

### What the violation says

`stream_max_tokens`: a token that leaves a character incomplete makes the loop continue
(l.1409) before it compares the number of tokens with `max_tokens` (l.1559), against "The
maximum number of tokens to generate." (l.1825). `multibyte_fix` counts the missing bytes as
missing *tokens*: a character of three bytes in tokens of one and two bytes sets it to two,
so that the token after the whole character is passed over as well. TLC shows a model that
goes on with such characters and is never compared. The completion ends when the
context does (`EveryCompletionEnds`), where `llama_decode` refuses the next token. Where no
token splits a character the comparison is made after every token.

### Observations

Met while modelling, and not shown by a run. Each concerns a case that a property above
excludes by its precondition or an assumption of fairness.

*Server and engine.*
- `app.py:208`: the publisher looks for pending requests only after its `send` returned. With
  a client that stays and reads nothing the channel is full and everybody waits, against the
  comment at `app.py:74`.
- `llama.py:2218`: `load_state` replaces `input_ids` and `n_tokens` first, and the memory last.
  If llama.cpp refuses the saved bytes the call raises, the tokens stay, and the next
  prompt matches them. `embed` has the same gap at `llama.py:1093`. The runs of
  `SampledFromRequest` leave both failures out; `engine_faults` has them.
- `llama.py:475`: a draft model turns on logits for all tokens (l.344) while `scores` gets
  `n_batch` rows unless `logits_all` was asked for: `eval` raises (`ScoresRaise`).
- `llama.py:990`: the result of `kv_cache_seq_rm` is ignored after a rejected draft; on a
  recurrent or hybrid model the next batch is refused. Of the runs only `engine_faults` combines the two.
- `llama.py:1350`: a cached state is compared by its whole array, also behind its
  `n_tokens`, so restoring one can shorten what is reused.
- `llama_cache.py:96`: a state larger than the RAM cache evicts all others and then itself.
- A recurrent or hybrid model evaluates a whole prompt again unless it extends what the
  memory holds, a shared system prompt included.

*Text of a completion.*
- Of several stop sequences the call without stream cuts at the first of the list, the stream
  at the earliest of the text; `StreamIsAnswer` is about at most one.
- The final flush decodes token by token: a split character still held then is lost.
- A token that is passed over (see the violation) may complete a stop sequence; if the
  generation ends there, the answer without stream contains it.

*Agent.*
- A resume is a new invocation and begins with run counts of zero.
- The count of model calls of a thread is raised in `after_model`: a middleware that stands
  later in the list, and so runs earlier, skips it when it ends the run or raises.
- `ToolCallLimitMiddleware` counts calls as they are when it runs; before a review in time
  it counts what may then be rejected or edited to another tool.
- With `exit_behavior` "end" and no tool name, calls that were allowed stay unanswered.
- A call may be answered twice, by the human and by the limit; it never runs then.
- `factory.py:1920` ends a run when structured output did not parse and another tool ran in
  the same batch, though a retry was asked for; `factory.py:1858` does so when an earlier
  invocation left a `structured_response` in the state.

*Shell.*
- The deadline starts before the lock is taken (l.224): a call that waited is written to the
  shell and may time out at once, which kills the shell.
- The process is looked at before the lock is taken (l.219): if another call's `exit` ends the
  shell meanwhile, the waiting call returns that exit code though its command never ran.
- `restart` between a command and its marker: the marker reaches the fresh shell and reports 0.
- After a restart, lines from the old shell may precede the output of the next command.
- Two restarts at once: one may find that the other has set `self._process` to None and raise
  (l.207 among other places), with the new stdin closed behind it and no process in the
  session, which then refuses every command. Or both start a shell: the first one is never
  stopped, and its attributes mix with those of the second, so that one pipe has two
  readers and the other none, or a reader is started twice, which raises.

*Indexing.*
- `core/indexing/base.py:301` and `304`: `InMemoryRecordManager.update` reads the clock to test
  it and again to store it, for each key. A clock set back between the two stores a record
  older than the start of the run, which cleanup then deletes; if it raises in the middle,
  some of the keys are updated. `SQLRecordManager`, which is modelled, reads the clock once
  and writes all keys in one transaction.
- The refresh (l.528) sets the group to None until the update behind it; if adding fails in
  between, incremental cleanup never finds the record again.
- The comments at l.577 to 580 and l.592 to 594 disagree on the order of the deletions; the
  code deletes from the store first. A failure in between leaves a record whose document is
  gone and which later runs skip, until it changes.
- A failed `add_documents` leaves documents without a record, which no cleanup finds.

## The proofs

TLC shows the properties on the instances above; the theorems hold for every value of
the constants that satisfies the modules' assumptions.

`LlamaServerProofs`, for any number of requests, aliases and any channel:

- `LocksCorrect`: types and `LockInvariant`. The invariant says who is in which lock from
  where the tasks are suspended: who is past the inner lock owns it, who waits for
  it owns the outer lock, the rest waits in the queue of the outer one, and nobody
  is twice in a queue. It is inductive; `MutualExclusion` is not, because that two
  tasks are not both past a lock says nothing of what its queue will hand over. The
  lemmas say what `Acquire`, `Release` and `Withdraw` do to the holders of a lock, and
  there is one lemma for each action.
- `ServerMutualExclusion`, `OuterLockTellsPending`: both follow from it.
- `HandlersUseOpenModel`: with mutual exclusion, no other handler can switch the model.
- `ServerImplementsFifo`: the server refines `FifoServer`. Those who wait are the
  holders of the outer lock in their order, and who is served is the owner of the inner one
  once it is past both; there is one lemma per kind of step, which shows that it is the
  abstract step or a stutter. A stream that is cut relies on `OuterLockTellsPending`.
- `ServerLosesNoChunk`: `ChunksKept` says that what is owed to a client is in its channel or in
  the publisher's hands, and that the last frame stands behind all chunks.

`LlamaEngineProofs`, for any vocabulary, context, batch size, cache, kind of memory and
length of drafts, under `Faults \subseteq {"decode"}`, that is, when neither
`load_state` nor `embed` fails halfway:

- `Invariance`: the inductive invariant `Inv`, in three parts. `MemoryOK`: `input_ids`
  agrees with the memory up to `n_tokens`. `CacheOK`: so does each saved state.
  `CallOK`: types and `Progress`, which says for each phase how much of the
  request is in `input_ids` and how much is still in the batch, and is what
  connects `sample_idx`, kept by the loop on its own, with `n_tokens`.
- `SampledFromRequestHolds`, `TokensDescribeMemoryHolds`, `EngineTypesHold` follow from it.

The assumption is needed: a `load_state` that fails halfway leaves tokens that do not
describe the memory. Two more invariants stand on `Inv`:

- `RowsOK`, how many rows the last decode put out and where `sample_idx` lies among them,
  gives `SampledRowIsOutputHolds`. It assumes `MaxDraft < NBatch`: the first tokens of a
  longer draft are in an earlier batch, whose rows the model no longer has. The defaults
  are ten drafted tokens and a batch of 512.
- `FitsOK`, that what is evaluated and what is yet to be fits the context and follows the
  memory, gives `MemoryAcceptsBatchesHolds`. It assumes `MaxOpen = 0` and
  `Hybrid => MaxDraft = 0`. Both are needed: a token that leaves a character incomplete
  carries a completion past `max_tokens` and so past the context (see the violation), and
  a rejected draft is not removed from a memory that cannot be rewound (see the
  observations). The model admits both; the theorem says what holds without them.

`ReusedIsEvictedLastHolds` needs, next to `Inv`, `Favoured`: while a completion runs, the last state of
a RAM cache shares most with its prompt, as the lookup moves it there and nothing touches the
cache until the new state is saved. `BestSharesMost` says that the lookup finds such a state;
`KeptShareMost` that what the new state leaves of the others ends with the last of them.
`PrefixLenOfMore`: if an older state of the same tokens is replaced by the new one, that shares
no less, for its tokens extend the prompt.

The lemmas before the actions give what is used of `Min`, `PrefixLen`, `SubSeq`, of the cache
operators (they return and keep nothing but what was stored) and of the memory
(`TrimKeeps`, `DecodedFollows`).

`IndexingProofs`, for any documents, sources, loaders and sizes of batches:

- `Invariance`: the inductive invariant `Inv`. `FreshOK` says that what the run has handled
  is not older than its start; `StoredOK` follows a document on its way from the batch
  through the store to the records; `GroupOK` says which records may be without their
  group. `CompleteWhenDone` is not inductive without the first two: a document of the
  load must not be outdated when a later cleanup looks for it.
- `IndexTypes`, `RecordsAreStored`, `DoneIsComplete`, `GroupsAreKept` and `CleanupSparesFresh`
  (an action property) follow from it. The last is about the batch in work too, and holds even
  if the clock is set back: then `update` raises, before it writes. `DoneIsComplete` is about
  histories without a failed deletion, as the property is (see the observations).
- `DoneIsClean`: `CleanOK` stands on `Inv`. `ForwardOK`: the start of a run lies behind all that
  earlier runs recorded. `OnlyRecorded`: what is stored has a record or gets one next.
  `FreshIsLoaded`: what the run recorded is of its load. `SourcesClean`: incremental cleanup
  has left nothing old of the sources it has come past. It speaks of histories without
  failed additions and with a clock that only goes forward, as the property does.

`RateLimiterProofs`, for any rate, bucket and length of ticks:

- `Invariance`: `CreditKept` is the balance since the first call, `Spendings` that of a
  period. A period in which no credit was added yet lives on what was there before, and
  the credit from before it that is still to come is less than a token if one was taken;
  that is the case in which the bound could be missed by one.
- `LimiterTypes`, `RateIsKept`, `CreditIsKept` follow from it.

`ShellSessionProofs`, for any finite number of threads and any number of calls:

- `Invariance`: the inductive invariant `IInv`. Three parts hold in every history. `Base`: types;
  who is between lock and return holds the lock; a call spawns at most one process, so there is
  a number for each. `NumbersOK`: a command that is yet to be written has its marker nowhere, in no
  input, pipe or queue. `StatusOK`: in the input of a shell every marker follows its own command
  or an `exit`, or comes first while the status is that of its command or, after a restart from
  outside, 0; so would the marker that is written next. Of a queue alone `CodeIsOwn` would not be
  inductive.
- Two parts are for histories without a restart from outside. There only the owner of the lock
  stops and starts the session, and `Spot` is where it is. `Attr`: which attributes belong to the
  last process, and which are still those of the one before, at each step of `stop` and `start`.
  `Sess`: that process is the only one that runs, and while its call waits nothing is behind its
  marker; hence nothing is left to read once the lock is free.
- `ShellTypes`, `CodesAreOwn`, `ShellsAreFree` and `NoShellsLeft` follow from it. `ShellTypes` says of two
  restarts at once what is left to say: a process the session has is the last that was spawned,
  while its stdin, queue and reader may be those of an older one.
- `SessionsSurvive`: the shell runs and has nothing before it that ends it (`Lives`), unless the
  owner of the lock is on its way from telling it to go to the next process (`Survives`). The
  rest, that stdin is open and belongs to it and that its output is read, is in `Attr`.
- `OutputIsWhole`: while a call waits for its marker, what its command printed is collected
  already, or it is ahead of the marker: in the queue, in the pipe of the same shell, or about
  to be printed by the item in front of the marker (`Follows`). The queue that is read is the
  session's (`Whole`), which nobody replaces while the lock is held. The invariants were checked
  with TLC before they were proved.

`AgentLoopProofs`, for any set of agents, that is, any list of the modelled hooks in any
order with any limits and exit behaviours, any tools and any number of calls at once:

- `Invariance`: the inductive invariant `IInv`, with one lemma for each of its parts, which
  goes through all actions. `ControlOK`: where the graph may be, and between which of the
  last messages. `MessagesOK`: turns only grow, and the ids of calls tell the messages
  apart. `AnswersOK`: an AI message that is not the last of its run has all its calls
  answered. `OnceOK`: a tool runs what has no answer after the last AI message, so nothing
  is run twice. `ApprovedOK`: a call of a guarded tool that is past the review is approved,
  wherever the review stands: `Past` says which hooks a message has behind it.
  `RunModelOK`, `ThreadModelOK`, `ToolCountOK` compare the counters with the messages;
  between the model and the hook that counts it, or between the hook that counts the calls
  and the tools that run them, they differ by what is still due (`Due`).
- `AgentTypes`, `ModelSeesAnswers`, `CallsRunOnce`, `RunsAreApproved`, `ModelLimitHolds` and
  `ToolLimitHolds` follow from it. The preconditions of the last two are those of the
  properties: that no other hook ends a run before the model calls are counted, and that
  calls are counted after the review.

`CompletionStreamProofs`, for any vocabulary, any stop sequences that are text (`StopsAreText`:
the code encodes a `str`; without it a stop sequence could begin inside a character, and
the flush would drop the pieces in front of it) and any `max_tokens`:

- `StreamInvariant`: the inductive invariant `IInv`, checked with TLC before it was proved, with
  one lemma per action. `SentInv`: in the loop the chunks are exactly the bytes of the tokens
  returned, and `Free` of stop sequences: at none of their positions can one begin, for each
  differs from the text in a byte that is already there. That is stronger than that no stop
  sequence has been found, and is what survives further tokens; `FreeOfMore` shows that
  holding back as much as `first_stop_position` keeps it. `LookedInv`: where stop sequences
  are looked for none is found. `WholeInv`: if no token splits a character no byte is ever
  missing, so they are looked for at every token. `FlushInv`, `DoneInv` and `AnswerInv`: the
  flush, which searches the held text only, ends at the earliest stop sequence of all of it.
- `HeldInv`: the loop over the chunks is left when none may be sent. `ChunksAreSentAtOnce` shows
  what that means: what is held back is the beginning of a stop sequence, and the text goes on
  with the rest of it in some continuation, where the earliest stop sequence begins in the
  characters held.
- `StreamTypes`, `StopsHeldBack`, `StreamHasAllText`, `StreamHasSameAnswer` and
  `ChunksAreSentAtOnce` follow from it.

The lemmas before it are about the operators. `BytesOfHalves`: the bytes of a sequence of tokens
are those of its first tokens and of the others; the recursive function of `FlattenSeq`
is characterised by its `Parts`. `ConcatIsDecodable`, `CutIsDecodable`:
characters behind characters are characters, and so is a text cut where none is
continued. `DecodedIsDecodable`: dropping the bytes of broken characters leaves whole ones, since
the bytes of a character stay next to one another (`Rank`, `RankIsOnto`). `StopInRest`: the earliest
stop sequence may be looked for behind what is free of them.

Only model-checked: every liveness property, which is out of the prover's reach. Every
invariant and action property of the passing runs is a theorem, within the assumptions above.

## What is abstracted, and what is not modelled

- In `LlamaEngine` stop sequences end a completion at any token, and characters may stay
  incomplete for up to three; the text itself is in `CompletionStream`, without log
  probabilities, suffix, echo and `stopping_criteria`.
- Sampling is a choice. Which tokens end a generation is left open: every sample may.
- Empty prompts are left out; the code counts a BOS token as the first of their completion.
- `scores` is modelled by its number of rows, not by its values.
- Purely recurrent models. Their memory has no limit of positions, so that nothing refuses the
  token behind the end of the context: a completion of nothing but broken characters, for which
  `max_tokens` is not looked at (see the violation), would have no end. The memory of `Hybrid`
  cannot be rewound either, but ends at `NCtx`.
- Rollback snapshots of llama.cpp (`n_rs_seq`) are 0 by default and left out.
- `SampledRowIsOutput` is checked with drafts shorter than a batch; the repository's
  default of ten drafted tokens and a batch of 512 are such.
- The model's file, its loading and `LlamaProxy.free`; settings, schemas, chat formats,
  grammars and the command line: no state that outlives a call.
- Agents: hooks before and after the whole agent, wrappers around model and tool calls,
  `ProviderStrategy`, agents without tools, several instances of a middleware, the
  predicate `when` of a review, and all other middlewares. Tools of one superstep run in
  parallel in the code and answer together in the model, as langgraph writes at its end.
- Shell: stderr and the 50 ms for which it is drained, end-of-file marks, truncation,
  redaction, startup and shutdown commands, finalizers. The reader thread of stderr is created,
  which may raise, but not started: raising there changes only how a restart ends.
- Indexing: hashing, documents without a source, a loader that changes while it is read,
  two calls of `index` at once, record managers other than `SQLRecordManager` (see the
  observations for the one in memory). `aindex`
  and the async hooks repeat their counterparts.
- Rate limiter: floating point and its rounding.
- The rest of LangChain (runnables, callbacks, tracers, messages, prompts, output parsers,
  integrations, text splitters, the classic package): interfaces, data conversions and
  clients of remote services, by far the largest part of the repository by lines. Nothing
  in them is shared with the components above but their types. `llama_cpp.py`, types and
  settings of the server are declarations; `llama_chat_format.py` and `llama_grammar.py`
  turn text into text. llama.cpp is vendored, and modelled as far as `llama.py` relies on it.

## Plan

1. An abstract completion service without memory, which `LlamaEngine` implements as long
   as nothing fails halfway.
2. `PromptLookup` against a reference definition.
3. Hooks before and after the agent together with `ShellSession`, whose resources they own;
   retry and fallback around the model.

New runs replace those of settled questions where the set of runs grows too long.
