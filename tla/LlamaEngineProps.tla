--------------------------- MODULE LlamaEngineProps ---------------------------
(***************************************************************************)
(* What is checked of LlamaEngine.                                         *)
(***************************************************************************)
EXTENDS LlamaEngine

TokenSeq == Seq(Token)
Array    == [1 .. NCtx -> Token]
Memory   == {m \in Seq(Token \cup {Hole}) : Len(m) <= NCtx}
State    == [key : TokenSeq, ids : Array, n : 0 .. NCtx, kv : Memory, size : Nat]

\* Every variable keeps to its type: no batch outgrows n_batch, and neither tokens
\* nor memory the context.
TypeOK ==
  /\ ids \in Array /\ n \in 0 .. NCtx /\ kv \in Memory
  /\ cache \in Seq(State)
  /\ phase \in Phase
  /\ prompt \in TokenSeq /\ limit \in 0 .. NCtx /\ out \in TokenSeq /\ open \in 0 .. MaxOpen
  /\ pend \in TokenSeq /\ idx \in 0 .. NCtx /\ tok \in Token \cup {Hole} /\ rows \in 0 .. NBatch

\* generate: a token is only ever sampled from the logits of exactly the prompt and
\* the tokens generated so far, whatever was reused from the memory, restored from
\* the cache or drafted before.
SampledFromRequest ==
  phase = "sample" => SubSeq(kv, 1, idx + 1) = prompt \o out

Describes(i, k, m) == k <= Len(m) /\ SubSeq(m, 1, k) = SubSeq(i, 1, k)

\* input_ids always tells what the memory holds up to n_tokens, whatever ended the
\* last call, and so does every state in the cache: what the prefix match relies on.
TokensDescribeMemory ==
  /\ Describes(ids, n, kv)
  /\ \A i \in DOMAIN cache : Describes(cache[i].ids, cache[i].n, cache[i].kv)

\* The memory never refuses what eval gives it: it follows the position the memory
\* has reached and fits the context.
MemoryAcceptsBatches == phase = "eval" => Accepts(Base, n, Batch)

\* The row sampled from is one that llama_decode left logits for: one of the last
\* batch, the last of it unless logits were asked for all of its tokens.
SampledRowIsOutput ==
  phase = "sample" =>
    idx < n /\ n - idx <= IF MaxDraft > 0 \/ LogitsAll THEN rows ELSE 1

Keys(c) == {c[i].key : i \in DOMAIN c}

\* LlamaRAMCache: when the state of a completion is saved and others have to go, the
\* saved states that share most with its prompt go last, for it is from them that the
\* completion was restored or could have been.  They are moved to the end when the
\* completion starts, and evicted from the other end when it is over.
ReusedIsEvictedLast ==
  [][~OnDisk /\ phase # "idle" /\ Keys(cache) \cap Keys(cache') # {} =>
       \E k \in Keys(cache) \cap Keys(cache') :
         \A old \in Keys(cache) : PrefixLen(old, prompt) <= PrefixLen(k, prompt)]_vars

\* Every completion comes to an end, whatever fails on the way and however long the
\* characters of its text stay incomplete.
EveryCompletionEnds == phase # "idle" ~> phase = "idle"

------------------------------------------------------------------------------
(* The inductive invariant behind SampledFromRequest *)

Context == prompt \o out

Evaluated(k) == \A i \in 1 .. k : ids[i] = Context[i]

\* How far the running completion is: the context up to the token to be sampled next
\* is in input_ids, or on its way there.
Progress ==
  /\ phase \in {"idle", "match"} => out = << >>
  /\ phase = "match" => prompt # << >> /\ Len(prompt) < NCtx
  /\ phase = "eval" =>
       /\ idx + 1 = Len(Context) /\ idx < n + Len(pend) /\ pend # << >>
       /\ \A i \in 1 .. idx + 1 : Context[i] = IF i <= n THEN ids[i] ELSE pend[i - n]
  /\ phase = "sample" => idx + 1 = Len(Context) /\ idx < n /\ Evaluated(idx + 1)
  /\ phase = "yield" => idx = Len(Context) /\ idx <= n /\ Evaluated(idx) /\ tok \in Token
  /\ phase \in {"chunk", "resume"} =>
       idx + 1 = Len(Context) /\ idx <= n /\ Evaluated(idx) /\ Context[idx + 1] = tok
=============================================================================
