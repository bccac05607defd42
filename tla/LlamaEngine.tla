----------------------------- MODULE LlamaEngine -----------------------------
(***************************************************************************)
(* One Llama object of llama_cpp/llama.py: completions that reuse the KV   *)
(* memory of the one before, restore cached states, evaluate prompts batch *)
(* by batch and sample with speculative drafts.  The object is used by one *)
(* thread at a time (see LlamaServer), so an action is what lies between   *)
(* two points at which the code may fail or its caller may stop it.        *)
(***************************************************************************)
EXTENDS Integers, LlamaCache

CONSTANTS
  Token,      \* the vocabulary; which of its tokens end a generation is left open
  Hole,       \* what the memory holds where nothing was evaluated
  NCtx,       \* the context length n_ctx
  NBatch,     \* n_batch
  Hybrid,     \* a hybrid model: half of its memory cannot be rewound, the other half
              \* ends at n_ctx like that of an attention model
  LogitsAll,  \* logits_all
  MaxDraft,   \* longest draft of the draft model; 0 stands for no draft model
  MaxOpen,    \* most tokens that may still be missing to a character (3 in UTF-8)
  Faults      \* what may fail: "decode", "load", "embed"

ASSUME EngineAssumption ==
  /\ Hole \notin Token
  /\ NCtx \in Nat \ {0} /\ NBatch \in 1 .. NCtx
  /\ MaxDraft \in Nat /\ MaxOpen \in 0 .. 3 /\ Capacity \in Nat
  /\ Hybrid \in BOOLEAN /\ LogitsAll \in BOOLEAN
  /\ Faults \subseteq {"decode", "load", "embed"}

VARIABLES
  ids,     \* input_ids, all n_ctx of them
  n,       \* n_tokens
  kv,      \* the memory of sequence 0: the token evaluated at each position
  cache,   \* the saved states
  phase,   \* where the running completion is
  prompt,  \* its prompt_tokens
  limit,   \* its max_tokens, truncated to the context
  out,     \* its completion_tokens
  open,    \* bytes missing to the last character (multibyte_fix)
  pend,    \* tokens given to eval() and not yet evaluated
  idx,     \* sample_idx
  tok,     \* the token just sampled
  rows     \* number of tokens in the last decoded batch

memory == <<ids, n, kv>>
call   == <<prompt, limit, out, open>>
loop   == <<pend, idx, tok, rows>>
vars   == <<ids, n, kv, cache, phase, prompt, limit, out, open, pend, idx, tok, rows>>

Phase == {"idle", "match", "eval", "sample", "yield", "chunk", "resume"}

\* _input_ids
Live == SubSeq(ids, 1, n)

Prompts == UNION {[1 .. k -> Token] : k \in 1 .. NCtx - 1}

------------------------------------------------------------------------------
(* The memory of llama.cpp as llama.py drives it *)

\* kv_cache_seq_rm(-1, p, -1) fails on a memory that cannot be rewound.
CanTrim(mem, p) == ~(Hybrid /\ 0 < p /\ p < Len(mem))

Trim(mem, p) == IF CanTrim(mem, p) THEN SubSeq(mem, 1, Min({p, Len(mem)})) ELSE mem

\* llama_decode wants a batch to follow the last position it holds, and room for
\* it; an empty memory takes any position.
Accepts(mem, p, batch) ==
  /\ mem = << >> \/ Len(mem) = p
  /\ p + Len(batch) <= NCtx

Decoded(mem, p, batch) == [i \in 1 .. p |-> IF i \in DOMAIN mem THEN mem[i] ELSE Hole] \o batch

------------------------------------------------------------------------------

Init ==
  /\ ids \in [1 .. NCtx -> Token]      \* np.ndarray: whatever the memory held
  /\ n = 0 /\ kv = << >> /\ cache = << >>
  /\ phase = "idle"
  /\ prompt = << >> /\ limit = 0 /\ out = << >> /\ open = 0
  /\ pend = << >> /\ idx = 0 /\ tok = Hole /\ rows = 0

\* The call is over, by a return, an exception or the end of its consumer.
Over ==
  /\ phase' = "idle"
  /\ prompt' = << >> /\ limit' = 0 /\ out' = << >> /\ open' = 0
  /\ pend' = << >> /\ idx' = 0 /\ tok' = Hole /\ rows' = 0

Load_TokensOnly(e) ==
  /\ ids' = e.ids /\ n' = e.n /\ kv' = kv /\ phase' = "match"

\* load_state: the tokens are replaced before the memory, and stay replaced when
\* the memory cannot be restored.
Load(e) ==
  /\ ids' = e.ids /\ n' = e.n
  /\ \/ kv' = e.kv /\ phase' = "match"
     \/ "load" \in Faults /\ kv' \in {kv, << >>} /\ phase' = "idle"

\* The test for restoring a cached state.  What is compared of its tokens is the
\* whole array, with what was left behind n_tokens.
Beats(e, p) == PrefixLen(e.ids, p) > PrefixLen(Live, p)

\* _create_completion up to its call of generate: the arguments are checked, and
\* the cached state with the longest prefix is restored if it beats the memory.
Start(p, m) ==
  /\ phase = "idle"
  /\ \/ Best(cache, p) = {} /\ phase' = "match" /\ UNCHANGED <<memory, cache>>
     \/ \E i \in Best(cache, p) :
          /\ cache' = Taken(cache, i)
          /\ IF Beats(cache[i], p)
               THEN Load(cache[i])
               ELSE phase' = "match" /\ UNCHANGED memory
  /\ IF phase' = "idle"
       THEN UNCHANGED <<prompt, limit>>
       ELSE /\ prompt' = p
            /\ limit' = IF m + Len(p) < NCtx THEN m ELSE NCtx - Len(p)
  /\ UNCHANGED <<out, open, loop>>

Match_IgnoresRecurrent ==
  LET kept == PrefixLen(Live, Front(prompt)) IN
  /\ phase = "match"
  /\ n' = kept
  /\ kv' = Trim(kv, kept)
  /\ pend' = SubSeq(prompt, n' + 1, Len(prompt))
  /\ idx' = Len(prompt) - 1
  /\ phase' = "eval"
  /\ UNCHANGED <<ids, cache, call, tok, rows>>

Match_WholePrompt ==
  LET kept == PrefixLen(Live, prompt) IN
  /\ phase = "match"
  /\ n' = kept
  /\ kv' = Trim(kv, kept)
  /\ pend' = SubSeq(prompt, n' + 1, Len(prompt))
  /\ idx' = Len(prompt) - 1
  /\ phase' = "eval"
  /\ UNCHANGED <<ids, cache, call, tok, rows>>

\* generate: what of the memory is a prefix of the prompt is kept.
Match ==
  LET common == PrefixLen(Live, Front(prompt))
      kept   == IF Hybrid /\ common < n THEN 0 ELSE common
  IN
  /\ phase = "match"
  /\ IF kept > 0 /\ CanTrim(kv, kept)
       THEN /\ n' = kept
            /\ kv' = Trim(kv, kept)
       ELSE /\ n' = 0                                   \* reset()
            /\ kv' = IF Hybrid THEN << >> ELSE kv
  /\ pend' = SubSeq(prompt, n' + 1, Len(prompt))
  /\ idx' = Len(prompt) - 1
  /\ phase' = "eval"
  /\ UNCHANGED <<ids, cache, call, tok, rows>>

------------------------------------------------------------------------------
(* eval: one batch at a time *)

Batch == SubSeq(pend, 1, Min({NBatch, Len(pend)}))

\* With a draft model every row of logits is copied to scores, which has n_ctx rows
\* only when logits_all was given.
ScoresFit(p) == MaxDraft = 0 \/ LogitsAll \/ p <= NBatch

\* kv_cache_seq_rm at the head of eval: nothing changes for the later batches.
Base == Trim(kv, n)

Written == [i \in 1 .. NCtx |-> IF i \in n + 1 .. n + Len(Batch) THEN Batch[i - n] ELSE ids[i]]

Eval ==
  /\ phase = "eval"
  /\ Accepts(Base, n, Batch)
  /\ ScoresFit(n + Len(Batch))
  /\ kv' = Decoded(Base, n, Batch)
  /\ ids' = Written
  /\ n' = n + Len(Batch)
  /\ rows' = Len(Batch)
  /\ pend' = SubSeq(pend, Len(Batch) + 1, Len(pend))
  /\ phase' = IF pend' = << >> THEN "sample" ELSE "eval"
  /\ UNCHANGED <<cache, call, idx, tok>>

\* The batch was decoded and its tokens saved, but its logits do not fit.
ScoresRaise ==
  /\ phase = "eval"
  /\ Accepts(Base, n, Batch)
  /\ ~ScoresFit(n + Len(Batch))
  /\ kv' = Decoded(Base, n, Batch)
  /\ ids' = Written
  /\ Over
  /\ UNCHANGED <<n, cache>>

DecodeRaises_Retries ==
  /\ phase = "eval"
  /\ ~Accepts(Base, n, Batch)
  /\ UNCHANGED vars

\* llama_decode refuses the batch, or fails in one of its parts.
DecodeRaises ==
  /\ phase = "eval"
  /\ \/ ~Accepts(Base, n, Batch) /\ kv' = Base
     \/ /\ Accepts(Base, n, Batch)
        /\ "decode" \in Faults
        /\ \E k \in 0 .. Len(Batch) - 1 :
             kv' = IF k = 0 THEN Base ELSE Decoded(Base, n, SubSeq(Batch, 1, k))
  /\ Over
  /\ UNCHANGED <<ids, n, cache>>

------------------------------------------------------------------------------
(* The sampling loop of generate and the loop over its tokens *)

Sample ==
  /\ phase = "sample"
  /\ tok' \in Token
  /\ idx' = idx + 1
  /\ phase' = "yield"
  /\ UNCHANGED <<memory, cache, call, pend, rows>>

\* _create_completion returns; the state is saved under prompt and completion.
Finish(o) ==
  /\ cache' = Stored(cache, [key |-> prompt \o o, ids |-> ids, n |-> n, kv |-> kv,
                             size |-> Len(kv)])
  /\ Over
  /\ UNCHANGED memory

\* The sampled token ends the generation.
EndOfGeneration == phase = "sample" /\ Finish(out)

\* The token is appended.  The scan of the last bytes may find that some are missing
\* to a character, or leave multibyte_fix as it was; while it is not 0 nothing else
\* is looked at.  Then a stop sequence or max_tokens ends the completion.
Consume ==
  LET o == Append(out, tok) IN
  /\ phase = "yield"
  /\ \E missing \in {open} \cup 1 .. MaxOpen :
       \/ /\ missing > 0 \/ Len(o) < limit
          /\ out' = o
          /\ open' = IF missing > 0 THEN missing - 1 ELSE 0
          /\ phase' = IF missing > 0 THEN "resume" ELSE "chunk"
          /\ UNCHANGED <<memory, cache, prompt, limit, loop>>
       \/ missing = 0 /\ Finish(o)

\* The consumer of a stream closes the generator at one of its chunks, the last
\* ones, which follow the last token, included: nothing is saved.
Abandon ==
  /\ phase \in {"sample", "yield", "chunk"}
  /\ phase = "yield" => open = 0
  /\ Over
  /\ UNCHANGED <<memory, cache>>

\* What is taken of a draft: as much as the context has room for.  At the end of the
\* context the bound is -1, which takes all but the last token.
DraftRoom == IF n' < NCtx THEN Min({MaxDraft, NCtx - n' - 1}) ELSE MaxDraft - 1

Draft == UNION {[1 .. k -> Token] : k \in 0 .. DraftRoom}

Resumed == phase \in {"chunk", "resume"}

\* generate goes on: a token that was drafted and evaluated is taken as it is; any
\* other one is evaluated next, with what the draft model makes of it, and what
\* was drafted in its place is removed.  The draft model finds the token in input_ids,
\* unless that is full.
AcceptDrafted ==
  /\ Resumed
  /\ idx < n /\ tok = ids[idx + 1]
  /\ phase' = "sample"
  /\ UNCHANGED <<memory, cache, call, loop>>

Continue_KeepsDrafted ==
  /\ Resumed
  /\ \/ idx < n /\ tok # ids[idx + 1]
     \/ idx >= n
  /\ n < NCtx /\ n' = n
  /\ ids' = [ids EXCEPT ![n + 1] = tok]
  /\ \E d \in Draft : pend' = <<tok>> \o d
  /\ phase' = "eval"
  /\ UNCHANGED <<kv, cache, call, idx, tok, rows>>

Continue ==
  /\ Resumed
  /\ \/ idx < n /\ tok # ids[idx + 1] /\ n' = idx /\ kv' = Trim(kv, idx)
     \/ idx >= n /\ UNCHANGED <<n, kv>>
  /\ IF MaxDraft > 0
       THEN /\ ids' = [i \in 1 .. NCtx |-> IF i = n' + 1 THEN tok ELSE ids[i]]
            /\ \E d \in Draft : pend' = <<tok>> \o d
       ELSE pend' = <<tok>> /\ UNCHANGED ids
  /\ phase' = "eval"
  /\ UNCHANGED <<cache, call, idx, tok, rows>>

------------------------------------------------------------------------------

\* embed: the memory is cleared for each batch of texts and at the end; the tokens
\* are only reset at the end.  What is left in sequence 0 when it fails before is the
\* first text of a batch, or what of it was decoded.
Embed ==
  /\ phase = "idle"
  /\ \/ n' = 0 /\ kv' = << >>
     \/ /\ "embed" \in Faults
        /\ kv' \in {<< >>} \cup {p \in Prompts : Len(p) <= NBatch}
        /\ UNCHANGED n
  /\ UNCHANGED <<ids, cache, phase, call, loop>>

------------------------------------------------------------------------------

Run ==
  \/ Match \/ Eval \/ ScoresRaise \/ DecodeRaises \/ Sample \/ EndOfGeneration
  \/ Consume \/ AcceptDrafted \/ Continue

Next == Run \/ Abandon \/ Embed \/ \E p \in Prompts, m \in 1 .. NCtx : Start(p, m)

Spec == Init /\ [][Next]_vars

\* The thread that runs a completion goes on until it returns.
FairSpec == Spec /\ WF_vars(Run)
=============================================================================
