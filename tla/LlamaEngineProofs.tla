--------------------------- MODULE LlamaEngineProofs ---------------------------
(***************************************************************************)
(* Proofs about LlamaEngine: as long as neither load_state nor embed fails *)
(* halfway, every token is sampled from its own request, for any context   *)
(* length, batch size, cache, kind of memory and draft model.              *)
(***************************************************************************)
EXTENDS LlamaEngineProps, ProofLemmas, SequenceTheorems, FiniteSetTheorems, TLAPS

-----------------------------------------------------------------------------
(* Common prefixes *)

\* longest_token_prefix returns a length over which both sequences agree.
LEMMA PrefixLenAgrees ==
  ASSUME NEW S, NEW a \in Seq(S), NEW b \in Seq(S)
  PROVE  /\ PrefixLen(a, b) \in Nat
         /\ PrefixLen(a, b) <= Len(a) /\ PrefixLen(a, b) <= Len(b)
         /\ \A i \in 1 .. PrefixLen(a, b) : a[i] = b[i]
  <1> DEFINE m == Min({Len(a), Len(b)})
             K == {k \in 0 .. m : \A i \in 1 .. k : a[i] = b[i]}
  <1>1. m \in Nat /\ m <= Len(a) /\ m <= Len(b)
    BY MinOfTwo, LenProperties
  <1>2. 0 \in K
    BY <1>1
  <1>3. Max(K) \in K
    <2> HIDE DEF m
    <2>1. K \in SUBSET (0 .. m) /\ K # {}
      BY <1>2
    <2> HIDE DEF K
    <2> QED BY <1>1, <2>1, GreatestElement
  <1>4. PrefixLen(a, b) = Max(K)
    BY DEF PrefixLen
  <1> HIDE DEF m
  <1> QED BY <1>1, <1>3, <1>4

-----------------------------------------------------------------------------
(* The cache returns and keeps nothing but what was stored *)

LEMMA RemoveAtKeeps ==
  ASSUME NEW S, NEW c \in Seq(S), NEW i \in 1 .. Len(c)
  PROVE  RemoveAt(c, i) \in Seq(S)
  <1>1. SubSeq(c, 1, i - 1) \in Seq(S) /\ SubSeq(c, i + 1, Len(c)) \in Seq(S)
    BY SubSeqOf, LenProperties
  <1> QED BY <1>1, ConcatProperties DEF RemoveAt

LEMMA TakenKeeps ==
  ASSUME NEW S, NEW c \in Seq(S), NEW i \in 1 .. Len(c)
  PROVE  Taken(c, i) \in Seq(S)
  <1>1. RemoveAt(c, i) \in Seq(S)
    BY RemoveAtKeeps
  <1>2. c[i] \in S
    BY ElementOfSeq
  <1> QED BY <1>1, <1>2, AppendProperties DEF Taken

LEMMA StoredKeeps ==
  ASSUME NEW S, NEW c \in Seq(S), NEW e \in S
  PROVE  Stored(c, e) \in Seq(S)
  <1> DEFINE same    == {i \in DOMAIN c : c[i].key = e.key}
             others  == IF same = {} THEN c ELSE RemoveAt(c, Min(same))
             all     == Append(others, e)
             kept(k) == SubSeq(all, k + 1, Len(all))
             enough  == {k \in 0 .. Len(all) : k = Len(all) \/ Size(kept(k)) <= Capacity}
  <1>1. others \in Seq(S)
    <2>1. DOMAIN c = 1 .. Len(c) /\ Len(c) \in Nat
      BY LenProperties
    <2>2. same # {} => Min(same) \in 1 .. Len(c)
      <3>1. same \in SUBSET Nat /\ same \subseteq 1 .. Len(c)
        BY <2>1
      <3> HIDE DEF same
      <3> QED BY <3>1, LeastElement
    <2> HIDE DEF same
    <2> QED BY <2>2, RemoveAtKeeps
  <1>2. all \in Seq(S) /\ Len(all) \in Nat
    <2> HIDE DEF others
    <2> QED BY <1>1, AppendProperties, LenProperties
  <1>3. Min(enough) \in 0 .. Len(all)
    <2> HIDE DEF all
    <2>1. Len(all) \in enough
      BY <1>2
    <2>2. enough \in SUBSET Nat /\ enough # {} /\ enough \subseteq 0 .. Len(all)
      BY <1>2, <2>1
    <2> HIDE DEF enough
    <2> QED BY <2>2, LeastElement
  <1>4. kept(Min(enough)) \in Seq(S)
    <2> HIDE DEF all, enough
    <2> QED BY <1>2, <1>3, SubSeqOf
  <1> QED BY <1>4 DEF Stored

LEMMA BestIsStored ==
  ASSUME NEW S, NEW c \in Seq(S), NEW p, NEW i \in Best(c, p)
  PROVE  i \in 1 .. Len(c)
  <1> DEFINE len(j)  == PrefixLen(c[j].key, p)
             longest == {j \in DOMAIN c : len(j) > 0 /\ \A k \in DOMAIN c : len(k) <= len(j)}
  <1>1. DOMAIN c = 1 .. Len(c) /\ Len(c) \in Nat
    BY LenProperties
  <1>2. longest \subseteq 1 .. Len(c) /\ longest \in SUBSET Nat
    BY <1>1
  <1>3. Best(c, p) = IF OnDisk \/ longest = {} THEN longest ELSE {Min(longest)}
    BY DEF Best
  <1> HIDE DEF longest
  <1> QED BY <1>2, <1>3, LeastElement

-----------------------------------------------------------------------------
(* What the memory holds *)

Agrees(i, k, m) == k <= Len(m) /\ \A j \in 1 .. k : m[j] = i[j]

GoodState == {e \in State : Agrees(e.ids, e.n, e.kv)}

LEMMA DescribesIsAgrees ==
  ASSUME NEW i \in Array, NEW k \in 0 .. NCtx, NEW m \in Memory
  PROVE  Describes(i, k, m) <=> Agrees(i, k, m)
  <1>0. i \in Seq(Token) /\ Len(i) = NCtx /\ m \in Seq(Token \cup {Hole})
    BY EngineAssumption, IsASeq DEF Array, Memory
  <1>1. CASE k <= Len(m)
    <2>1. /\ Len(SubSeq(m, 1, k)) = k /\ SubSeq(m, 1, k) \in Seq(Token \cup {Hole})
          /\ \A j \in 1 .. k : SubSeq(m, 1, k)[j] = m[j]
      BY <1>0, <1>1, SubSeqOf
    <2>2. /\ Len(SubSeq(i, 1, k)) = k /\ SubSeq(i, 1, k) \in Seq(Token)
          /\ \A j \in 1 .. k : SubSeq(i, 1, k)[j] = i[j]
      BY <1>0, EngineAssumption, SubSeqOf
    <2>3. SubSeq(m, 1, k) = SubSeq(i, 1, k) <=> \A j \in 1 .. k : m[j] = i[j]
      BY <2>1, <2>2, SeqEqual
    <2> QED BY <2>3, <1>1 DEF Describes, Agrees
  <1>2. CASE ~(k <= Len(m))
    BY <1>2 DEF Describes, Agrees
  <1> QED BY <1>1, <1>2

\* kv_cache_seq_rm, whether it removes anything or not, keeps what it need not remove.
LEMMA TrimKeeps ==
  ASSUME NEW i \in Array, NEW k \in Nat, NEW m \in Memory, Agrees(i, k, m)
  PROVE  Trim(m, k) \in Memory /\ Agrees(i, k, Trim(m, k))
  <1>0. m \in Seq(Token \cup {Hole}) /\ Len(m) \in Nat /\ Len(m) <= NCtx /\ k <= Len(m)
    BY LenProperties DEF Memory, Agrees
  <1>1. Min({k, Len(m)}) = k
    BY <1>0, MinOfTwo
  <1>2. /\ SubSeq(m, 1, k) \in Seq(Token \cup {Hole}) /\ Len(SubSeq(m, 1, k)) = k
        /\ \A j \in 1 .. k : SubSeq(m, 1, k)[j] = m[j]
    BY <1>0, SubSeqOf
  <1>3. SubSeq(m, 1, k) \in Memory /\ Agrees(i, k, SubSeq(m, 1, k))
    BY <1>0, <1>2, EngineAssumption DEF Memory, Agrees
  <1> QED BY <1>1, <1>3 DEF Trim

LEMMA AcceptedBase ==
  ASSUME NEW i \in Array, NEW k \in Nat, NEW m \in Memory, Agrees(i, k, m),
         NEW b, Accepts(Trim(m, k), k, b)
  PROVE  Len(Trim(m, k)) = k
  <1>0. m \in Seq(Token \cup {Hole}) /\ Len(m) \in Nat /\ Len(m) <= NCtx /\ k <= Len(m)
    BY LenProperties DEF Memory, Agrees
  <1>1. CASE CanTrim(m, k)
    <2>1. Min({k, Len(m)}) = k
      BY <1>0, MinOfTwo
    <2>2. Len(SubSeq(m, 1, k)) = k
      BY <1>0, SubSeqOf
    <2> QED BY <2>1, <2>2, <1>1 DEF Trim
  <1>2. CASE ~CanTrim(m, k)
    <2>1. Trim(m, k) = m /\ 0 < k /\ k < Len(m)
      BY <1>2 DEF Trim, CanTrim
    <2>2. m # << >>
      BY <2>1, <1>0, EmptySeq
    <2> QED BY <2>1, <2>2 DEF Accepts
  <1> QED BY <1>1, <1>2

\* A batch the memory accepts follows what the memory keeps.
LEMMA DecodedFollows ==
  ASSUME NEW i \in Array, NEW k \in Nat, NEW m \in Memory, Agrees(i, k, m),
         NEW b \in Seq(Token), Accepts(Trim(m, k), k, b)
  PROVE  LET d == Decoded(Trim(m, k), k, b) IN
         /\ d \in Memory /\ Len(d) = k + Len(b)
         /\ Agrees(i, k, d)
         /\ \A j \in 1 .. Len(b) : d[k + j] = b[j]
  <1> DEFINE t == Trim(m, k)
             f == [j \in 1 .. k |-> IF j \in DOMAIN t THEN t[j] ELSE Hole]
             T == Token \cup {Hole}
  <1>1. t \in Seq(T) /\ Len(t) = k /\ \A j \in 1 .. k : t[j] = i[j]
    BY TrimKeeps, AcceptedBase DEF Memory, Agrees
  <1>2. f \in Seq(T) /\ Len(f) = k /\ \A j \in 1 .. k : f[j] = i[j]
    <2> HIDE DEF t
    <2>1. DOMAIN t = 1 .. k /\ \A j \in 1 .. k : t[j] \in T
      BY <1>1, LenProperties, ElementOfSeq
    <2>2. \A j \in 1 .. k : f[j] = t[j]
      BY <2>1
    <2>3. f \in [1 .. k -> T]
      BY <2>1
    <2> QED BY <2>2, <2>3, <1>1, IsASeq
  <1>3. b \in Seq(T)
    OBVIOUS
  <1>4. k + Len(b) <= NCtx /\ Len(b) \in Nat
    BY LenProperties DEF Accepts
  <1>5. /\ f \o b \in Seq(T) /\ Len(f \o b) = k + Len(b)
        /\ \A j \in 1 .. k + Len(b) : (f \o b)[j] = IF j <= k THEN f[j] ELSE b[j - k]
    <2> HIDE DEF f, T
    <2> QED BY <1>2, <1>3, ConcatProperties
  <1>6. Decoded(Trim(m, k), k, b) = f \o b
    BY DEF Decoded
  <1> HIDE DEF f, t
  <1>7. f \o b \in Memory
    BY <1>4, <1>5 DEF Memory
  <1>8. Agrees(i, k, f \o b)
    BY <1>2, <1>4, <1>5 DEF Agrees
  <1>9. \A j \in 1 .. Len(b) : (f \o b)[k + j] = b[j]
    BY <1>4, <1>5
  <1> QED BY <1>5, <1>6, <1>7, <1>8, <1>9

-----------------------------------------------------------------------------
(* The inductive invariant, part by part *)

MemoryOK ==
  /\ ids \in Array /\ n \in 0 .. NCtx /\ kv \in Memory
  /\ Agrees(ids, n, kv)

CacheOK == cache \in Seq(GoodState)

CallOK ==
  /\ phase \in Phase
  /\ prompt \in Seq(Token) /\ limit \in 0 .. NCtx /\ out \in Seq(Token) /\ open \in 0 .. MaxOpen
  /\ pend \in Seq(Token) /\ idx \in 0 .. NCtx /\ tok \in Token \cup {Hole} /\ rows \in 0 .. NBatch
  /\ Progress

Inv == MemoryOK /\ CacheOK /\ CallOK

LEMMA OverOK ==
  ASSUME Over PROVE CallOK'
  BY EngineAssumption DEF Over, CallOK, Progress, Phase

LEMMA MemoryUnchanged ==
  ASSUME MemoryOK, UNCHANGED memory PROVE MemoryOK'
  BY DEF MemoryOK, memory

\* A shorter or equal n_tokens still describes the memory.
LEMMA AgreesLess ==
  ASSUME NEW i, NEW k \in Nat, NEW m, NEW l \in 0 .. k, Agrees(i, k, m), Len(m) \in Nat
  PROVE  Agrees(i, l, m)
  BY DEF Agrees

LEMMA BatchIsHead ==
  ASSUME pend \in Seq(Token), pend # << >>
  PROVE  /\ Batch \in Seq(Token) /\ Len(Batch) \in 1 .. NBatch /\ Len(Batch) <= Len(pend)
         /\ \A j \in 1 .. Len(Batch) : Batch[j] = pend[j]
  <1> DEFINE m == Min({NBatch, Len(pend)})
  <1>1. Len(pend) \in Nat \ {0} /\ NBatch \in Nat \ {0}
    BY EmptySeq, LenProperties, EngineAssumption
  <1>2. m \in Nat \ {0} /\ m <= NBatch /\ m <= Len(pend)
    BY <1>1, MinOfTwo
  <1>3. Batch = SubSeq(pend, 1, m)
    BY DEF Batch
  <1> HIDE DEF m
  <1>4. /\ SubSeq(pend, 1, m) \in Seq(Token) /\ Len(SubSeq(pend, 1, m)) = m
        /\ \A j \in 1 .. m : SubSeq(pend, 1, m)[j] = pend[j]
    BY <1>1, <1>2, SubSeqOf
  <1> QED BY <1>1, <1>2, <1>3, <1>4

\* The tokens of the batch are saved behind the others.
LEMMA WrittenFollows ==
  ASSUME ids \in Array, n \in 0 .. NCtx, Batch \in Seq(Token), n + Len(Batch) <= NCtx
  PROVE  /\ Written \in Array
         /\ \A i \in 1 .. n : Written[i] = ids[i]
         /\ \A j \in 1 .. Len(Batch) : Written[n + j] = Batch[j]
  <1> DEFINE L == Len(Batch)
  <1>1. L \in Nat /\ \A j \in 1 .. L : Batch[j] \in Token
    BY LenProperties, ElementOfSeq
  <1>2. Written = [i \in 1 .. NCtx |-> IF i \in n + 1 .. n + L THEN Batch[i - n] ELSE ids[i]]
    BY DEF Written
  <1> HIDE DEF L
  <1>3. \A i \in n + 1 .. n + L : i - n \in 1 .. L
    BY <1>1
  <1>4. Written \in Array
    BY <1>1, <1>2, <1>3 DEF Array
  <1>5. \A i \in 1 .. n : Written[i] = ids[i]
    BY <1>1, <1>2, EngineAssumption
  <1>6. n + L <= NCtx
    BY DEF L
  <1>7. \A j \in 1 .. L : Written[n + j] = Batch[j]
    <2> SUFFICES ASSUME NEW j \in 1 .. L PROVE Written[n + j] = Batch[j]
      OBVIOUS
    <2>1. n + j \in 1 .. NCtx /\ n + j \in n + 1 .. n + L /\ (n + j) - n = j
      BY <1>1, <1>6, EngineAssumption
    <2> QED BY <2>1, <1>2
  <1> QED BY <1>4, <1>5, <1>7 DEF L

LEMMA PromptIsSeq ==
  ASSUME NEW p \in Prompts
  PROVE  p \in Seq(Token) /\ Len(p) \in 1 .. NCtx - 1 /\ p # << >>
  <1>1. PICK k \in 1 .. NCtx - 1 : p \in [1 .. k -> Token]
    BY DEF Prompts
  <1>2. k \in Nat
    BY EngineAssumption
  <1>3. p \in Seq(Token) /\ Len(p) = k
    BY <1>1, <1>2, IsASeq
  <1> QED BY <1>3, EmptySeq

-----------------------------------------------------------------------------
(* Every action preserves the invariant *)

LEMMA StartOK ==
  ASSUME Faults \subseteq {"decode"}, Inv,
         NEW p \in Prompts, NEW m \in 1 .. NCtx, Start(p, m)
  PROVE  Inv'
  <1>1. \A e \in GoodState : Load(e) => MemoryOK' /\ phase' = "match"
    BY DEF Load, GoodState, State, MemoryOK
  <1>2. MemoryOK' /\ CacheOK' /\ phase' = "match"
    <2>1. CASE Best(cache, p) = {} /\ phase' = "match" /\ UNCHANGED <<memory, cache>>
      BY <2>1, MemoryUnchanged DEF Inv, CacheOK
    <2>2. ASSUME NEW i \in Best(cache, p), cache' = Taken(cache, i),
                 IF Beats(cache[i], p) THEN Load(cache[i])
                                       ELSE phase' = "match" /\ UNCHANGED memory
          PROVE  MemoryOK' /\ CacheOK' /\ phase' = "match"
      <3>1. cache \in Seq(GoodState)
        BY DEF Inv, CacheOK
      <3>2. i \in 1 .. Len(cache)
        BY <3>1, BestIsStored
      <3>3. cache[i] \in GoodState /\ CacheOK'
        BY <2>2, <3>1, <3>2, ElementOfSeq, TakenKeeps DEF CacheOK
      <3> QED BY <2>2, <3>3, <1>1, MemoryUnchanged DEF Inv
    <2> QED BY <2>1, <2>2 DEF Start
  <1>3. CallOK'
    <2>1. /\ prompt' = p /\ limit' = IF m + Len(p) < NCtx THEN m ELSE NCtx - Len(p)
          /\ UNCHANGED <<out, open, pend, idx, tok, rows>> /\ phase = "idle"
      BY <1>2 DEF Start, loop
    <2>2. limit' \in 0 .. NCtx
      BY <2>1, PromptIsSeq, EngineAssumption
    <2>3. p \in Seq(Token) /\ p # << >> /\ Len(p) < NCtx
      BY PromptIsSeq, EngineAssumption
    <2> QED BY <1>2, <2>1, <2>2, <2>3 DEF Inv, CallOK, Progress, Phase
  <1> QED BY <1>2, <1>3 DEF Inv

\* What the memory has in common with the prompt but for its last token.
LEMMA CommonPrefix ==
  ASSUME Inv, phase = "match"
  PROVE  LET common == PrefixLen(Live, Front(prompt))
             P      == Len(prompt)
         IN  /\ prompt \in Seq(Token) /\ prompt # << >> /\ out = << >> /\ P \in Nat \ {0} /\ P < NCtx
             /\ common \in Nat /\ common <= n /\ common <= P - 1
             /\ \A j \in 1 .. common : ids[j] = prompt[j]
  <1> DEFINE front  == Front(prompt)
             common == PrefixLen(Live, front)
             P      == Len(prompt)
  <1>1. /\ prompt \in Seq(Token) /\ prompt # << >> /\ out = << >> /\ P \in Nat \ {0} /\ P < NCtx
        /\ ids \in Array /\ n \in 0 .. NCtx
    BY EmptySeq, LenProperties, EngineAssumption DEF Inv, CallOK, MemoryOK, Progress
  <1>2. front \in Seq(Token) /\ Len(front) = P - 1 /\ \A j \in 1 .. P - 1 : front[j] = prompt[j]
    <2>1. front = SubSeq(prompt, 1, P - 1)
      BY DEF Front
    <2> HIDE DEF front
    <2>2. P - 1 \in 0 .. Len(prompt)
      BY <1>1
    <2> QED BY <2>1, <2>2, <1>1, HeadOf
  <1>3. Live \in Seq(Token) /\ Len(Live) = n /\ \A j \in 1 .. n : Live[j] = ids[j]
    <2>1. ids \in Seq(Token) /\ Len(ids) = NCtx
      BY <1>1, EngineAssumption, IsASeq DEF Array
    <2> QED BY <2>1, <1>1, SubSeqOf DEF Live
  <1> HIDE DEF front
  <1>4. /\ common \in Nat /\ common <= n /\ common <= P - 1
        /\ \A j \in 1 .. common : ids[j] = prompt[j]
    <2>1. /\ common \in Nat /\ common <= Len(Live) /\ common <= Len(front)
          /\ \A j \in 1 .. common : Live[j] = front[j]
      BY <1>2, <1>3, PrefixLenAgrees
    <2> HIDE DEF common
    <2> QED BY <2>1, <1>1, <1>2, <1>3
  <1> QED BY <1>1, <1>4 DEF front

LEMMA MatchOK ==
  ASSUME Inv, Match
  PROVE  Inv'
  <1> DEFINE common == PrefixLen(Live, Front(prompt))
             kept   == IF Hybrid /\ common < n THEN 0 ELSE common
             P      == Len(prompt)
  <1>1. /\ prompt \in Seq(Token) /\ prompt # << >> /\ out = << >> /\ P \in Nat \ {0} /\ P < NCtx
        /\ ids \in Array /\ n \in 0 .. NCtx /\ kv \in Memory /\ Agrees(ids, n, kv)
    BY CommonPrefix DEF Match, Inv, MemoryOK
  <1>2. /\ common \in Nat /\ common <= n /\ common <= P - 1
        /\ \A j \in 1 .. common : ids[j] = prompt[j]
    BY CommonPrefix DEF Match
  <1>3. /\ phase' = "eval" /\ idx' = P - 1 /\ UNCHANGED <<ids, cache, call, tok, rows>>
        /\ pend' = SubSeq(prompt, n' + 1, P)
        /\ IF kept > 0 /\ CanTrim(kv, kept)
             THEN n' = kept /\ kv' = Trim(kv, kept)
             ELSE n' = 0 /\ kv' = IF Hybrid THEN << >> ELSE kv
    BY DEF Match
  <1> HIDE DEF common
  <1>4. /\ n' \in 0 .. NCtx /\ n' \in Nat /\ n' <= P - 1 /\ kv' \in Memory /\ Agrees(ids, n', kv')
        /\ \A j \in 1 .. n' : ids[j] = prompt[j]
    <2>0. kept \in 0 .. n /\ kept <= P - 1 /\ (kept > 0 => kept = common)
      BY <1>1, <1>2
    <2> HIDE DEF kept, P
    <2>1. Len(kv) \in Nat
      BY <1>1, LenProperties DEF Memory
    <2>2. CASE kept > 0 /\ CanTrim(kv, kept)
      <3>1. Agrees(ids, kept, kv)
        BY <1>1, <2>0, <2>1, AgreesLess
      <3>2. n' = kept /\ kv' = Trim(kv, kept) /\ kept = common /\ kept \in Nat /\ kept <= NCtx
        BY <2>0, <2>2, <1>1, <1>3, EngineAssumption
      <3>3. kv' \in Memory /\ Agrees(ids, n', kv')
        BY <3>1, <3>2, <1>1, TrimKeeps
      <3> QED BY <3>2, <3>3, <2>0, <1>2, EngineAssumption
    <2>3. CASE ~(kept > 0 /\ CanTrim(kv, kept))
      <3>1. << >> \in Memory
        BY EngineAssumption, EmptySeq DEF Memory
      <3>2. n' = 0 /\ kv' \in Memory
        BY <3>1, <2>3, <1>1, <1>3
      <3>3. Len(kv') \in Nat
        BY <3>2, LenProperties DEF Memory
      <3> QED BY <3>2, <3>3, <1>1, EngineAssumption DEF Agrees
    <2> QED BY <2>2, <2>3
  <1>5. PICK k \in Nat : n' = k /\ k < P
    BY <1>1, <1>4
  <1>6. /\ pend' \in Seq(Token) /\ Len(pend') = P - k /\ pend' # << >>
        /\ \A j \in 1 .. P - k : pend'[j] = prompt[k + j]
    <2>1. k \in 0 .. Len(prompt)
      BY <1>1, <1>5
    <2>2. /\ pend' \in Seq(Token) /\ Len(pend') = P - k
          /\ \A j \in 1 .. P - k : pend'[j] = prompt[k + j]
      BY <2>1, <1>1, <1>3, <1>5, TailOf
    <2>3. P - k # 0
      BY <1>1, <1>5
    <2> QED BY <2>2, <2>3, EmptySeq
  <1>7. MemoryOK' /\ CacheOK'
    BY <1>3, <1>4, <1>1 DEF Inv, MemoryOK, CacheOK
  <1>8. CallOK'
    <2>1. Context' = prompt
      BY <1>3, <1>1, ConcatEmptySeq DEF Context, call
    <2>2. \A i \in 1 .. P : prompt[i] = IF i <= k THEN ids[i] ELSE pend'[i - k]
      <3> SUFFICES ASSUME NEW i \in 1 .. P, i > k PROVE prompt[i] = pend'[i - k]
        BY <1>4, <1>5, <1>1
      <3>1. i - k \in 1 .. P - k /\ k + (i - k) = i
        BY <1>1, <1>5
      <3> QED BY <3>1, <1>6
    <2>3. idx' + 1 = P /\ Len(Context') = P /\ idx' < k + Len(pend')
      BY <1>1, <1>3, <1>5, <1>6, <2>1
    <2>4. \A i \in 1 .. idx' + 1 : Context'[i] = IF i <= k THEN ids'[i] ELSE pend'[i - k]
      BY <1>3, <2>1, <2>2, <2>3
    <2>5. Progress'
      BY <1>3, <1>5, <1>6, <2>3, <2>4 DEF Progress
    <2>6. idx' \in 0 .. NCtx
      BY <1>1, <1>3, EngineAssumption
    <2> QED BY <1>3, <1>6, <2>5, <2>6 DEF Inv, CallOK, Phase, call
  <1> QED BY <1>7, <1>8 DEF Inv

\* A batch the memory accepts: what eval makes of the memory and of input_ids.
LEMMA EvaluatedBatch ==
  ASSUME Inv, phase = "eval", Accepts(Base, n, Batch)
  PROVE  /\ Batch \in Seq(Token) /\ Len(Batch) \in 1 .. NBatch /\ Len(Batch) <= Len(pend)
         /\ n + Len(Batch) <= NCtx
         /\ Written \in Array
         /\ Decoded(Base, n, Batch) \in Memory
         /\ Agrees(Written, n + Len(Batch), Decoded(Base, n, Batch))
         /\ \A i \in 1 .. n : Written[i] = ids[i]
         /\ \A j \in 1 .. Len(Batch) : Written[n + j] = pend[j]
  <1> DEFINE L == Len(Batch)
             d == Decoded(Base, n, Batch)
  <1>1. /\ ids \in Array /\ n \in 0 .. NCtx /\ n \in Nat /\ kv \in Memory /\ Agrees(ids, n, kv)
        /\ pend \in Seq(Token) /\ pend # << >>
    BY EngineAssumption DEF Inv, MemoryOK, CallOK, Progress
  <1>2. /\ Batch \in Seq(Token) /\ Len(Batch) \in 1 .. NBatch /\ Len(Batch) <= Len(pend)
        /\ \A j \in 1 .. Len(Batch) : Batch[j] = pend[j]
    BY <1>1, BatchIsHead
  <1>3. L \in Nat /\ n + L <= NCtx
    BY <1>2, EngineAssumption DEF Accepts
  <1>4. /\ Written \in Array
        /\ \A i \in 1 .. n : Written[i] = ids[i]
        /\ \A j \in 1 .. L : Written[n + j] = Batch[j]
    BY <1>1, <1>2, <1>3, WrittenFollows
  <1>5. /\ d \in Memory /\ Len(d) = n + L /\ Agrees(ids, n, d)
        /\ \A j \in 1 .. L : d[n + j] = Batch[j]
    <2>1. Base = Trim(kv, n)
      BY DEF Base
    <2> QED BY <1>1, <1>2, <2>1, DecodedFollows
  <1> HIDE DEF d
  <1>6. \A i \in 1 .. n + L : d[i] = Written[i]
    <2> SUFFICES ASSUME NEW i \in 1 .. n + L PROVE d[i] = Written[i]
      OBVIOUS
    <2> HIDE DEF L
    <2>1. CASE i <= n
      <3>1. i \in 1 .. n
        BY <2>1, <1>1, <1>3
      <3> QED BY <3>1, <1>4, <1>5 DEF Agrees
    <2>2. CASE i > n
      <3>1. i - n \in 1 .. L /\ n + (i - n) = i
        BY <2>2, <1>1, <1>3
      <3> QED BY <3>1, <1>4, <1>5
    <2> QED BY <2>1, <2>2, <1>1, <1>3
  <1>7. Agrees(Written, n + L, d)
    BY <1>1, <1>3, <1>5, <1>6 DEF Agrees
  <1> QED BY <1>2, <1>3, <1>4, <1>5, <1>7 DEF d

LEMMA EvalOK ==
  ASSUME Inv, Eval
  PROVE  Inv'
  <1> DEFINE L == Len(Batch)
  <1>1. phase = "eval" /\ Accepts(Base, n, Batch)
    BY DEF Eval
  <1>2. /\ Batch \in Seq(Token) /\ L \in 1 .. NBatch /\ L <= Len(pend) /\ n + L <= NCtx
        /\ Written \in Array
        /\ Decoded(Base, n, Batch) \in Memory
        /\ Agrees(Written, n + L, Decoded(Base, n, Batch))
        /\ \A i \in 1 .. n : Written[i] = ids[i]
        /\ \A j \in 1 .. L : Written[n + j] = pend[j]
    BY <1>1, EvaluatedBatch
  <1>3. /\ kv' = Decoded(Base, n, Batch) /\ ids' = Written /\ rows' = L
        /\ pend' = SubSeq(pend, L + 1, Len(pend))
        /\ phase' = IF pend' = << >> THEN "sample" ELSE "eval"
        /\ UNCHANGED <<cache, call, idx, tok>>
    BY DEF Eval
  <1>4. PICK k \in Nat : n' = k /\ k = n + L
    BY <1>2, EngineAssumption DEF Eval, Inv, MemoryOK
  <1>5. /\ pend \in Seq(Token) /\ Len(pend) \in Nat /\ n \in Nat /\ L \in Nat
        /\ Context \in Seq(Token) /\ idx \in Nat /\ Progress
    BY <1>2, EngineAssumption, LenProperties, ConcatProperties DEF Inv, MemoryOK, CallOK, Context
  <1>6. /\ pend' \in Seq(Token) /\ Len(pend') = Len(pend) - L
        /\ \A j \in 1 .. Len(pend) - L : pend'[j] = pend[L + j]
    <2> HIDE DEF L
    <2>1. L \in 0 .. Len(pend)
      BY <1>2, <1>5
    <2> QED BY <2>1, <1>3, <1>5, TailOf
  <1> HIDE DEF L
  <1>7. MemoryOK' /\ CacheOK'
    <2>1. k \in 0 .. NCtx
      BY <1>2, <1>4, EngineAssumption
    <2> QED BY <2>1, <1>2, <1>3, <1>4 DEF Inv, MemoryOK, CacheOK
  <1>8. Context' = Context /\ idx' = idx /\ tok' = tok
    BY <1>3 DEF Context, call
  <1>9. \A i \in 1 .. idx + 1 : Context[i] = IF i <= k THEN ids'[i] ELSE pend'[i - k]
    <2> SUFFICES ASSUME NEW i \in 1 .. idx + 1
                 PROVE  Context[i] = IF i <= k THEN ids'[i] ELSE pend'[i - k]
      OBVIOUS
    <2>1. Context[i] = IF i <= n THEN ids[i] ELSE pend[i - n]
      BY <1>1, <1>5 DEF Progress
    <2>2. CASE i <= n
      <3>1. i \in 1 .. n /\ i <= k
        BY <2>2, <1>4, <1>5
      <3> QED BY <2>1, <3>1, <1>2, <1>3, <1>5
    <2>3. CASE i > n /\ i <= k
      <3>1. i - n \in 1 .. L /\ n + (i - n) = i /\ ~(i <= n)
        BY <2>3, <1>4, <1>5
      <3> QED BY <2>1, <2>3, <3>1, <1>2, <1>3
    <2>4. CASE i > k
      <3>1. i - k \in 1 .. Len(pend) - L /\ L + (i - k) = i - n /\ ~(i <= n) /\ ~(i <= k)
        <4>1. idx < n + Len(pend)
          BY <1>1, <1>5 DEF Progress
        <4> QED BY <4>1, <2>4, <1>2, <1>4, <1>5
      <3> QED BY <2>1, <3>1, <1>6
    <2> QED BY <2>2, <2>3, <2>4, <1>4, <1>5
  <1>10. idx + 1 = Len(Context) /\ idx < k + Len(pend')
    BY <1>1, <1>2, <1>4, <1>5, <1>6 DEF Progress
  <1>11. Progress'
    <2>1. CASE pend' = << >>
      <3>1. Len(pend') = 0 /\ idx < k
        BY <2>1, <1>4, <1>5, <1>10, EmptySeq
      <3>2. \A i \in 1 .. idx + 1 : ids'[i] = Context[i]
        BY <3>1, <1>4, <1>5, <1>9
      <3> QED BY <2>1, <3>1, <3>2, <1>3, <1>4, <1>8, <1>10 DEF Progress, Evaluated
    <2>2. CASE pend' # << >>
      BY <2>2, <1>3, <1>4, <1>8, <1>9, <1>10 DEF Progress
    <2> QED BY <2>1, <2>2
  <1>12. CallOK'
    <2>1. rows' \in 0 .. NBatch
      BY <1>2, <1>3, EngineAssumption
    <2> QED BY <2>1, <1>3, <1>6, <1>8, <1>11 DEF Inv, CallOK, Phase, call
  <1> QED BY <1>7, <1>12 DEF Inv

LEMMA ScoresRaiseOK ==
  ASSUME Inv, ScoresRaise
  PROVE  Inv'
  <1>1. /\ phase = "eval" /\ Accepts(Base, n, Batch) /\ Over
        /\ kv' = Decoded(Base, n, Batch) /\ ids' = Written /\ n' = n /\ cache' = cache
    BY DEF ScoresRaise
  <1>2. Written \in Array /\ kv' \in Memory /\ Agrees(Written, n + Len(Batch), kv')
    BY <1>1, EvaluatedBatch
  <1>3. n \in 0 .. n + Len(Batch) /\ n + Len(Batch) \in Nat /\ Len(kv') \in Nat
    <2>1. n \in Nat /\ Len(Batch) \in Nat /\ kv' \in Seq(Token \cup {Hole})
      BY <1>1, <1>2, EvaluatedBatch, EngineAssumption DEF Inv, MemoryOK, Memory
    <2> QED BY <2>1, LenProperties
  <1>4. Agrees(Written, n, kv')
    BY <1>2, <1>3, AgreesLess
  <1> QED BY <1>1, <1>2, <1>4, OverOK DEF Inv, MemoryOK, CacheOK

LEMMA DecodeRaisesOK ==
  ASSUME Inv, DecodeRaises
  PROVE  Inv'
  <1>1. phase = "eval" /\ Over /\ UNCHANGED <<ids, n, cache>>
    BY DEF DecodeRaises
  <1>2. /\ ids \in Array /\ n \in 0 .. NCtx /\ n \in Nat /\ kv \in Memory /\ Agrees(ids, n, kv)
        /\ Base = Trim(kv, n)
    BY EngineAssumption DEF Inv, MemoryOK, Base
  <1>3. Base \in Memory /\ Agrees(ids, n, Base)
    BY <1>2, TrimKeeps
  <1>4. ASSUME Accepts(Base, n, Batch), NEW k \in 0 .. Len(Batch) - 1
        PROVE  /\ Decoded(Base, n, SubSeq(Batch, 1, k)) \in Memory
               /\ Agrees(ids, n, Decoded(Base, n, SubSeq(Batch, 1, k)))
    <2>1. Batch \in Seq(Token) /\ Len(Batch) \in Nat
      BY <1>1, <1>4, EvaluatedBatch, LenProperties
    <2>2. k \in 0 .. Len(Batch) /\ k <= Len(Batch)
      BY <2>1
    <2>3. SubSeq(Batch, 1, k) \in Seq(Token) /\ Len(SubSeq(Batch, 1, k)) = k
      BY <2>1, <2>2, HeadOf
    <2>4. Accepts(Base, n, SubSeq(Batch, 1, k))
      BY <1>2, <1>4, <2>1, <2>2, <2>3, EngineAssumption DEF Accepts
    <2> QED BY <1>2, <2>3, <2>4, DecodedFollows
  <1>5. kv' \in Memory /\ Agrees(ids, n, kv')
    BY <1>3, <1>4 DEF DecodeRaises
  <1> QED BY <1>1, <1>2, <1>5, OverOK DEF Inv, MemoryOK, CacheOK

LEMMA SampleOK ==
  ASSUME Inv, Sample
  PROVE  Inv'
  <1>1. /\ phase = "sample" /\ phase' = "yield" /\ tok' \in Token /\ idx' = idx + 1
        /\ UNCHANGED <<memory, cache, call, pend, rows>>
    BY DEF Sample
  <1>2. MemoryOK' /\ CacheOK'
    BY <1>1, MemoryUnchanged DEF Inv, CacheOK
  <1>3. Context' = Context
    BY <1>1 DEF Context, call
  <1>4. idx + 1 = Len(Context) /\ idx < n /\ Evaluated(idx + 1) /\ idx + 1 \in 0 .. NCtx
    BY <1>1, EngineAssumption DEF Inv, CallOK, MemoryOK, Progress
  <1>5. Progress'
    <2>1. n' = n /\ ids' = ids /\ n \in Nat /\ idx \in Nat
      BY <1>1, EngineAssumption DEF Inv, MemoryOK, CallOK, memory
    <2> QED BY <2>1, <1>1, <1>3, <1>4 DEF Progress, Evaluated
  <1> QED BY <1>1, <1>2, <1>4, <1>5 DEF Inv, CallOK, Phase, call

LEMMA FinishOK ==
  ASSUME Inv, NEW o \in Seq(Token), Finish(o)
  PROVE  Inv'
  <1> DEFINE e == [key |-> prompt \o o, ids |-> ids, n |-> n, kv |-> kv, size |-> Len(kv)]
  <1>1. e \in GoodState
    <2>1. prompt \o o \in TokenSeq /\ Len(kv) \in Nat
      BY ConcatProperties, LenProperties DEF Inv, CallOK, MemoryOK, Memory, TokenSeq
    <2> QED BY <2>1 DEF GoodState, State, Inv, MemoryOK
  <1>2. cache' = Stored(cache, e) /\ Over /\ UNCHANGED memory
    BY DEF Finish
  <1> HIDE DEF e
  <1>3. CacheOK'
    BY <1>1, <1>2, StoredKeeps DEF Inv, CacheOK
  <1> QED BY <1>2, <1>3, OverOK, MemoryUnchanged DEF Inv

LEMMA EndOfGenerationOK ==
  ASSUME Inv, EndOfGeneration
  PROVE  Inv'
  <1>1. out \in Seq(Token) /\ Finish(out)
    BY DEF EndOfGeneration, Inv, CallOK
  <1> QED BY <1>1, FinishOK

\* What a token appended to the completion does to the context.
LEMMA ContextGrows ==
  ASSUME prompt \in Seq(Token), out \in Seq(Token), NEW t \in Token
  PROVE  LET c == prompt \o Append(out, t) IN
         /\ Len(c) = Len(Context) + 1 /\ c[Len(Context) + 1] = t
         /\ \A i \in 1 .. Len(Context) : c[i] = Context[i]
  <1>1. /\ Append(out, t) \in Seq(Token) /\ Len(Append(out, t)) = Len(out) + 1
        /\ \A i \in 1 .. Len(out) : Append(out, t)[i] = out[i]
        /\ Append(out, t)[Len(out) + 1] = t
    BY AppendProperties
  <1>2. Len(prompt) \in Nat /\ Len(out) \in Nat
    BY LenProperties
  <1>3. /\ Len(prompt \o Append(out, t)) = Len(prompt) + Len(out) + 1
        /\ \A i \in 1 .. Len(prompt) + Len(out) + 1 :
             (prompt \o Append(out, t))[i] =
               IF i <= Len(prompt) THEN prompt[i] ELSE Append(out, t)[i - Len(prompt)]
    BY <1>1, <1>2, ConcatProperties
  <1>4. /\ Len(Context) = Len(prompt) + Len(out)
        /\ \A i \in 1 .. Len(prompt) + Len(out) :
             Context[i] = IF i <= Len(prompt) THEN prompt[i] ELSE out[i - Len(prompt)]
    BY <1>2, ConcatProperties DEF Context
  <1>5. \A i \in 1 .. Len(prompt) + Len(out) : (prompt \o Append(out, t))[i] = Context[i]
    <2> SUFFICES ASSUME NEW i \in 1 .. Len(prompt) + Len(out)
                 PROVE  (prompt \o Append(out, t))[i] = Context[i]
      OBVIOUS
    <2>1. i > Len(prompt) => i - Len(prompt) \in 1 .. Len(out)
      BY <1>2
    <2> QED BY <2>1, <1>1, <1>2, <1>3, <1>4
  <1>6. (prompt \o Append(out, t))[Len(prompt) + Len(out) + 1] = t
    <2>1. /\ Len(prompt) + Len(out) + 1 \in 1 .. Len(prompt) + Len(out) + 1
          /\ ~(Len(prompt) + Len(out) + 1 <= Len(prompt))
          /\ (Len(prompt) + Len(out) + 1) - Len(prompt) = Len(out) + 1
      BY <1>2
    <2> QED BY <2>1, <1>1, <1>3
  <1> QED BY <1>3, <1>4, <1>5, <1>6

LEMMA ConsumeOK ==
  ASSUME Inv, Consume
  PROVE  Inv'
  <1> DEFINE o == Append(out, tok)
  <1>1. /\ phase = "yield" /\ tok \in Token /\ out \in Seq(Token) /\ prompt \in Seq(Token)
        /\ idx = Len(Context) /\ idx <= n /\ Evaluated(idx) /\ idx \in Nat /\ n \in Nat
        /\ o \in Seq(Token)
    BY EngineAssumption, AppendProperties DEF Consume, Inv, CallOK, MemoryOK, Progress
  <1>2. PICK missing \in {open} \cup 1 .. MaxOpen :
          \/ /\ out' = o
             /\ open' = IF missing > 0 THEN missing - 1 ELSE 0
             /\ phase' = IF missing > 0 THEN "resume" ELSE "chunk"
             /\ UNCHANGED <<memory, cache, prompt, limit, loop>>
          \/ Finish(o)
    BY DEF Consume
  <1>3. CASE Finish(o)
    BY <1>1, <1>3, FinishOK
  <1>4. CASE /\ out' = o
             /\ open' = IF missing > 0 THEN missing - 1 ELSE 0
             /\ phase' = IF missing > 0 THEN "resume" ELSE "chunk"
             /\ UNCHANGED <<memory, cache, prompt, limit, loop>>
    <2>1. MemoryOK' /\ CacheOK'
      BY <1>4, MemoryUnchanged DEF Inv, CacheOK
    <2>2. open' \in 0 .. MaxOpen
      BY <1>4, EngineAssumption DEF Inv, CallOK
    <2>3. Context' = prompt \o o
      BY <1>4 DEF Context
    <2>4. /\ Len(Context') = idx + 1 /\ Context'[idx + 1] = tok
          /\ \A i \in 1 .. idx : Context'[i] = Context[i]
      BY <1>1, <2>3, ContextGrows
    <2> HIDE DEF o
    <2>5. ids' = ids /\ n' = n /\ idx' = idx /\ tok' = tok /\ phase' \in {"chunk", "resume"}
      BY <1>4 DEF memory, loop
    <2>6. Progress'
      BY <1>1, <2>4, <2>5 DEF Progress, Evaluated
    <2>7. CallOK'
      BY <1>1, <1>4, <2>2, <2>5, <2>6 DEF Inv, CallOK, Phase, loop
    <2> QED BY <2>1, <2>7 DEF Inv
  <1> QED BY <1>2, <1>3, <1>4

LEMMA AbandonOK ==
  ASSUME Inv, Abandon
  PROVE  Inv'
  BY OverOK, MemoryUnchanged DEF Abandon, Inv, CacheOK

\* The phases in which generate goes on after a token was consumed.
LEMMA WhenResumed ==
  ASSUME Inv, Resumed
  PROVE  /\ prompt \in Seq(Token) /\ out \in Seq(Token) /\ Context \in Seq(Token)
         /\ idx \in Nat /\ n \in Nat /\ n <= NCtx /\ idx <= n
         /\ idx + 1 = Len(Context) /\ Context[idx + 1] = tok /\ tok \in Token
         /\ \A i \in 1 .. idx : ids[i] = Context[i]
  <1>1. prompt \in Seq(Token) /\ out \in Seq(Token) /\ Context \in Seq(Token)
    BY ConcatProperties DEF Inv, CallOK, Context
  <1>2. /\ idx \in Nat /\ n \in Nat /\ n <= NCtx /\ idx <= n
        /\ idx + 1 = Len(Context) /\ Context[idx + 1] = tok
        /\ \A i \in 1 .. idx : ids[i] = Context[i]
    BY EngineAssumption DEF Resumed, Inv, CallOK, MemoryOK, Progress, Evaluated
  <1>3. tok \in Token
    BY <1>1, <1>2, ElementOfSeq
  <1> QED BY <1>1, <1>2, <1>3

LEMMA AcceptDraftedOK ==
  ASSUME Inv, AcceptDrafted
  PROVE  Inv'
  <1>1. /\ Resumed /\ idx < n /\ tok = ids[idx + 1] /\ phase' = "sample"
        /\ UNCHANGED <<memory, cache, call, loop>>
    BY DEF AcceptDrafted
  <1>2. MemoryOK' /\ CacheOK'
    BY <1>1, MemoryUnchanged DEF Inv, CacheOK
  <1>3. Context' = Context /\ n' = n /\ ids' = ids /\ idx' = idx
    BY <1>1 DEF Context, call, memory, loop
  <1>4. \A i \in 1 .. idx + 1 : ids[i] = Context[i]
    BY <1>1, WhenResumed
  <1>5. Progress'
    BY <1>1, <1>3, <1>4, WhenResumed DEF Progress, Evaluated
  <1> QED BY <1>1, <1>2, <1>5 DEF Inv, CallOK, Phase, call, loop

LEMMA EmbedOK ==
  ASSUME Faults \subseteq {"decode"}, Inv, Embed
  PROVE  Inv'
  <1>1. n' = 0 /\ kv' = << >> /\ UNCHANGED <<ids, cache, phase, call, loop>> /\ phase = "idle"
    BY DEF Embed
  <1>2. << >> \in Memory /\ Agrees(ids, 0, << >>) /\ 0 \in 0 .. NCtx
    BY EngineAssumption, EmptySeq DEF Memory, Agrees
  <1>3. MemoryOK' /\ CacheOK'
    BY <1>1, <1>2 DEF Inv, MemoryOK, CacheOK
  <1>4. CallOK'
    BY <1>1 DEF Inv, CallOK, Progress, call, loop
  <1> QED BY <1>3, <1>4 DEF Inv

LEMMA DraftIsSeq ==
  ASSUME NEW d \in Draft
  PROVE  d \in Seq(Token)
  <1>1. PICK k \in 0 .. DraftRoom : d \in [1 .. k -> Token]
    BY DEF Draft
  <1>2. k \in Nat
    BY <1>1
  <1> QED BY <1>1, <1>2, IsASeq

LEMMA ContinueOK ==
  ASSUME Inv, Continue
  PROVE  Inv'
  <1>1. /\ Resumed /\ phase' = "eval" /\ UNCHANGED <<cache, call, idx, tok, rows>>
        /\ \/ n' = idx /\ kv' = Trim(kv, idx)
           \/ idx >= n /\ UNCHANGED <<n, kv>>
        /\ \/ /\ ids' = [i \in 1 .. NCtx |-> IF i = n' + 1 THEN tok ELSE ids[i]]
              /\ \E d \in Draft : pend' = <<tok>> \o d
           \/ pend' = <<tok>> /\ UNCHANGED ids
    BY DEF Continue
  <1>2. /\ idx \in Nat /\ n \in Nat /\ n <= NCtx /\ idx <= n /\ tok \in Token
        /\ idx + 1 = Len(Context) /\ Context[idx + 1] = tok
        /\ \A i \in 1 .. idx : ids[i] = Context[i]
    BY <1>1, WhenResumed
  <1>3. /\ ids \in Array /\ kv \in Memory /\ Len(kv) \in Nat
        /\ Agrees(ids, n, kv) /\ Agrees(ids, idx, kv)
    <2>1. ids \in Array /\ kv \in Memory /\ Agrees(ids, n, kv)
      BY DEF Inv, MemoryOK
    <2>2. Len(kv) \in Nat
      BY <2>1, LenProperties DEF Memory
    <2>3. idx \in 0 .. n
      BY <1>2
    <2> QED BY <2>1, <2>2, <2>3, <1>2, AgreesLess
  <1>4. n' = idx /\ kv' \in Memory /\ Agrees(ids, idx, kv')
    <2>1. CASE n' = idx /\ kv' = Trim(kv, idx)
      BY <2>1, <1>2, <1>3, TrimKeeps
    <2>2. CASE idx >= n /\ UNCHANGED <<n, kv>>
      BY <2>2, <1>2, <1>3
    <2> QED BY <1>1, <2>1, <2>2
  <1>5. /\ ids' \in Array /\ \A i \in 1 .. idx : ids'[i] = ids[i]
        /\ pend' \in Seq(Token) /\ Len(pend') \in Nat \ {0} /\ pend'[1] = tok
    <2>1. CASE pend' = <<tok>> /\ UNCHANGED ids
      BY <2>1, <1>2, <1>3
    <2>2. CASE /\ ids' = [i \in 1 .. NCtx |-> IF i = n' + 1 THEN tok ELSE ids[i]]
               /\ \E d \in Draft : pend' = <<tok>> \o d
      <3>1. PICK d \in Draft : pend' = <<tok>> \o d
        BY <2>2
      <3>2. d \in Seq(Token) /\ Len(d) \in Nat
        BY DraftIsSeq, LenProperties
      <3>3. pend' \in Seq(Token) /\ Len(pend') = 1 + Len(d) /\ pend'[1] = tok
        <4>1. <<tok>> \in Seq(Token) /\ Len(<<tok>>) = 1 /\ <<tok>>[1] = tok
          BY <1>2
        <4>2. /\ pend' \in Seq(Token) /\ Len(pend') = 1 + Len(d)
              /\ \A i \in 1 .. 1 + Len(d) : pend'[i] = IF i <= 1 THEN <<tok>>[i] ELSE d[i - 1]
          BY <3>1, <3>2, <4>1, ConcatProperties
        <4> QED BY <3>2, <4>1, <4>2
      <3>4. ids' = [i \in 1 .. NCtx |-> IF i = idx + 1 THEN tok ELSE ids[i]]
        BY <2>2, <1>4
      <3>5. ids' \in Array /\ \A i \in 1 .. idx : ids'[i] = ids[i]
        BY <3>4, <1>2, <1>3, EngineAssumption DEF Array
      <3> QED BY <3>2, <3>3, <3>5
    <2> QED BY <1>1, <2>1, <2>2
  <1>6. MemoryOK' /\ CacheOK'
    <2>1. Agrees(ids', idx, kv')
      BY <1>4, <1>5 DEF Agrees
    <2>2. idx \in 0 .. NCtx
      BY <1>2, EngineAssumption
    <2> QED BY <2>1, <2>2, <1>1, <1>4, <1>5 DEF Inv, MemoryOK, CacheOK
  <1>7. Context' = Context /\ idx' = idx /\ tok' = tok
    BY <1>1 DEF Context, call
  <1>8. \A i \in 1 .. idx + 1 : Context[i] = IF i <= idx THEN ids'[i] ELSE pend'[i - idx]
    <2> SUFFICES ASSUME NEW i \in 1 .. idx + 1
                 PROVE  Context[i] = IF i <= idx THEN ids'[i] ELSE pend'[i - idx]
      OBVIOUS
    <2>1. CASE i <= idx
      BY <2>1, <1>2, <1>5
    <2>2. CASE i > idx
      <3>1. i = idx + 1 /\ i - idx = 1 /\ ~(i <= idx)
        BY <2>2, <1>2
      <3> QED BY <3>1, <1>2, <1>5
    <2> QED BY <2>1, <2>2, <1>2
  <1>9. Progress'
    <2>1. idx < idx + Len(pend') /\ pend' # << >>
      BY <1>2, <1>5, EmptySeq
    <2> QED BY <2>1, <1>1, <1>2, <1>4, <1>7, <1>8 DEF Progress
  <1>10. CallOK'
    BY <1>1, <1>5, <1>7, <1>9 DEF Inv, CallOK, Phase, call
  <1> QED BY <1>6, <1>10 DEF Inv

-----------------------------------------------------------------------------
(* The theorems *)

LEMMA InitOK ==
  ASSUME Init PROVE Inv
  <1>1. << >> \in Memory /\ Agrees(ids, 0, << >>) /\ 0 \in 0 .. NCtx
    BY EngineAssumption, EmptySeq DEF Memory, Agrees
  <1>2. MemoryOK /\ CacheOK
    BY <1>1, EmptySeq DEF Init, MemoryOK, CacheOK, Array
  <1>3. CallOK
    BY EngineAssumption, EmptySeq DEF Init, CallOK, Progress, Phase
  <1> QED BY <1>2, <1>3 DEF Inv

LEMMA NextOK ==
  ASSUME Faults \subseteq {"decode"}, Inv, [Next]_vars
  PROVE  Inv'
  <1>1. CASE UNCHANGED vars
    BY <1>1 DEF vars, Inv, MemoryOK, CacheOK, CallOK, Progress, Context, Evaluated
  <1>2. ASSUME NEW p \in Prompts, NEW m \in 1 .. NCtx, Start(p, m) PROVE Inv'
    BY <1>2, StartOK
  <1>3. CASE Run
    BY <1>3, MatchOK, EvalOK, ScoresRaiseOK, DecodeRaisesOK, SampleOK, EndOfGenerationOK,
       ConsumeOK, AcceptDraftedOK, ContinueOK DEF Run
  <1>4. CASE Abandon
    BY <1>4, AbandonOK
  <1>5. CASE Embed
    BY <1>5, EmbedOK
  <1> QED BY <1>1, <1>2, <1>3, <1>4, <1>5 DEF Next

\* llama.py: as long as load_state and embed do not fail halfway, input_ids describes
\* the memory, cached states are sound and the running call is where its phase says.
THEOREM Invariance ==
  ASSUME Faults \subseteq {"decode"}
  PROVE  Spec => []Inv
  <1>1. Init => Inv
    BY InitOK
  <1>2. Inv /\ [Next]_vars => Inv'
    BY NextOK
  <1> QED BY <1>1, <1>2, PTL DEF Spec

LEMMA InvGivesTypeOK ==
  ASSUME Inv PROVE TypeOK
  <1>1. cache \in Seq(State)
    BY DEF Inv, CacheOK, GoodState
  <1> QED BY <1>1 DEF Inv, MemoryOK, CallOK, TypeOK, TokenSeq

LEMMA InvGivesTokensDescribeMemory ==
  ASSUME Inv PROVE TokensDescribeMemory
  <1>1. Describes(ids, n, kv)
    BY DescribesIsAgrees DEF Inv, MemoryOK
  <1>2. ASSUME NEW i \in DOMAIN cache
        PROVE  Describes(cache[i].ids, cache[i].n, cache[i].kv)
    <2>1. cache \in Seq(GoodState) /\ i \in 1 .. Len(cache)
      BY <1>2, LenProperties DEF Inv, CacheOK
    <2>2. cache[i] \in GoodState
      BY <2>1, ElementOfSeq
    <2> QED BY <2>2, DescribesIsAgrees DEF GoodState, State
  <1> QED BY <1>1, <1>2 DEF TokensDescribeMemory

LEMMA InvGivesSampledFromRequest ==
  ASSUME Inv PROVE SampledFromRequest
  <1> SUFFICES ASSUME phase = "sample"
               PROVE  SubSeq(kv, 1, idx + 1) = Context
    BY DEF SampledFromRequest, Context
  <1> DEFINE T == Token \cup {Hole}
  <1>1. /\ kv \in Seq(T) /\ Len(kv) \in Nat /\ n \in Nat /\ idx \in Nat
        /\ n <= Len(kv) /\ (\A j \in 1 .. n : kv[j] = ids[j])
        /\ idx + 1 = Len(Context) /\ idx < n /\ \A j \in 1 .. idx + 1 : ids[j] = Context[j]
    BY EngineAssumption, LenProperties
       DEF Inv, MemoryOK, CallOK, Memory, Agrees, Progress, Evaluated
  <1>2. Context \in Seq(T)
    <2>1. prompt \in Seq(T) /\ out \in Seq(T)
      BY DEF Inv, CallOK
    <2> HIDE DEF T
    <2> QED BY <2>1, ConcatProperties DEF Context
  <1> HIDE DEF T
  <1>3. idx + 1 \in 0 .. Len(kv)
    BY <1>1
  <1>4. /\ SubSeq(kv, 1, idx + 1) \in Seq(T) /\ Len(SubSeq(kv, 1, idx + 1)) = idx + 1
        /\ \A j \in 1 .. idx + 1 : SubSeq(kv, 1, idx + 1)[j] = kv[j]
    BY <1>1, <1>3, HeadOf
  <1>5. \A j \in 1 .. idx + 1 : kv[j] = Context[j]
    BY <1>1
  <1> QED BY <1>1, <1>2, <1>4, <1>5, SeqEqual

\* generate and create_completion: as long as load_state and embed do not fail
\* halfway, every token is sampled from the logits of its own prompt and of the
\* tokens generated for it so far, whatever was reused, restored, drafted, failed or
\* abandoned before.
THEOREM SampledFromRequestHolds ==
  ASSUME Faults \subseteq {"decode"}
  PROVE  Spec => []SampledFromRequest
  <1>1. Inv => SampledFromRequest
    BY InvGivesSampledFromRequest
  <1> QED BY <1>1, Invariance, PTL

\* Under the same assumption input_ids tells what the memory holds, in the Llama and
\* in each state of the cache.
THEOREM TokensDescribeMemoryHolds ==
  ASSUME Faults \subseteq {"decode"}
  PROVE  Spec => []TokensDescribeMemory
  <1>1. Inv => TokensDescribeMemory
    BY InvGivesTokensDescribeMemory
  <1> QED BY <1>1, Invariance, PTL

\* Under the same assumption the arrays, batches and the memory keep their bounds, and
\* a completion is where its phase says.
THEOREM EngineTypesHold ==
  ASSUME Faults \subseteq {"decode"}
  PROVE  Spec => [](TypeOK /\ Progress)
  <1>1. Inv => TypeOK /\ Progress
    BY InvGivesTypeOK DEF Inv, CallOK
  <1> QED BY <1>1, Invariance, PTL

-----------------------------------------------------------------------------
(* The rows of logits *)

\* How many evaluated tokens lie behind the one to be sampled from: none while a
\* prompt or a single token is evaluated, otherwise a draft, which with the token
\* before it makes one batch.
RowsOK ==
  MaxDraft < NBatch =>
    /\ phase = "eval" => \/ n + Len(pend) = idx + 1
                         \/ MaxDraft > 0 /\ n = idx /\ Len(pend) <= MaxDraft + 1
    /\ phase = "sample" => n - idx <= rows /\ (MaxDraft = 0 => n = idx + 1)
    /\ phase \in {"yield", "chunk", "resume"} => n - idx <= rows /\ (MaxDraft = 0 => n = idx)

\* What the running completion may still evaluate has room in the context, and a memory
\* that cannot be rewound holds nothing behind n_tokens.
FitsOK ==
  MaxOpen = 0 /\ (Hybrid => MaxDraft = 0) =>
    /\ phase # "idle" => Len(prompt) + limit <= NCtx /\ Len(out) < limit
    /\ phase = "eval" => n + Len(pend) <= NCtx
    /\ Hybrid /\ phase = "eval" => n = 0 \/ Len(kv) = n
    /\ Hybrid /\ phase \in {"sample", "yield", "chunk", "resume"} => Len(kv) = n

LEMMA BatchLen ==
  ASSUME pend \in Seq(Token)
  PROVE  Len(Batch) = IF NBatch <= Len(pend) THEN NBatch ELSE Len(pend)
  <1> DEFINE m == Min({NBatch, Len(pend)})
  <1>1. Len(pend) \in Nat /\ NBatch \in Nat
    BY LenProperties, EngineAssumption
  <1>2. m \in 0 .. Len(pend) /\ m = IF NBatch <= Len(pend) THEN NBatch ELSE Len(pend)
    BY <1>1, MinOfTwo
  <1>3. Batch = SubSeq(pend, 1, m)
    BY DEF Batch
  <1> HIDE DEF m
  <1>4. Len(Batch) = m
    BY <1>2, <1>3, HeadOf
  <1> QED BY <1>2, <1>4

\* What a batch leaves of the tokens to evaluate.
LEMMA EvalLeaves ==
  ASSUME Inv, Eval
  PROVE  /\ n \in Nat /\ Len(pend) \in Nat /\ idx \in Nat /\ idx' = idx
         /\ Len(Batch) \in 1 .. NBatch /\ Len(Batch) <= Len(pend)
         /\ Len(Batch) = IF NBatch <= Len(pend) THEN NBatch ELSE Len(pend)
         /\ n' = n + Len(Batch) /\ rows' = Len(Batch)
         /\ pend' \in Seq(Token) /\ Len(pend') = Len(pend) - Len(Batch)
         /\ phase' = IF Len(pend') = 0 THEN "sample" ELSE "eval"
         /\ kv' \in Memory /\ Len(kv') = n'
         /\ phase = "eval" /\ Accepts(Base, n, Batch) /\ UNCHANGED call
  <1>1. /\ phase = "eval" /\ Accepts(Base, n, Batch) /\ n' = n + Len(Batch) /\ rows' = Len(Batch)
        /\ pend' = SubSeq(pend, Len(Batch) + 1, Len(pend)) /\ kv' = Decoded(Base, n, Batch)
        /\ phase' = IF pend' = << >> THEN "sample" ELSE "eval"
        /\ idx' = idx /\ UNCHANGED call
    BY DEF Eval
  <1>2. /\ n \in Nat /\ pend \in Seq(Token) /\ Len(pend) \in Nat /\ idx \in Nat
        /\ ids \in Array /\ kv \in Memory /\ Agrees(ids, n, kv)
    BY EngineAssumption, LenProperties DEF Inv, MemoryOK, CallOK
  <1>3. Batch \in Seq(Token) /\ Len(Batch) \in 1 .. NBatch /\ Len(Batch) <= Len(pend) /\ kv' \in Memory
    BY <1>1, EvaluatedBatch
  <1>4. Len(kv') = n + Len(Batch)
    <2>1. Base = Trim(kv, n)
      BY DEF Base
    <2> QED BY <1>1, <1>2, <1>3, <2>1, DecodedFollows
  <1>5. pend' \in Seq(Token) /\ Len(pend') = Len(pend) - Len(Batch)
    <2>1. Len(Batch) \in 0 .. Len(pend)
      BY <1>2, <1>3, EngineAssumption
    <2> QED BY <1>1, <1>2, <2>1, TailOf
  <1>6. Len(pend') = 0 <=> pend' = << >>
    BY <1>5, EmptySeq
  <1> QED BY <1>1, <1>2, <1>3, <1>4, <1>5, <1>6, BatchLen

\* What Match leaves to evaluate of the prompt.
LEMMA MatchLeaves ==
  ASSUME Inv, Match
  PROVE  /\ n' \in Nat /\ Len(pend') = Len(prompt) - n' /\ idx' = Len(prompt) - 1
         /\ phase = "match" /\ phase' = "eval" /\ UNCHANGED call /\ Len(prompt) \in Nat
         /\ Hybrid => n' = 0 \/ Len(kv') = n'
  <1> DEFINE common == PrefixLen(Live, Front(prompt))
             kept   == IF Hybrid /\ common < n THEN 0 ELSE common
             P      == Len(prompt)
  <1>1. /\ idx' = P - 1 /\ phase = "match" /\ phase' = "eval" /\ UNCHANGED call
        /\ pend' = SubSeq(prompt, n' + 1, P)
        /\ \/ n' = kept /\ kept > 0 /\ CanTrim(kv, kept) /\ kv' = Trim(kv, kept)
           \/ n' = 0
    BY DEF Match
  <1>2. /\ n \in Nat /\ kv \in Memory /\ Len(kv) \in Nat /\ n <= Len(kv) /\ kv \in Seq(Token \cup {Hole})
        /\ Agrees(ids, n, kv)
    BY EngineAssumption, LenProperties DEF Inv, MemoryOK, Memory, Agrees
  <1>3. prompt \in Seq(Token) /\ P \in Nat \ {0} /\ kept \in 0 .. n /\ kept <= P - 1
    <2>1. /\ prompt \in Seq(Token) /\ P \in Nat \ {0}
          /\ common \in Nat /\ common <= n /\ common <= P - 1
      BY <1>1, CommonPrefix
    <2> HIDE DEF common, P
    <2> QED BY <2>1, <1>2
  <1> HIDE DEF kept
  <1>4. n' \in 0 .. P
    BY <1>1, <1>3, <1>2
  <1>5. Len(pend') = P - n'
    <2> DEFINE k == n'
    <2>1. k \in 0 .. Len(prompt) /\ pend' = SubSeq(prompt, k + 1, Len(prompt))
      BY <1>1, <1>4
    <2> HIDE DEF k
    <2>2. Len(pend') = Len(prompt) - k
      BY <2>1, <1>3, TailOf
    <2> QED BY <2>2 DEF k
  <1>6. ASSUME Hybrid, n' # 0 PROVE Len(kv') = n'
    <2>1. n' = kept /\ kept > 0 /\ kept <= Len(kv) /\ CanTrim(kv, kept) /\ kv' = Trim(kv, kept)
      BY <1>1, <1>2, <1>3, <1>6
    <2>2. kept = Len(kv)
      BY <1>2, <1>3, <1>6, <2>1 DEF CanTrim
    <2>3. Len(SubSeq(kv, 1, kept)) = kept /\ Min({kept, Len(kv)}) = kept
      BY <1>2, <2>1, <2>2, <1>3, HeadOf, MinOfTwo
    <2> QED BY <2>1, <2>3 DEF Trim
  <1> QED BY <1>1, <1>3, <1>4, <1>5, <1>6

\* Between calls, and before its prompt is matched, there is nothing to say.
LEMMA RowsWhenIdle ==
  ASSUME phase' \in {"idle", "match"} PROVE RowsOK'
  BY DEF RowsOK

LEMMA FitsWhenIdle ==
  ASSUME phase' = "idle" PROVE FitsOK'
  BY DEF FitsOK

\* The steps that end a call.
LEMMA EndsIdle ==
  ASSUME \/ ScoresRaise \/ DecodeRaises \/ EndOfGeneration \/ Abandon
         \/ Embed
  PROVE  phase' = "idle"
  BY DEF ScoresRaise, DecodeRaises, EndOfGeneration, Finish, Abandon, Over, Embed

LEMMA StartArranges ==
  ASSUME Inv, NEW p \in Prompts, NEW m \in 1 .. NCtx, Start(p, m)
  PROVE  /\ phase' \in {"idle", "match"}
         /\ phase' = "match" =>
              /\ Len(prompt') \in Nat /\ Len(prompt') + limit' <= NCtx /\ limit' > 0
              /\ out' = << >>
  <1>1. phase = "idle" /\ phase' \in {"idle", "match"} /\ out' = out
    BY DEF Start, Load
  <1>2. out = << >>
    BY <1>1 DEF Inv, CallOK, Progress
  <1>3. CASE phase' = "match"
    <2>1. prompt' = p /\ limit' = IF m + Len(p) < NCtx THEN m ELSE NCtx - Len(p)
      BY <1>3 DEF Start
    <2> QED BY <2>1, <1>1, <1>2, PromptIsSeq, EngineAssumption
  <1> QED BY <1>1, <1>3

LEMMA RowsMatch ==
  ASSUME Inv, Match PROVE RowsOK'
  <1>1. n' \in Nat /\ Len(pend') = Len(prompt) - n' /\ idx' = Len(prompt) - 1
        /\ phase' = "eval" /\ Len(prompt) \in Nat
    BY MatchLeaves
  <1>2. n' + Len(pend') = idx' + 1
    BY <1>1
  <1> QED BY <1>1, <1>2 DEF RowsOK

LEMMA RowsEval ==
  ASSUME Inv, RowsOK, Eval PROVE RowsOK'
  <1> SUFFICES ASSUME MaxDraft < NBatch PROVE RowsOK'
    BY DEF RowsOK
  <1> DEFINE L == Len(Batch)
  <1>1. /\ n \in Nat /\ Len(pend) \in Nat /\ idx \in Nat /\ idx' = idx
        /\ L \in 1 .. NBatch /\ L = IF NBatch <= Len(pend) THEN NBatch ELSE Len(pend)
        /\ n' = n + L /\ rows' = L /\ Len(pend') = Len(pend) - L
        /\ phase' = IF Len(pend') = 0 THEN "sample" ELSE "eval"
        /\ phase = "eval"
    BY EvalLeaves
  <1> HIDE DEF L
  <1>2. NBatch \in Nat /\ MaxDraft \in Nat
    BY EngineAssumption
  <1>3. CASE n + Len(pend) = idx + 1
    <2>1. PICK l \in Nat : l = Len(pend) /\ L <= l
      BY <1>1, <1>2
    <2>2. /\ n + L + (l - L) = idx + 1
          /\ l - L = 0 => n + L = idx + 1 /\ n + L - idx <= L
      <3>1. n + l = idx + 1 /\ n \in Nat /\ l \in Nat /\ L \in Nat \ {0} /\ idx \in Nat
        BY <1>1, <1>2, <1>3, <2>1
      <3> QED BY <3>1
    <2>3. CASE l - L = 0
      <3>1. phase' = "sample" /\ n' - idx' <= rows' /\ n' = idx' + 1
        BY <1>1, <2>1, <2>2, <2>3
      <3> QED BY <3>1 DEF RowsOK
    <2>4. CASE l - L # 0
      <3>1. phase' = "eval" /\ n' + Len(pend') = idx' + 1
        BY <1>1, <2>1, <2>2, <2>4
      <3> QED BY <3>1 DEF RowsOK
    <2> QED BY <2>3, <2>4
  <1>4. CASE MaxDraft > 0 /\ n = idx /\ Len(pend) <= MaxDraft + 1
    <2>1. Len(pend') = 0 /\ n' - idx' <= rows' /\ phase' = "sample" /\ MaxDraft # 0
      BY <1>1, <1>2, <1>4
    <2> QED BY <2>1 DEF RowsOK
  <1> QED BY <1>1, <1>3, <1>4 DEF RowsOK

LEMMA RowsSample ==
  ASSUME Inv, RowsOK, Sample PROVE RowsOK'
  <1>1. /\ phase = "sample" /\ phase' = "yield" /\ idx' = idx + 1 /\ n' = n /\ rows' = rows
        /\ n \in Nat /\ idx \in Nat /\ rows \in Nat
    BY EngineAssumption DEF Sample, memory, Inv, MemoryOK, CallOK
  <1> QED BY <1>1 DEF RowsOK

LEMMA RowsConsume ==
  ASSUME Inv, RowsOK, Consume PROVE RowsOK'
  <1>1. CASE phase' = "idle"
    BY <1>1, RowsWhenIdle
  <1>2. CASE phase' # "idle"
    <2>1. phase = "yield" /\ phase' \in {"resume", "chunk"} /\ UNCHANGED <<memory, loop>>
      BY <1>2 DEF Consume, Finish, Over
    <2> QED BY <2>1 DEF RowsOK, memory, loop
  <1> QED BY <1>1, <1>2

LEMMA RowsAcceptDrafted ==
  ASSUME Inv, RowsOK, AcceptDrafted PROVE RowsOK'
  <1>1. /\ phase \in {"chunk", "resume"} /\ phase' = "sample" /\ idx < n
        /\ n' = n /\ idx' = idx /\ rows' = rows /\ n \in Nat /\ idx \in Nat
    BY EngineAssumption DEF AcceptDrafted, Resumed, memory, loop, Inv, MemoryOK, CallOK
  <1> QED BY <1>1 DEF RowsOK

\* What generate evaluates when it goes on: the token, and a draft the context has
\* room for.
LEMMA ContinueLeaves ==
  ASSUME Inv, Continue
  PROVE  /\ phase \in {"chunk", "resume"} /\ phase' = "eval" /\ UNCHANGED call
         /\ n' = idx /\ idx' = idx /\ idx \in Nat /\ n \in Nat /\ idx <= n
         /\ idx + 1 = Len(Context)
         /\ n = idx => kv' = kv
         /\ Len(pend') \in Nat
         /\ \/ Len(pend') = 1
            \/ MaxDraft > 0 /\ Len(pend') <= MaxDraft + 1
         /\ n' < NCtx => n' + Len(pend') <= NCtx
  <1>1. /\ Resumed /\ phase' = "eval" /\ UNCHANGED <<cache, call, idx, tok, rows>>
        /\ \/ idx < n /\ n' = idx
           \/ idx >= n /\ UNCHANGED <<n, kv>>
        /\ \/ MaxDraft > 0 /\ \E d \in Draft : pend' = <<tok>> \o d
           \/ pend' = <<tok>>
    BY DEF Continue
  <1>2. idx \in Nat /\ n \in Nat /\ idx <= n /\ idx + 1 = Len(Context) /\ tok \in Token
    BY <1>1, WhenResumed
  <1>3. n' = idx /\ (n = idx => kv' = kv)
    BY <1>1, <1>2
  <1>4. CASE pend' = <<tok>>
    <2>1. Len(pend') = 1
      BY <1>4
    <2> QED BY <2>1, <1>1, <1>2, <1>3, EngineAssumption DEF Resumed
  <1>5. ASSUME MaxDraft > 0, NEW d \in Draft, pend' = <<tok>> \o d
        PROVE  /\ Len(pend') \in Nat /\ Len(pend') <= MaxDraft + 1
               /\ n' < NCtx => n' + Len(pend') <= NCtx
    <2>1. PICK k \in 0 .. DraftRoom : d \in [1 .. k -> Token]
      BY DEF Draft
    <2>2. k \in Nat /\ d \in Seq(Token) /\ Len(d) = k
      BY <2>1, IsASeq
    <2>3. Len(pend') = 1 + k
      <3>1. <<tok>> \in Seq(Token) /\ Len(<<tok>>) = 1
        BY <1>2
      <3> QED BY <3>1, <2>2, <1>5, ConcatProperties
    <2>4. MaxDraft \in Nat /\ NCtx \in Nat
      BY EngineAssumption
    <2>5. CASE idx < NCtx
      <3> DEFINE room == NCtx - idx - 1
      <3>1. room \in Nat /\ idx + 1 + room = NCtx
        BY <2>4, <2>5, <1>2
      <3>2. DraftRoom = Min({MaxDraft, room})
        BY <2>5, <1>3 DEF DraftRoom
      <3> HIDE DEF room
      <3>3. DraftRoom \in Nat /\ DraftRoom <= MaxDraft /\ DraftRoom <= room
        BY <2>4, <3>1, <3>2, MinOfTwo
      <3>4. k <= MaxDraft /\ k <= room
        BY <2>1, <3>3, <2>4, <3>1
      <3>5. idx + (1 + k) <= NCtx /\ 1 + k \in Nat /\ 1 + k <= MaxDraft + 1
        BY <2>2, <2>4, <3>1, <3>4, <1>2
      <3> QED BY <2>3, <3>5, <1>3
    <2>6. CASE ~(idx < NCtx)
      <3>1. DraftRoom = MaxDraft - 1 /\ ~(n' < NCtx)
        BY <2>6, <1>3 DEF DraftRoom
      <3>2. 1 + k \in Nat /\ 1 + k <= MaxDraft + 1
        BY <2>1, <2>2, <2>4, <3>1
      <3> QED BY <2>3, <3>1, <3>2
    <2> QED BY <2>5, <2>6
  <1>6. CASE MaxDraft > 0 /\ \E d \in Draft : pend' = <<tok>> \o d
    BY <1>1, <1>2, <1>3, <1>5, <1>6 DEF Resumed
  <1> QED BY <1>1, <1>4, <1>6

LEMMA RowsContinue ==
  ASSUME Inv, Continue PROVE RowsOK'
  <1>1. /\ phase' = "eval" /\ n' = idx /\ idx' = idx /\ idx \in Nat /\ Len(pend') \in Nat
        /\ \/ Len(pend') = 1
           \/ MaxDraft > 0 /\ Len(pend') <= MaxDraft + 1
    BY ContinueLeaves
  <1>2. n' + Len(pend') = idx' + 1 \/ (MaxDraft > 0 /\ n' = idx' /\ Len(pend') <= MaxDraft + 1)
    BY <1>1
  <1> QED BY <1>1, <1>2 DEF RowsOK

LEMMA RowsNext ==
  ASSUME Inv, RowsOK, [Next]_vars PROVE RowsOK'
  <1>1. CASE UNCHANGED vars
    BY <1>1 DEF vars, RowsOK
  <1>2. ASSUME NEW p \in Prompts, NEW m \in 1 .. NCtx, Start(p, m) PROVE RowsOK'
    BY <1>2, StartArranges, RowsWhenIdle
  <1>3. CASE ScoresRaise \/ DecodeRaises \/ EndOfGeneration \/ Abandon \/ Embed
    BY <1>3, EndsIdle, RowsWhenIdle
  <1>4. CASE Match \/ Eval \/ Sample \/ Consume \/ AcceptDrafted \/ Continue
    BY <1>4, RowsMatch, RowsEval, RowsSample, RowsConsume, RowsAcceptDrafted, RowsContinue
  <1> QED BY <1>1, <1>2, <1>3, <1>4 DEF Next, Run

Unhurried == MaxOpen = 0 /\ (Hybrid => MaxDraft = 0)

LEMMA FitsStart ==
  ASSUME Inv, NEW p \in Prompts, NEW m \in 1 .. NCtx, Start(p, m) PROVE FitsOK'
  <1>1. CASE phase' = "idle"
    BY <1>1, FitsWhenIdle
  <1>2. CASE phase' = "match"
    <2>1. Len(prompt') + limit' <= NCtx /\ limit' > 0 /\ Len(out') = 0
      BY <1>2, StartArranges, EmptySeq
    <2> QED BY <2>1, <1>2 DEF FitsOK
  <1> QED BY <1>1, <1>2, StartArranges

LEMMA FitsMatch ==
  ASSUME Inv, FitsOK, Match PROVE FitsOK'
  <1> SUFFICES ASSUME Unhurried PROVE FitsOK'
    BY DEF FitsOK, Unhurried
  <1>1. /\ n' \in Nat /\ Len(pend') = Len(prompt) - n' /\ Len(prompt) \in Nat
        /\ phase = "match" /\ phase' = "eval" /\ UNCHANGED call
        /\ Hybrid => n' = 0 \/ Len(kv') = n'
    BY MatchLeaves
  <1>2. Len(prompt) + limit <= NCtx /\ Len(out) < limit
    BY <1>1 DEF FitsOK, Unhurried
  <1>3. limit \in Nat /\ NCtx \in Nat
    BY EngineAssumption DEF Inv, CallOK
  <1>4. n' + Len(pend') <= NCtx
    BY <1>1, <1>2, <1>3
  <1> QED BY <1>1, <1>2, <1>4 DEF FitsOK, call

LEMMA FitsEval ==
  ASSUME Inv, FitsOK, Eval PROVE FitsOK'
  <1> SUFFICES ASSUME Unhurried PROVE FitsOK'
    BY DEF FitsOK, Unhurried
  <1> DEFINE L == Len(Batch)
  <1>1. /\ n \in Nat /\ Len(pend) \in Nat /\ L \in 1 .. NBatch /\ NBatch \in Nat /\ NCtx \in Nat
        /\ n' = n + L /\ Len(pend') = Len(pend) - L
        /\ phase' \in {"sample", "eval"} /\ Len(kv') = n' /\ phase = "eval" /\ UNCHANGED call
    BY EvalLeaves, EngineAssumption
  <1> HIDE DEF L
  <1>2. Len(prompt) + limit <= NCtx /\ Len(out) < limit /\ n + Len(pend) <= NCtx
    BY <1>1 DEF FitsOK, Unhurried
  <1>3. n' + Len(pend') <= NCtx
    <2>1. (n + L) + (Len(pend) - L) <= NCtx
      BY <1>1, <1>2
    <2> QED BY <2>1, <1>1
  <1> QED BY <1>1, <1>2, <1>3 DEF FitsOK, call

LEMMA FitsSample ==
  ASSUME Inv, FitsOK, Sample PROVE FitsOK'
  <1>1. phase = "sample" /\ phase' = "yield" /\ UNCHANGED <<memory, call>>
    BY DEF Sample
  <1> QED BY <1>1 DEF FitsOK, memory, call

LEMMA FitsConsume ==
  ASSUME Inv, FitsOK, Consume PROVE FitsOK'
  <1> SUFFICES ASSUME Unhurried PROVE FitsOK'
    BY DEF FitsOK, Unhurried
  <1>1. CASE phase' = "idle"
    BY <1>1, FitsWhenIdle
  <1>2. CASE phase' # "idle"
    <2>1. open = 0 /\ {open} \cup 1 .. MaxOpen = {0}
      BY DEF Inv, CallOK, Unhurried
    <2>2. PICK missing \in {0} :
            \/ /\ missing > 0 \/ Len(Append(out, tok)) < limit
               /\ out' = Append(out, tok)
               /\ phase' = IF missing > 0 THEN "resume" ELSE "chunk"
               /\ UNCHANGED <<memory, prompt, limit>>
            \/ Finish(Append(out, tok))
      BY <2>1 DEF Consume
    <2>3. /\ Len(Append(out, tok)) < limit /\ out' = Append(out, tok)
          /\ phase' = "chunk" /\ UNCHANGED <<memory, prompt, limit>>
      BY <1>2, <2>2 DEF Finish, Over
    <2>4. phase = "yield"
      BY DEF Consume
    <2> QED BY <2>3, <2>4 DEF FitsOK, memory
  <1> QED BY <1>1, <1>2

LEMMA FitsAcceptDrafted ==
  ASSUME Inv, FitsOK, AcceptDrafted PROVE FitsOK'
  <1>1. phase \in {"chunk", "resume"} /\ phase' = "sample" /\ UNCHANGED <<memory, call>>
    BY DEF AcceptDrafted, Resumed
  <1> QED BY <1>1 DEF FitsOK, memory, call

LEMMA FitsContinue ==
  ASSUME Inv, RowsOK, FitsOK, Continue PROVE FitsOK'
  <1> SUFFICES ASSUME Unhurried PROVE FitsOK'
    BY DEF FitsOK, Unhurried
  <1>1. /\ phase \in {"chunk", "resume"} /\ phase' = "eval" /\ UNCHANGED call
        /\ n' = idx /\ idx \in Nat /\ n \in Nat /\ idx <= n /\ idx + 1 = Len(Context)
        /\ n = idx => kv' = kv
        /\ n' < NCtx => n' + Len(pend') <= NCtx
    BY ContinueLeaves
  <1>2. Len(prompt) + limit <= NCtx /\ Len(out) < limit
    BY <1>1 DEF FitsOK, Unhurried
  <1>3. n' < NCtx
    <2>1. Len(Context) = Len(prompt) + Len(out)
      BY ConcatProperties DEF Context, Inv, CallOK
    <2>2. Len(prompt) \in Nat /\ Len(out) \in Nat /\ limit \in Nat /\ NCtx \in Nat
      BY LenProperties, EngineAssumption DEF Inv, CallOK
    <2> QED BY <2>1, <2>2, <1>1, <1>2
  <1>4. Hybrid => Len(kv') = n'
    <2> SUFFICES ASSUME Hybrid PROVE Len(kv') = n'
      OBVIOUS
    <2>1. MaxDraft = 0 /\ MaxDraft < NBatch
      BY EngineAssumption DEF Unhurried
    <2>2. n = idx /\ Len(kv) = n
      BY <2>1, <1>1 DEF RowsOK, FitsOK, Unhurried
    <2> QED BY <2>2, <1>1
  <1> QED BY <1>1, <1>2, <1>3, <1>4 DEF FitsOK, call

LEMMA FitsNext ==
  ASSUME Inv, RowsOK, FitsOK, [Next]_vars PROVE FitsOK'
  <1>1. CASE UNCHANGED vars
    BY <1>1 DEF vars, FitsOK
  <1>2. ASSUME NEW p \in Prompts, NEW m \in 1 .. NCtx, Start(p, m) PROVE FitsOK'
    BY <1>2, FitsStart
  <1>3. CASE ScoresRaise \/ DecodeRaises \/ EndOfGeneration \/ Abandon \/ Embed
    BY <1>3, EndsIdle, FitsWhenIdle
  <1>4. CASE Match \/ Eval \/ Sample \/ Consume \/ AcceptDrafted \/ Continue
    BY <1>4, FitsMatch, FitsEval, FitsSample, FitsConsume, FitsAcceptDrafted, FitsContinue
  <1> QED BY <1>1, <1>2, <1>3, <1>4 DEF Next, Run

LEMMA RowsAndFits ==
  ASSUME Faults \subseteq {"decode"}
  PROVE  Spec => [](Inv /\ RowsOK /\ FitsOK)
  <1>1. Init => Inv /\ RowsOK /\ FitsOK
    BY InitOK DEF Init, RowsOK, FitsOK
  <1>2. Inv /\ RowsOK /\ FitsOK /\ [Next]_vars => (Inv /\ RowsOK /\ FitsOK)'
    BY NextOK, RowsNext, FitsNext
  <1> QED BY <1>1, <1>2, PTL DEF Spec

\* generate and eval: with a draft that fits a batch together with the token before it,
\* the row of logits a token is sampled from is one llama_decode has just put out, at
\* any token of the drafts; without a draft model it is the last.
THEOREM SampledRowIsOutputHolds ==
  ASSUME Faults \subseteq {"decode"}, MaxDraft < NBatch
  PROVE  Spec => []SampledRowIsOutput
  <1>1. Inv /\ RowsOK => SampledRowIsOutput
    <2> SUFFICES ASSUME Inv, RowsOK, phase = "sample"
                 PROVE  idx < n /\ n - idx <= IF MaxDraft > 0 \/ LogitsAll THEN rows ELSE 1
      BY DEF SampledRowIsOutput
    <2>1. n - idx <= rows /\ (MaxDraft = 0 => n = idx + 1)
      BY DEF RowsOK
    <2>2. idx < n /\ n \in Nat /\ idx \in Nat /\ MaxDraft \in Nat
      BY EngineAssumption DEF Inv, MemoryOK, CallOK, Progress
    <2>3. ~(MaxDraft > 0) => n - idx <= 1
      BY <2>1, <2>2
    <2> QED BY <2>1, <2>2, <2>3
  <1> QED BY <1>1, RowsAndFits, PTL

LEMMA FitsGivesRoom ==
  ASSUME Inv, FitsOK, Unhurried PROVE MemoryAcceptsBatches
  <1> SUFFICES ASSUME phase = "eval" PROVE Accepts(Base, n, Batch)
    BY DEF MemoryAcceptsBatches
  <1>1. /\ kv \in Memory /\ Len(kv) \in Nat /\ n \in Nat /\ Agrees(ids, n, kv) /\ n <= Len(kv)
        /\ kv \in Seq(Token \cup {Hole})
    BY LenProperties, EngineAssumption DEF Inv, MemoryOK, Memory, Agrees
  <1>2. n + Len(Batch) <= NCtx
    <2>1. pend \in Seq(Token) /\ pend # << >> /\ n + Len(pend) <= NCtx
      BY DEF Inv, CallOK, Progress, FitsOK, Unhurried
    <2>2. Len(Batch) \in Nat /\ Len(Batch) <= Len(pend) /\ Len(pend) \in Nat /\ NCtx \in Nat
      BY <2>1, BatchIsHead, LenProperties, EngineAssumption
    <2> QED BY <2>1, <2>2, <1>1
  <1>3. CanTrim(kv, n)
    BY <1>1 DEF CanTrim, FitsOK, Unhurried
  <1>4. Len(Base) = n
    <2>1. Min({n, Len(kv)}) = n
      BY <1>1, MinOfTwo
    <2>2. Len(SubSeq(kv, 1, n)) = n
      BY <1>1, HeadOf
    <2> QED BY <2>1, <2>2, <1>3 DEF Base, Trim
  <1> QED BY <1>2, <1>4 DEF Accepts

\* generate, eval and create_completion: what eval gives to llama_decode follows the
\* position the memory has reached and fits the context, as long as every token is a
\* whole character and no draft has to be taken back from a memory that cannot be rewound.
THEOREM MemoryAcceptsBatchesHolds ==
  ASSUME Faults \subseteq {"decode"}, MaxOpen = 0, Hybrid => MaxDraft = 0
  PROVE  Spec => []MemoryAcceptsBatches
  <1>1. Inv /\ FitsOK => MemoryAcceptsBatches
    BY FitsGivesRoom DEF Unhurried
  <1> QED BY <1>1, RowsAndFits, PTL

-----------------------------------------------------------------------------
(* What is evicted last *)

\* What a state that is kept shares with the running prompt.
Shared(e) == PrefixLen(e.key, prompt)

\* While a completion runs, the last state of a RAM cache shares most with its prompt.
Favoured ==
  ~OnDisk /\ phase # "idle" =>
    \A i \in DOMAIN cache : Shared(cache[i]) <= Shared(cache[Len(cache)])

\* A sequence shares all of p with what p is a prefix of.
LEMMA PrefixLenOfMore ==
  ASSUME NEW S, NEW p \in Seq(S), NEW o \in Seq(S), NEW a \in Seq(S)
  PROVE  PrefixLen(a, p) <= PrefixLen(p \o o, p)
  <1> DEFINE m == Min({Len(p \o o), Len(p)})
             K == {k \in 0 .. m : \A i \in 1 .. k : (p \o o)[i] = p[i]}
  <1>1. /\ Len(p) \in Nat /\ Len(o) \in Nat /\ Len(p \o o) = Len(p) + Len(o)
        /\ \A i \in 1 .. Len(p) : (p \o o)[i] = p[i]
    <2>1. /\ Len(p) \in Nat /\ Len(o) \in Nat /\ Len(p \o o) = Len(p) + Len(o)
          /\ \A i \in 1 .. Len(p) + Len(o) :
               (p \o o)[i] = IF i <= Len(p) THEN p[i] ELSE o[i - Len(p)]
      BY ConcatProperties, LenProperties
    <2> QED BY <2>1
  <1>2. m = Len(p)
    <2>1. Len(p \o o) \in Nat /\ ~(Len(p \o o) < Len(p))
      BY <1>1
    <2>2. Min({Len(p \o o), Len(p)}) = IF Len(p \o o) <= Len(p) THEN Len(p \o o) ELSE Len(p)
      BY <1>1, <2>1, MinOfTwo
    <2> QED BY <1>1, <2>1, <2>2
  <1>3. Len(p) \in K
    BY <1>1, <1>2
  <1>4. Max(K) >= Len(p) /\ Max(K) \in 0 .. m
    <2> HIDE DEF m
    <2>1. K \in SUBSET (0 .. m) /\ K # {} /\ m \in Nat
      BY <1>1, <1>2, <1>3
    <2> HIDE DEF K
    <2> QED BY <1>3, <2>1, GreatestElement
  <1>5. PrefixLen(p \o o, p) = Max(K)
    BY DEF PrefixLen
  <1>6. PrefixLen(a, p) \in Nat /\ PrefixLen(a, p) <= Len(p)
    BY PrefixLenAgrees
  <1> HIDE DEF m, K
  <1> QED BY <1>1, <1>2, <1>4, <1>5, <1>6

\* What _find_longest_prefix_key finds shares most with the key; where it finds nothing
\* there is nothing to share.
LEMMA BestSharesMost ==
  ASSUME NEW c \in Seq(State), NEW p \in Seq(Token)
  PROVE  /\ \A i \in Best(c, p), j \in 1 .. Len(c) : PrefixLen(c[j].key, p) <= PrefixLen(c[i].key, p)
         /\ Best(c, p) = {} => \A j \in 1 .. Len(c) : PrefixLen(c[j].key, p) = 0
  <1> DEFINE len(j)  == PrefixLen(c[j].key, p)
             longest == {j \in DOMAIN c : len(j) > 0 /\ \A k \in DOMAIN c : len(k) <= len(j)}
             lens    == {len(j) : j \in 1 .. Len(c)}
  <1>1. DOMAIN c = 1 .. Len(c) /\ Len(c) \in Nat
    BY LenProperties
  <1>2. \A j \in 1 .. Len(c) : len(j) \in Nat /\ len(j) <= Len(p)
    <2> SUFFICES ASSUME NEW j \in 1 .. Len(c) PROVE len(j) \in Nat /\ len(j) <= Len(p)
      OBVIOUS
    <2>1. c[j] \in State
      BY ElementOfSeq
    <2>2. c[j].key \in Seq(Token)
      BY <2>1 DEF State, TokenSeq
    <2> QED BY <2>2, PrefixLenAgrees
  <1>3. Best(c, p) = IF OnDisk \/ longest = {} THEN longest ELSE {Min(longest)}
    BY DEF Best
  <1>4. Best(c, p) \subseteq longest /\ (Best(c, p) = {} => longest = {})
    <2>1. longest \in SUBSET Nat
      BY <1>1
    <2> HIDE DEF longest
    <2> QED BY <1>3, <2>1, LeastElement
  <1>5. ASSUME longest = {}, NEW j \in 1 .. Len(c) PROVE len(j) = 0
    <2>1. lens \in SUBSET (0 .. Len(p)) /\ lens # {} /\ Len(p) \in Nat
      BY <1>2, LenProperties
    <2>2. Max(lens) \in lens /\ \A l \in lens : Max(lens) >= l
      <3> HIDE DEF lens
      <3> QED BY <2>1, GreatestElement
    <2>3. PICK i \in 1 .. Len(c) : len(i) = Max(lens)
      BY <2>2
    <2>4. \A k \in 1 .. Len(c) : len(k) <= len(i)
      BY <2>2, <2>3
    <2> HIDE DEF lens, len
    <2>5. ~(len(i) > 0)
      BY <1>1, <1>5, <2>4
    <2> QED BY <1>2, <2>4, <2>5
  <1>6. \A i \in longest, j \in 1 .. Len(c) : len(j) <= len(i)
    BY <1>1
  <1> HIDE DEF longest
  <1> QED BY <1>4, <1>5, <1>6

\* What RemoveAt leaves, by position.
LEMMA RemovedAt ==
  ASSUME NEW S, NEW c \in Seq(S), NEW i \in 1 .. Len(c)
  PROVE  /\ RemoveAt(c, i) \in Seq(S) /\ Len(RemoveAt(c, i)) = Len(c) - 1 /\ Len(c) \in Nat
         /\ \A j \in 1 .. Len(c) - 1 : RemoveAt(c, i)[j] = IF j < i THEN c[j] ELSE c[j + 1]
  <1> DEFINE L == Len(c)
             a == SubSeq(c, 1, i - 1)
             b == SubSeq(c, i + 1, Len(c))
  <1>1. L \in Nat /\ i \in 1 .. L /\ i \in Nat
    BY LenProperties
  <1>2. a \in Seq(S) /\ Len(a) = i - 1 /\ \A j \in 1 .. i - 1 : a[j] = c[j]
    <2>1. i - 1 \in 0 .. Len(c)
      BY <1>1
    <2>2. /\ SubSeq(c, 1, i - 1) \in Seq(S) /\ Len(SubSeq(c, 1, i - 1)) = i - 1
          /\ \A j \in 1 .. i - 1 : SubSeq(c, 1, i - 1)[j] = c[j]
      BY <2>1, HeadOf
    <2> QED BY <2>2
  <1>3. b \in Seq(S) /\ Len(b) = L - i /\ \A j \in 1 .. L - i : b[j] = c[i + j]
    <2>1. i \in 0 .. Len(c)
      BY <1>1
    <2>2. /\ SubSeq(c, i + 1, Len(c)) \in Seq(S) /\ Len(SubSeq(c, i + 1, Len(c))) = Len(c) - i
          /\ \A j \in 1 .. Len(c) - i : SubSeq(c, i + 1, Len(c))[j] = c[i + j]
      BY <2>1, TailOf
    <2> QED BY <2>2
  <1> HIDE DEF L, a, b
  <1>4. /\ a \o b \in Seq(S) /\ Len(a \o b) = L - 1
        /\ \A j \in 1 .. L - 1 : (a \o b)[j] = IF j <= i - 1 THEN a[j] ELSE b[j - (i - 1)]
    <2>1. /\ a \o b \in Seq(S) /\ Len(a \o b) = Len(a) + Len(b)
          /\ \A j \in 1 .. Len(a) + Len(b) : (a \o b)[j] = IF j <= Len(a) THEN a[j] ELSE b[j - Len(a)]
      BY <1>2, <1>3, ConcatProperties
    <2>2. Len(a) + Len(b) = L - 1
      BY <1>1, <1>2, <1>3
    <2> QED BY <2>1, <2>2, <1>2
  <1>5. ASSUME NEW j \in 1 .. L - 1 PROVE (a \o b)[j] = IF j < i THEN c[j] ELSE c[j + 1]
    <2>1. CASE j < i
      <3>1. j <= i - 1 /\ j \in 1 .. i - 1
        BY <1>1, <2>1
      <3> QED BY <3>1, <1>2, <1>4, <2>1
    <2>2. CASE ~(j < i)
      <3>1. ~(j <= i - 1) /\ j - (i - 1) \in 1 .. L - i /\ i + (j - (i - 1)) = j + 1
        BY <1>1, <2>2
      <3> QED BY <3>1, <1>3, <1>4, <2>2
    <2> QED BY <2>1, <2>2
  <1>6. RemoveAt(c, i) = a \o b
    BY DEF RemoveAt, a, b
  <1> QED BY <1>1, <1>4, <1>5, <1>6 DEF L

LEMMA FavouredStart ==
  ASSUME Inv, NEW p \in Prompts, NEW m \in 1 .. NCtx, Start(p, m)
  PROVE  Favoured'
  <1> SUFFICES ASSUME ~OnDisk, phase' # "idle", NEW i \in DOMAIN cache'
               PROVE  PrefixLen(cache'[i].key, p) <= PrefixLen(cache'[Len(cache')].key, p)
    BY DEF Favoured, Shared, Start
  <1>1. cache \in Seq(State) /\ p \in Seq(Token)
    <2>1. GoodState \subseteq State
      BY DEF GoodState
    <2> QED BY <2>1, PromptIsSeq DEF Inv, CacheOK
  <1>2. CASE Best(cache, p) = {} /\ UNCHANGED cache
    <2>1. i \in 1 .. Len(cache) /\ Len(cache) \in 1 .. Len(cache)
      BY <1>1, <1>2, LenProperties
    <2>2. PrefixLen(cache[i].key, p) = 0 /\ PrefixLen(cache[Len(cache)].key, p) = 0
      BY <1>1, <1>2, <2>1, BestSharesMost
    <2> QED BY <1>2, <2>2
  <1>3. ASSUME NEW b \in Best(cache, p), cache' = Taken(cache, b)
        PROVE  PrefixLen(cache'[i].key, p) <= PrefixLen(cache'[Len(cache')].key, p)
    <2> DEFINE d == RemoveAt(cache, b)
    <2>1. b \in 1 .. Len(cache)
      BY <1>1, BestIsStored
    <2>2. /\ d \in Seq(State) /\ Len(d) = Len(cache) - 1 /\ Len(cache) \in Nat
          /\ \A j \in 1 .. Len(cache) - 1 : d[j] = IF j < b THEN cache[j] ELSE cache[j + 1]
      BY <1>1, <2>1, RemovedAt
    <2>3. cache' = Append(d, cache[b]) /\ cache[b] \in State
      BY <1>1, <1>3, <2>1, ElementOfSeq DEF Taken
    <2> HIDE DEF d
    <2>4. /\ Len(cache') = Len(d) + 1 /\ cache'[Len(d) + 1] = cache[b] /\ DOMAIN cache' = 1 .. Len(d) + 1
          /\ \A j \in 1 .. Len(d) : cache'[j] = d[j]
      <3>1. /\ Append(d, cache[b]) \in Seq(State) /\ Len(Append(d, cache[b])) = Len(d) + 1
            /\ Append(d, cache[b])[Len(d) + 1] = cache[b]
            /\ \A j \in 1 .. Len(d) : Append(d, cache[b])[j] = d[j]
        BY <2>2, <2>3, AppendProperties
      <3> QED BY <2>3, <3>1, LenProperties
    <2>5. cache'[Len(cache')] = cache[b]
      BY <2>4
    <2>6. PICK j \in 1 .. Len(cache) : cache'[i] = cache[j]
      <3>1. CASE i = Len(d) + 1
        BY <2>1, <2>4, <3>1
      <3>2. CASE i # Len(d) + 1
        <4>1. i \in 1 .. Len(d) /\ i \in 1 .. Len(cache) - 1
          BY <2>2, <2>4, <3>2
        <4>2. i \in 1 .. Len(cache) /\ i + 1 \in 1 .. Len(cache)
          BY <2>2, <4>1
        <4> QED BY <2>2, <2>4, <4>1, <4>2
      <3> QED BY <3>1, <3>2
    <2>7. PrefixLen(cache[j].key, p) <= PrefixLen(cache[b].key, p)
      BY <1>1, BestSharesMost
    <2> QED BY <2>5, <2>6, <2>7
  <1> QED BY <1>2, <1>3 DEF Start

LEMMA FavouredNext ==
  ASSUME Inv, Favoured, [Next]_vars PROVE Favoured'
  <1>1. CASE phase' = "idle"
    BY <1>1 DEF Favoured
  <1>2. CASE UNCHANGED <<cache, prompt>> /\ phase # "idle"
    BY <1>2 DEF Favoured, Shared
  <1>3. ASSUME NEW p \in Prompts, NEW m \in 1 .. NCtx, Start(p, m) PROVE Favoured'
    BY <1>3, FavouredStart
  <1>4. CASE Match \/ Eval \/ Sample \/ AcceptDrafted \/ Continue
    BY <1>2, <1>4 DEF Match, Eval, Sample, AcceptDrafted, Continue, Resumed, call
  <1>5. CASE ScoresRaise \/ DecodeRaises \/ Abandon \/ EndOfGeneration
    BY <1>1, <1>5 DEF ScoresRaise, DecodeRaises, Abandon, EndOfGeneration, Finish, Over
  <1>6. CASE Consume
    BY <1>1, <1>2, <1>6 DEF Consume, Finish, Over
  <1>7. CASE Embed \/ UNCHANGED vars
    <2>1. UNCHANGED <<phase, cache, prompt>>
      BY <1>7 DEF Embed, call, vars
    <2> QED BY <2>1 DEF Favoured, Shared
  <1> QED BY <1>3, <1>4, <1>5, <1>6, <1>7 DEF Next, Run

\* What the new state leaves of the others ends with the last of them.
LEMMA KeptShareMost ==
  ASSUME Inv, Favoured, NEW o \in Seq(Token), Finish(o), ~OnDisk, phase # "idle",
         Keys(cache) \cap Keys(cache') # {}
  PROVE  \E k \in Keys(cache) \cap Keys(cache') :
           \A old \in Keys(cache) : PrefixLen(old, prompt) <= PrefixLen(k, prompt)
  <1> DEFINE e       == [key |-> prompt \o o, ids |-> ids, n |-> n, kv |-> kv, size |-> Len(kv)]
             same    == {i \in DOMAIN cache : cache[i].key = e.key}
             others  == IF same = {} THEN cache ELSE RemoveAt(cache, Min(same))
             all     == Append(others, e)
             kept(k) == SubSeq(all, k + 1, Len(all))
             enough  == {k \in 0 .. Len(all) : k = Len(all) \/ Size(kept(k)) <= Capacity}
             L       == Len(cache)
  <1>1. cache \in Seq(State) /\ prompt \in Seq(Token) /\ prompt \o o \in Seq(Token)
    <2>1. GoodState \subseteq State
      BY DEF GoodState
    <2> QED BY <2>1, ConcatProperties DEF Inv, CacheOK, CallOK
  <1>2. e \in State /\ e.key = prompt \o o
    <2>1. Len(kv) \in Nat
      BY LenProperties DEF Inv, MemoryOK, Memory
    <2> QED BY <1>1, <2>1 DEF State, TokenSeq, Inv, MemoryOK
  <1>3. L \in Nat /\ DOMAIN cache = 1 .. L
    BY <1>1, LenProperties
  <1>4. others \in Seq(State)
    <2>1. same # {} => Min(same) \in 1 .. L
      <3>1. same \in SUBSET Nat /\ same \subseteq 1 .. L
        BY <1>3
      <3> HIDE DEF same
      <3> QED BY <3>1, LeastElement
    <2> HIDE DEF same
    <2> QED BY <1>1, <2>1, RemoveAtKeeps
  <1>5. /\ all \in Seq(State) /\ Len(all) = Len(others) + 1 /\ Len(others) \in Nat
        /\ Len(all) \in Nat /\ all[Len(others) + 1] = e /\ \A j \in 1 .. Len(others) : all[j] = others[j]
    <2> HIDE DEF others, e
    <2> QED BY <1>2, <1>4, AppendProperties, LenProperties
  <1>6. cache' = kept(Min(enough))
    BY DEF Finish, Stored
  <1>7. Min(enough) \in 0 .. Len(all)
    <2> HIDE DEF all
    <2>1. Len(all) \in Nat
      <3> HIDE DEF others
      <3> QED BY <1>5
    <2>2. Len(all) \in enough
      BY <2>1
    <2>3. enough \in SUBSET Nat /\ enough # {} /\ enough \subseteq 0 .. Len(all)
      BY <2>1, <2>2
    <2> HIDE DEF enough
    <2> QED BY <2>3, LeastElement
  <1> DEFINE m == Min(enough)
  <1> HIDE DEF m, all, enough, others, same, e
  <1>8. /\ cache' \in Seq(State) /\ Len(cache') = Len(all) - m /\ DOMAIN cache' = 1 .. Len(all) - m
        /\ \A j \in 1 .. Len(all) - m : cache'[j] = all[m + j]
    <2>1. /\ kept(m) \in Seq(State) /\ Len(kept(m)) = Len(all) - m
          /\ \A j \in 1 .. Len(all) - m : kept(m)[j] = all[m + j]
      BY <1>5, <1>7, TailOf DEF m
    <2>2. cache' = kept(m)
      BY <1>6 DEF m
    <2> HIDE DEF kept
    <2> QED BY <2>1, <2>2, LenProperties
  <1>9. PICK j \in 1 .. Len(all) - m : cache'[j].key \in Keys(cache)
    BY <1>8 DEF Keys
  <1>10. m \in Nat /\ m < Len(all) /\ Len(all) - m \in 1 .. Len(all) - m /\ m + (Len(all) - m) = Len(all)
    BY <1>5, <1>7, <1>9 DEF m
  <1>11. CASE e.key \in Keys(cache)
    <2>1. cache'[Len(all) - m] = e
      BY <1>5, <1>8, <1>10
    <2>2. e.key \in Keys(cache')
      BY <1>8, <1>10, <2>1 DEF Keys
    <2>3. ASSUME NEW old \in Keys(cache) PROVE PrefixLen(old, prompt) <= PrefixLen(e.key, prompt)
      <3>1. PICK i \in 1 .. L : old = cache[i].key
        BY <1>3 DEF Keys
      <3>2. cache[i] \in State
        BY <1>1, ElementOfSeq DEF L
      <3>3. old \in Seq(Token)
        BY <3>1, <3>2 DEF State, TokenSeq
      <3> QED BY <1>1, <1>2, <3>3, PrefixLenOfMore
    <2> QED BY <1>11, <2>2, <2>3
  <1>12. CASE e.key \notin Keys(cache)
    <2>1. others = cache
      <3>1. same = {}
        BY <1>12 DEF Keys, same
      <3> QED BY <3>1 DEF others
    <2>2. cache'[j] = all[m + j] /\ m + j \in 1 .. Len(others) + 1 /\ cache'[j] # e
      BY <1>5, <1>8, <1>9, <1>10, <1>12
    <2>3. m + j \in 1 .. L /\ m < L /\ L - m \in 1 .. Len(all) - m /\ m + (L - m) = L /\ L \in 1 .. L
      BY <1>3, <1>5, <1>10, <2>1, <2>2
    <2>4. cache'[L - m] = cache[L]
      BY <1>5, <1>8, <2>1, <2>3
    <2> DEFINE k == cache[L].key
    <2>5. k \in Keys(cache) /\ k \in Keys(cache')
      BY <1>3, <1>8, <2>3, <2>4 DEF Keys
    <2>6. \A old \in Keys(cache) : PrefixLen(old, prompt) <= PrefixLen(k, prompt)
      BY DEF Keys, Favoured, Shared
    <2> QED BY <2>5, <2>6
  <1> QED BY <1>11, <1>12

\* The action of ReusedIsEvictedLast.
EvictsReusedLast ==
  ~OnDisk /\ phase # "idle" /\ Keys(cache) \cap Keys(cache') # {} =>
    \E k \in Keys(cache) \cap Keys(cache') :
      \A old \in Keys(cache) : PrefixLen(old, prompt) <= PrefixLen(k, prompt)

LEMMA FavouredGivesLast ==
  ASSUME Inv, Favoured, [Next]_vars PROVE EvictsReusedLast
  <1> SUFFICES ASSUME ~OnDisk, phase # "idle", Keys(cache) \cap Keys(cache') # {}
               PROVE  \E k \in Keys(cache) \cap Keys(cache') :
                        \A old \in Keys(cache) : PrefixLen(old, prompt) <= PrefixLen(k, prompt)
    BY DEF EvictsReusedLast
  <1>1. CASE UNCHANGED cache
    <2>1. DOMAIN cache = 1 .. Len(cache) /\ Len(cache) \in Nat
      <3>1. cache \in Seq(GoodState)
        BY DEF Inv, CacheOK
      <3> QED BY <3>1, LenProperties
    <2>2. Len(cache) \in DOMAIN cache
      BY <2>1 DEF Keys
    <2> DEFINE k == cache[Len(cache)].key
    <2>3. k \in Keys(cache) \cap Keys(cache')
      BY <1>1, <2>2 DEF Keys
    <2>4. \A old \in Keys(cache) : PrefixLen(old, prompt) <= PrefixLen(k, prompt)
      BY DEF Keys, Favoured, Shared
    <2> QED BY <2>3, <2>4
  <1>2. CASE EndOfGeneration
    BY <1>2, KeptShareMost DEF EndOfGeneration, Inv, CallOK
  <1>3. CASE Consume
    <2>1. phase = "yield" /\ (cache' = cache \/ Finish(Append(out, tok)))
      BY <1>3 DEF Consume
    <2>2. Append(out, tok) \in Seq(Token)
      <3>1. tok \in Token /\ out \in Seq(Token)
        BY <2>1 DEF Inv, CallOK, Progress
      <3> QED BY <3>1, AppendProperties
    <2> QED BY <1>1, <2>1, <2>2, KeptShareMost
  <1>4. CASE Match \/ Eval \/ ScoresRaise \/ DecodeRaises \/ Sample \/ AcceptDrafted \/ Continue
             \/ Abandon \/ UNCHANGED vars
    BY <1>1, <1>4 DEF Match, Eval, ScoresRaise, DecodeRaises, Sample, AcceptDrafted, Continue,
                      Abandon, vars
  <1>5. CASE Embed \/ \E p \in Prompts, m \in 1 .. NCtx : Start(p, m)
    BY <1>5 DEF Embed, Start
  <1> QED BY <1>2, <1>3, <1>4, <1>5 DEF Next, Run

\* LlamaRAMCache: of the states that have to go when a completion is saved, those that
\* share most with its prompt go last.
THEOREM ReusedIsEvictedLastHolds ==
  ASSUME Faults \subseteq {"decode"}
  PROVE  Spec => ReusedIsEvictedLast
  <1>1. Init => Inv /\ Favoured
    <2>1. Init => Favoured
      BY DEF Init, Favoured
    <2> QED BY <2>1, InitOK
  <1>2. Inv /\ Favoured /\ [Next]_vars => (Inv /\ Favoured)'
    BY NextOK, FavouredNext
  <1>3. Inv /\ Favoured /\ [Next]_vars => [EvictsReusedLast]_vars
    BY FavouredGivesLast
  <1>4. Spec => [][EvictsReusedLast]_vars
    BY <1>1, <1>2, <1>3, PTL DEF Spec
  <1> QED BY <1>4 DEF EvictsReusedLast, ReusedIsEvictedLast
=============================================================================
