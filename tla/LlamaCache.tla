------------------------------ MODULE LlamaCache ------------------------------
(***************************************************************************)
(* The state caches of llama_cpp/llama_cache.py as operators on a sequence *)
(* of entries, the one to be evicted first at its head.  An entry holds the*)
(* tokens it was saved under (key) and a size in the unit of Capacity.     *)
(***************************************************************************)
EXTENDS SequencesExt

CONSTANTS
  Capacity,  \* capacity_bytes; 0 stands for a Llama without a cache
  OnDisk     \* LlamaDiskCache instead of LlamaRAMCache

\* Llama.longest_token_prefix: the length of the longest common prefix.
PrefixLen(a, b) ==
  Max({k \in 0 .. Min({Len(a), Len(b)}) : \A i \in 1 .. k : a[i] = b[i]})

\* The size of all its entries.
Size(c) ==
  LET total[i \in 0 .. Len(c)] == IF i = 0 THEN 0 ELSE total[i - 1] + c[i].size
  IN  total[Len(c)]

\* The entries _find_longest_prefix_key may return.  The RAM cache keeps the first
\* of the longest in its order, the disk cache the first in the order of iterkeys.
Best(c, key) ==
  LET len(i)  == PrefixLen(c[i].key, key)
      longest == {i \in DOMAIN c : len(i) > 0 /\ \A j \in DOMAIN c : len(j) <= len(i)}
  IN  IF OnDisk \/ longest = {} THEN longest ELSE {Min(longest)}

Taken_NotMoved(c, i) == IF OnDisk THEN RemoveAt(c, i) ELSE c

\* __getitem__: the entry moves to the end of the RAM cache, but is popped from
\* the disk cache.
Taken(c, i) == IF OnDisk THEN RemoveAt(c, i) ELSE Append(RemoveAt(c, i), c[i])

\* __setitem__: an entry of the same key is replaced, and the oldest are evicted
\* while the cache is not empty and exceeds its capacity (the new one too).
Stored(c, e) ==
  LET same    == {i \in DOMAIN c : c[i].key = e.key}
      all     == Append(IF same = {} THEN c ELSE RemoveAt(c, Min(same)), e)
      kept(k) == SubSeq(all, k + 1, Len(all))
      evicted == Min({k \in 0 .. Len(all) : k = Len(all) \/ Size(kept(k)) <= Capacity})
  IN  kept(evicted)
=============================================================================
