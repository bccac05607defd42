--------------------------- MODULE LlamaServerProofs ---------------------------
(***************************************************************************)
(* Proofs about LlamaServer: type correctness, the lock invariant and what *)
(* follows from it, for any number of requests, models and channel size.   *)
(***************************************************************************)
EXTENDS LlamaServerProps, SequenceTheorems, FiniteSetTheorems, FunctionTheorems, TLAPS

-----------------------------------------------------------------------------
(* What the operations of a lock do to its owner and its holders. *)

LEMMA UnlockedLock ==
  Unlocked \in Lock /\ Orderly(Unlocked) /\ HolderSet(Unlocked) = {}
  BY ServerAssumption DEF Unlocked, Lock, Orderly, HolderSet, Locked

LEMMA AcquireLock ==
  ASSUME NEW l \in Lock, NEW t \in Request, Orderly(l), t \notin HolderSet(l)
  PROVE  /\ Acquire(l, t) \in Lock
         /\ Orderly(Acquire(l, t))
         /\ HolderSet(Acquire(l, t)) = HolderSet(l) \cup {t}
         /\ Locked(l) => Acquire(l, t).owner = l.owner
  <1>1. CASE Locked(l)
    <2> DEFINE m == [l EXCEPT !.queue = Append(@, t)]
    <2>1. Acquire(l, t) = m
      BY <1>1 DEF Acquire
    <2>2. m \in Lock /\ m.owner = l.owner /\ m.queue = Append(l.queue, t)
      BY DEF Lock
    <2>3. /\ l.queue \in Seq(Request)
          /\ Len(m.queue) = Len(l.queue) + 1
          /\ \A i \in 1 .. Len(l.queue) : m.queue[i] = l.queue[i]
          /\ m.queue[Len(l.queue) + 1] = t
          /\ DOMAIN m.queue = 1 .. Len(m.queue)
          /\ DOMAIN l.queue = 1 .. Len(l.queue)
      BY <2>2 DEF Lock
    <2>4. Orderly(m)
      BY <2>2, <2>3, <1>1 DEF Orderly, HolderSet, Locked
    <2>5. HolderSet(m) = HolderSet(l) \cup {t}
      BY <2>2, <2>3 DEF HolderSet
    <2> QED BY <2>1, <2>2, <2>4, <2>5
  <1>2. CASE ~Locked(l)
    BY <1>2, ServerAssumption DEF Acquire, Lock, Orderly, HolderSet, Locked
  <1> QED BY <1>1, <1>2

LEMMA ReleaseLock ==
  ASSUME NEW l \in Lock, Orderly(l), l.owner \in Request
  PROVE  /\ Release(l) \in Lock
         /\ Orderly(Release(l))
         /\ HolderSet(Release(l)) = HolderSet(l) \ {l.owner}
  <1>1. CASE l.queue = << >>
    BY <1>1, ServerAssumption DEF Release, Lock, Orderly, HolderSet, Locked
  <1>2. CASE l.queue # << >>
    <2> DEFINE m == [owner |-> Head(l.queue), queue |-> Tail(l.queue)]
    <2>1. Release(l) = m
      BY <1>2 DEF Release
    <2>2. /\ l.queue \in Seq(Request) /\ Len(l.queue) \in Nat \ {0}
          /\ DOMAIN l.queue = 1 .. Len(l.queue)
          /\ m.owner = l.queue[1] /\ m.queue \in Seq(Request)
          /\ DOMAIN m.queue = 1 .. Len(l.queue) - 1
          /\ \A i \in 1 .. Len(l.queue) - 1 : m.queue[i] = l.queue[i + 1]
      BY <1>2 DEF Lock
    <2>3. m \in Lock /\ Locked(m)
      BY <2>2, ServerAssumption DEF Lock, Locked
    <2>4. Orderly(m)
      <3>1. ASSUME NEW i \in DOMAIN m.queue, NEW j \in DOMAIN m.queue,
                   m.queue[i] = m.queue[j]
            PROVE  i = j
        <4>1. i + 1 \in DOMAIN l.queue /\ j + 1 \in DOMAIN l.queue
          BY <2>2
        <4>2. l.queue[i + 1] = l.queue[j + 1]
          BY <2>2, <3>1
        <4>3. i + 1 = j + 1
          BY <4>1, <4>2 DEF Orderly
        <4> QED BY <4>3, <2>2
      <3>2. ASSUME NEW i \in DOMAIN m.queue PROVE m.queue[i] # m.owner
        <4>1. i + 1 \in DOMAIN l.queue /\ 1 \in DOMAIN l.queue /\ i + 1 # 1
          BY <2>2
        <4>2. l.queue[i + 1] # l.queue[1]
          BY <4>1 DEF Orderly
        <4> QED BY <4>2, <2>2
      <3> QED BY <3>1, <3>2, <2>3 DEF Orderly
    <2>5. HolderSet(m) = HolderSet(l) \ {l.owner}
      <3>1. ASSUME NEW r \in HolderSet(m) PROVE r \in HolderSet(l) \ {l.owner}
        BY <3>1, <2>2 DEF HolderSet, Orderly
      <3>2. ASSUME NEW r \in HolderSet(l) \ {l.owner} PROVE r \in HolderSet(m)
        <4>1. PICK i \in 1 .. Len(l.queue) : l.queue[i] = r
          BY <3>2, <2>2 DEF HolderSet
        <4>2. CASE i = 1
          BY <4>1, <4>2, <2>2, <3>2 DEF HolderSet
        <4>3. CASE i # 1
          <5>1. i - 1 \in 1 .. Len(l.queue) - 1 /\ m.queue[i - 1] = r
            BY <4>1, <4>3, <2>2
          <5> QED BY <5>1, <2>2, <3>2 DEF HolderSet
        <4> QED BY <4>2, <4>3
      <3> QED BY <3>1, <3>2
    <2> QED BY <2>1, <2>3, <2>4, <2>5
  <1> QED BY <1>1, <1>2

LEMMA RemoveAtProperties ==
  ASSUME NEW S, NEW q \in Seq(S), NEW k \in 1 .. Len(q)
  PROVE  /\ RemoveAt(q, k) \in Seq(S)
         /\ Len(RemoveAt(q, k)) = Len(q) - 1
         /\ \A i \in 1 .. Len(q) - 1 :
              RemoveAt(q, k)[i] = IF i < k THEN q[i] ELSE q[i + 1]
  <1> DEFINE e == SubSeq(q, 1, k - 1)
             f == SubSeq(q, k + 1, Len(q))
  <1>0. Len(q) \in Nat /\ k \in Nat /\ 1 <= k /\ k <= Len(q)
    BY LenProperties
  <1>1. /\ e \in Seq(S) /\ Len(e) = k - 1
        /\ \A i \in 1 .. k - 1 : e[i] = q[i]
    <2>1. 1 \in 1 .. Len(q) + 1 /\ k - 1 \in 1 - 1 .. Len(q)
      BY <1>0
    <2> QED BY <2>1, <1>0, SubSeqProperties
  <1>2. /\ f \in Seq(S) /\ Len(f) = Len(q) - k
        /\ \A i \in 1 .. Len(q) - k : f[i] = q[i + k]
    <2>1. k + 1 \in 1 .. Len(q) + 1 /\ Len(q) \in (k + 1) - 1 .. Len(q)
      BY <1>0
    <2> QED BY <2>1, <1>0, SubSeqProperties
  <1>3. RemoveAt(q, k) = e \o f
    BY DEF RemoveAt
  <1> HIDE DEF e, f
  <1>4. /\ e \o f \in Seq(S) /\ Len(e \o f) = Len(q) - 1
        /\ \A i \in 1 .. Len(q) - 1 :
             (e \o f)[i] = IF i < k THEN e[i] ELSE f[i - (k - 1)]
    BY <1>0, <1>1, <1>2, ConcatProperties
  <1> QED BY <1>0, <1>1, <1>2, <1>3, <1>4

LEMMA WithdrawLock ==
  ASSUME NEW l \in Lock, NEW t \in HolderSet(l), Orderly(l)
  PROVE  /\ Withdraw(l, t) \in Lock
         /\ Orderly(Withdraw(l, t))
         /\ HolderSet(Withdraw(l, t)) = HolderSet(l) \ {t}
         /\ l.owner # t => Withdraw(l, t).owner = l.owner
  <1>0. t \in Request
    BY DEF HolderSet
  <1>1. CASE l.owner = t
    BY <1>0, <1>1, ReleaseLock DEF Withdraw
  <1>2. CASE l.owner # t
    <2> DEFINE q == l.queue
               k == CHOOSE i \in DOMAIN l.queue : l.queue[i] = t
               m == [l EXCEPT !.queue = RemoveAt(@, CHOOSE i \in DOMAIN @ : @[i] = t)]
    <2>1. Withdraw(l, t) = m
      BY <1>2 DEF Withdraw
    <2>2. q \in Seq(Request) /\ Len(q) \in Nat /\ DOMAIN q = 1 .. Len(q)
      BY DEF Lock
    <2>3. k \in DOMAIN q /\ q[k] = t
      BY <1>2 DEF HolderSet
    <2>4. m.owner = l.owner /\ m.queue = RemoveAt(q, k)
      BY DEF Lock
    <2> HIDE DEF m, k
    <2>5. /\ m.queue \in Seq(Request)
          /\ DOMAIN m.queue = 1 .. Len(q) - 1
          /\ \A i \in 1 .. Len(q) - 1 :
               m.queue[i] = IF i < k THEN q[i] ELSE q[i + 1]
      <3> HIDE DEF q
      <3>1. k \in 1 .. Len(q)
        BY <2>2, <2>3
      <3>2. /\ RemoveAt(q, k) \in Seq(Request)
            /\ Len(RemoveAt(q, k)) = Len(q) - 1
            /\ \A i \in 1 .. Len(q) - 1 :
                 RemoveAt(q, k)[i] = IF i < k THEN q[i] ELSE q[i + 1]
        BY <2>2, <3>1, RemoveAtProperties
      <3>3. DOMAIN RemoveAt(q, k) = 1 .. Len(RemoveAt(q, k))
        BY <3>2, LenProperties
      <3> QED BY <2>4, <3>2, <3>3
    <2> DEFINE old(i) == IF i < k THEN i ELSE i + 1
    <2>6. \A i \in DOMAIN m.queue :
            old(i) \in DOMAIN q \ {k} /\ m.queue[i] = q[old(i)]
      BY <2>2, <2>3, <2>5
    <2>7. m \in Lock
      BY <2>4, <2>5 DEF Lock, m
    <2>8. Orderly(m)
      <3>1. \A i, j \in DOMAIN m.queue : m.queue[i] = m.queue[j] => i = j
        <4>1. SUFFICES ASSUME NEW i \in DOMAIN m.queue, NEW j \in DOMAIN m.queue,
                              m.queue[i] = m.queue[j]
                       PROVE  i = j
          OBVIOUS
        <4>2. old(i) = old(j)
          BY <4>1, <2>6 DEF Orderly
        <4> QED BY <4>2, <2>2, <2>3, <2>5
      <3>2. \A i \in DOMAIN m.queue : m.queue[i] # m.owner
        BY <2>4, <2>6 DEF Orderly
      <3>3. Locked(m)
        BY <2>2, <2>3, <2>4 DEF Orderly, Locked
      <3> QED BY <3>1, <3>2, <3>3 DEF Orderly
    <2>9. HolderSet(m) = HolderSet(l) \ {t}
      <3>1. ASSUME NEW r \in HolderSet(m) PROVE r \in HolderSet(l) \ {t}
        <4>1. CASE r = m.owner
          BY <4>1, <1>2, <2>4, <3>1 DEF HolderSet
        <4>2. CASE \E i \in DOMAIN m.queue : m.queue[i] = r
          <5>1. PICK i \in DOMAIN m.queue : m.queue[i] = r
            BY <4>2
          <5>2. old(i) \in DOMAIN q \ {k} /\ q[old(i)] = r
            BY <5>1, <2>6
          <5>3. r # t
            BY <5>2, <2>3 DEF Orderly
          <5> QED BY <5>2, <5>3, <3>1 DEF HolderSet
        <4> QED BY <3>1, <4>1, <4>2 DEF HolderSet
      <3>2. ASSUME NEW r \in HolderSet(l) \ {t} PROVE r \in HolderSet(m)
        <4>1. CASE r = l.owner
          BY <4>1, <2>4, <3>2 DEF HolderSet
        <4>2. CASE \E i \in DOMAIN q : q[i] = r
          <5>1. PICK i \in DOMAIN q : q[i] = r
            BY <4>2
          <5>2. i # k
            BY <5>1, <2>3, <3>2
          <5> DEFINE n == IF i < k THEN i ELSE i - 1
          <5>3. n \in DOMAIN m.queue /\ old(n) = i
            BY <5>1, <5>2, <2>2, <2>3, <2>5
          <5>4. m.queue[n] = r
            BY <5>1, <5>3, <2>6
          <5> QED BY <5>3, <5>4, <3>2 DEF HolderSet
        <4> QED BY <3>2, <4>1, <4>2 DEF HolderSet
      <3> QED BY <3>1, <3>2
    <2> QED BY <2>1, <2>4, <2>7, <2>8, <2>9
  <1> QED BY <1>1, <1>2

-----------------------------------------------------------------------------
(* Type correctness *)

\* A call of the proxy leaves it well-typed.
LEMMA CalledType ==
  ASSUME proxy \in Proxy, NEW a, NEW p \in Called(Resolve(a))
  PROVE  p \in Proxy
  BY ServerAssumption DEF Proxy, Called, Resolve

\* A task that moves between two places past the double lock leaves the locks alone.
LEMMA MoveKeepsLocks ==
  ASSUME TypeOK, LockInvariant, NEW r \in Request, NEW p \in Active,
         pc[r] \in Active, Goto(r, p), UNCHANGED lockVars
  PROVE  LockInvariant' /\ pc' \in [Request -> Place] /\ outer' \in Lock /\ inner' \in Lock
  <1>1. \A s \in Request : pc'[s] = IF s = r THEN p ELSE pc[s]
    BY DEF Goto, TypeOK
  <1>2. pc' \in [Request -> Place]
    BY DEF Goto, TypeOK, Place
  <1>3. Orderly(outer)' /\ Orderly(inner)' /\ HolderSet(outer)' = HolderSet(outer)
        /\ HolderSet(inner)' = HolderSet(inner)
    BY DEF LockInvariant, lockVars, Orderly, HolderSet, Locked
  <1>4. p \notin Pending /\ p # "inner" /\ pc[r] \notin Pending /\ pc[r] # "inner"
    BY DEF Active, Pending, Streaming
  <1>5. outer' \in Lock /\ inner' \in Lock
    BY DEF TypeOK, lockVars
  <1> QED BY <1>1, <1>2, <1>3, <1>4, <1>5 DEF LockInvariant, lockVars

\* A task that leaves get_llama_proxy hands the inner lock on, and was the only
\* one past it.
LEMMA LeaveKeepsLocks ==
  ASSUME TypeOK, LockInvariant, NEW r \in Request, NEW how \in Ended,
         pc[r] \in Active, Leave(r, how), UNCHANGED outer
  PROVE  LockInvariant' /\ pc' \in [Request -> Place] /\ outer' \in Lock /\ inner' \in Lock
  <1>1. \A s \in Request : pc'[s] = IF s = r THEN how ELSE pc[s]
    BY DEF Leave, Goto, TypeOK
  <1>2. pc' \in [Request -> Place]
    BY DEF Leave, Goto, TypeOK, Place
  <1>3. inner.owner = r /\ inner \in Lock /\ Orderly(inner)
    BY DEF LockInvariant, TypeOK
  <1>4. inner' \in Lock /\ Orderly(inner') /\ HolderSet(inner') = HolderSet(inner) \ {r}
    BY <1>3, ReleaseLock DEF Leave
  <1>5. Orderly(outer') /\ HolderSet(outer') = HolderSet(outer) /\ outer' \in Lock
    BY DEF LockInvariant, TypeOK
  <1>6. how \notin Pending \cup Active /\ pc[r] \notin Pending
    BY DEF Active, Pending, Streaming, Ended
  <1>7. \A s \in Request : pc'[s] \notin Active
    BY <1>1, <1>3, <1>6 DEF LockInvariant
  <1>8. \A s \in Request : pc'[s] = "inner" => outer'.owner = s
    BY <1>1, <1>6 DEF LockInvariant, Pending
  <1>9. HolderSet(outer') = {s \in Request : pc'[s] \in Pending}
    BY <1>1, <1>5, <1>6 DEF LockInvariant
  <1>10. HolderSet(inner') = {s \in Request : pc'[s] \in Active \cup {"inner"}}
    BY <1>1, <1>4, <1>6 DEF LockInvariant, Pending
  <1> QED BY <1>2, <1>4, <1>5, <1>7, <1>8, <1>9, <1>10 DEF LockInvariant

\* The steps up to the double lock.
LEMMA ArriveKeeps ==
  ASSUME TypeOK, LockInvariant, NEW r \in Request, Arrive(r)
  PROVE  TypeOK' /\ LockInvariant'
  <1>1. pc[r] \notin Pending \cup Active /\ pc[r] # "inner"
    BY DEF Arrive, Pending, Active, Streaming, Ended
  <1>2. \A s \in Request : pc'[s] = IF s = r THEN "outer" ELSE pc[s]
    BY DEF Arrive, Goto, TypeOK
  <1>3. outer \in Lock /\ Orderly(outer) /\ r \notin HolderSet(outer)
    BY <1>1 DEF TypeOK, LockInvariant
  <1>4. /\ outer' \in Lock /\ Orderly(outer')
        /\ HolderSet(outer') = HolderSet(outer) \cup {r}
        /\ Locked(outer) => outer'.owner = outer.owner
    BY <1>3, AcquireLock DEF Arrive
  <1>5. inner' = inner
    BY DEF Arrive
  <1>6. \A s \in Request : pc'[s] = "inner" => outer'.owner = s
    BY <1>2, <1>4, ServerAssumption DEF LockInvariant, Locked
  <1>7. LockInvariant'
    <2>1. HolderSet(outer') = {s \in Request : pc'[s] \in Pending}
      BY <1>2, <1>4 DEF LockInvariant, Pending
    <2>2. HolderSet(inner') = {s \in Request : pc'[s] \in Active \cup {"inner"}}
      BY <1>1, <1>2, <1>5 DEF LockInvariant, Active, Streaming
    <2>3. \A s \in Request : pc'[s] \in Active => inner'.owner = s
      BY <1>2, <1>5 DEF LockInvariant, Active, Streaming
    <2>4. Orderly(inner')
      BY <1>5 DEF LockInvariant
    <2> QED BY <1>4, <1>6, <2>1, <2>2, <2>3, <2>4 DEF LockInvariant
  <1>8. TypeOK'
    BY <1>4, <1>5, ServerAssumption DEF TypeOK, Arrive, Goto, Place, Pending
  <1> QED BY <1>7, <1>8

LEMMA TakeInnerKeeps ==
  ASSUME TypeOK, LockInvariant, NEW r \in Request, TakeInner(r)
  PROVE  TypeOK' /\ LockInvariant'
  <1>1. pc[r] = "outer" /\ outer.owner = r /\ outer' = outer
    BY DEF TakeInner
  <1>2. \A s \in Request : pc'[s] = IF s = r THEN "inner" ELSE pc[s]
    BY DEF TakeInner, Goto, TypeOK
  <1>3. inner \in Lock /\ Orderly(inner) /\ r \notin HolderSet(inner)
    BY <1>1 DEF TypeOK, LockInvariant, Active, Streaming
  <1>4. /\ inner' \in Lock /\ Orderly(inner')
        /\ HolderSet(inner') = HolderSet(inner) \cup {r}
        /\ Locked(inner) => inner'.owner = inner.owner
    BY <1>3, AcquireLock DEF TakeInner
  <1>5. LockInvariant'
    <2>1. HolderSet(outer') = {s \in Request : pc'[s] \in Pending}
      BY <1>1, <1>2 DEF LockInvariant, Pending
    <2>2. HolderSet(inner') = {s \in Request : pc'[s] \in Active \cup {"inner"}}
      BY <1>2, <1>4 DEF LockInvariant
    <2>3. \A s \in Request : pc'[s] \in Active => inner'.owner = s
      <3>1. ASSUME NEW s \in Request, pc'[s] \in Active PROVE inner'.owner = s
        <4>1. pc[s] \in Active
          BY <1>2, <3>1 DEF Active, Streaming
        <4>2. inner.owner = s
          BY <4>1 DEF LockInvariant
        <4> QED BY <1>4, <4>2, ServerAssumption DEF Locked
      <3> QED BY <3>1
    <2>4. \A s \in Request : pc'[s] = "inner" => outer'.owner = s
      BY <1>1, <1>2 DEF LockInvariant
    <2>5. Orderly(outer')
      BY <1>1 DEF LockInvariant
    <2> QED BY <1>4, <2>1, <2>2, <2>3, <2>4, <2>5 DEF LockInvariant
  <1>6. TypeOK'
    BY <1>4 DEF TypeOK, TakeInner, Goto, Place, Pending, streamVars
  <1> QED BY <1>5, <1>6

LEMMA EnterKeeps ==
  ASSUME TypeOK, LockInvariant, NEW r \in Request, Enter(r)
  PROVE  TypeOK' /\ LockInvariant'
  <1>1. /\ pc[r] = "inner" /\ inner.owner = r /\ outer.owner = r
        /\ inner \in Lock /\ Orderly(inner) /\ outer \in Lock /\ Orderly(outer)
    BY DEF Enter, LockInvariant, TypeOK
  <1>2. /\ outer' \in Lock /\ Orderly(outer')
        /\ HolderSet(outer') = HolderSet(outer) \ {r}
    BY <1>1, ReleaseLock DEF Enter
  <1>3. \A s \in Request \ {r} : pc[s] \notin Active /\ pc[s] # "inner"
    BY <1>1 DEF LockInvariant
  <1>4. proxy' \in Proxy /\ using' \in [Request -> Alias \cup {NoAlias}]
    <2>1. CASE kind[r] = "models"
      BY <2>1 DEF Enter, TypeOK
    <2>2. CASE kind[r] # "models"
      <3>1. proxy' \in Called(Resolve(wants[r]))
        BY <2>2 DEF Enter
      <3>2. proxy' \in Proxy
        BY <3>1, CalledType DEF TypeOK
      <3> QED BY <2>2, <3>2 DEF Enter, TypeOK, Proxy
    <2> QED BY <2>1, <2>2
  <1>5. CASE \E p \in {"run", "compute", "check"} : Goto(r, p) /\ inner' = inner
    <2>1. PICK p \in {"run", "compute", "check"} : Goto(r, p) /\ inner' = inner
      BY <1>5
    <2>2. p \in Active /\ p \notin Pending
      BY <2>1 DEF Active, Streaming, Pending
    <2>3. \A s \in Request : pc'[s] = IF s = r THEN p ELSE pc[s]
      BY <2>1 DEF Goto, TypeOK
    <2>4. HolderSet(outer') = {s \in Request : pc'[s] \in Pending}
      BY <1>2, <2>2, <2>3 DEF LockInvariant
    <2>5. HolderSet(inner') = {s \in Request : pc'[s] \in Active \cup {"inner"}}
      BY <1>1, <2>1, <2>2, <2>3 DEF LockInvariant
    <2>6. \A s \in Request : /\ pc'[s] \in Active => inner'.owner = s
                             /\ pc'[s] = "inner" => outer'.owner = s
      BY <1>1, <1>3, <2>1, <2>2, <2>3 DEF Pending
    <2>7. LockInvariant'
      BY <1>1, <1>2, <2>1, <2>4, <2>5, <2>6 DEF LockInvariant
    <2>8. pc' \in [Request -> Place]
      BY <2>1, <2>2 DEF Goto, TypeOK, Place
    <2> QED BY <1>1, <1>2, <1>4, <2>1, <2>7, <2>8 DEF Enter, TypeOK, streamVars
  <1>6. CASE Leave(r, "error")
    <2>1. /\ inner' \in Lock /\ Orderly(inner')
          /\ HolderSet(inner') = HolderSet(inner) \ {r}
      BY <1>1, <1>6, ReleaseLock DEF Leave
    <2>2. \A s \in Request : pc'[s] = IF s = r THEN "error" ELSE pc[s]
      BY <1>6 DEF Leave, Goto, TypeOK
    <2>3. "error" \notin Pending /\ "error" \notin Active
      BY DEF Active, Streaming, Pending
    <2>4. HolderSet(outer') = {s \in Request : pc'[s] \in Pending}
      BY <1>2, <2>2, <2>3 DEF LockInvariant
    <2>5. HolderSet(inner') = {s \in Request : pc'[s] \in Active \cup {"inner"}}
      BY <2>1, <2>2, <2>3 DEF LockInvariant
    <2>6. \A s \in Request : pc'[s] \notin Active /\ pc'[s] # "inner"
      BY <1>3, <2>2, <2>3
    <2>7. LockInvariant'
      BY <1>2, <2>1, <2>4, <2>5, <2>6 DEF LockInvariant
    <2>8. pc' \in [Request -> Place]
      BY <1>6 DEF Leave, Goto, TypeOK, Place, Ended
    <2> QED BY <1>2, <1>4, <2>1, <2>7, <2>8 DEF Enter, TypeOK, streamVars
  <1>7. \/ \E p \in {"run", "compute", "check"} : Goto(r, p) /\ inner' = inner
        \/ Leave(r, "error")
    BY DEF Enter, FirstPlace
  <1> QED BY <1>5, <1>6, <1>7

LEMMA CancelKeeps ==
  ASSUME TypeOK, LockInvariant, NEW r \in Request, Cancel(r)
  PROVE  TypeOK' /\ LockInvariant'
  <1>1. \A s \in Request : pc'[s] = IF s = r THEN "cancelled" ELSE pc[s]
    BY DEF Cancel, Goto, TypeOK
  <1>2. "cancelled" \notin Pending \cup Active \cup {"inner"}
    BY DEF Active, Streaming, Pending
  <1>3. inner \in Lock /\ Orderly(inner) /\ outer \in Lock /\ Orderly(outer)
    BY DEF LockInvariant, TypeOK
  <1>4. ASSUME pc[r] = "outer" /\ outer' = Withdraw(outer, r) /\ UNCHANGED inner
        PROVE  LockInvariant' /\ outer' \in Lock /\ inner' \in Lock
    <2>1. r \in HolderSet(outer) /\ r \notin HolderSet(inner)
      BY <1>4 DEF LockInvariant, Pending, Active, Streaming
    <2>2. /\ outer' \in Lock /\ Orderly(outer')
          /\ HolderSet(outer') = HolderSet(outer) \ {r}
          /\ outer.owner # r => outer'.owner = outer.owner
      BY <1>3, <1>4, <2>1, WithdrawLock
    <2>3. \A s \in Request : pc'[s] = "inner" => outer'.owner = s
      BY <1>1, <1>2, <2>2 DEF LockInvariant
    <2>4. \A s \in Request : pc'[s] \in Active => inner'.owner = s
      BY <1>1, <1>2, <1>4 DEF LockInvariant
    <2>5. HolderSet(outer') = {s \in Request : pc'[s] \in Pending}
      BY <1>1, <1>2, <2>2 DEF LockInvariant
    <2>6. HolderSet(inner') = {s \in Request : pc'[s] \in Active \cup {"inner"}}
      BY <1>1, <1>2, <1>4, <2>1 DEF LockInvariant
    <2> QED BY <1>3, <1>4, <2>2, <2>3, <2>4, <2>5, <2>6 DEF LockInvariant
  <1>5. ASSUME pc[r] = "inner" /\ outer' = Release(outer) /\ inner' = Withdraw(inner, r)
        PROVE  LockInvariant' /\ outer' \in Lock /\ inner' \in Lock
    <2>1. outer.owner = r /\ r \in HolderSet(inner)
      BY <1>5 DEF LockInvariant
    <2>2. /\ outer' \in Lock /\ Orderly(outer')
          /\ HolderSet(outer') = HolderSet(outer) \ {r}
      BY <1>3, <1>5, <2>1, ReleaseLock
    <2>3. /\ inner' \in Lock /\ Orderly(inner')
          /\ HolderSet(inner') = HolderSet(inner) \ {r}
          /\ inner.owner # r => inner'.owner = inner.owner
      BY <1>3, <1>5, <2>1, WithdrawLock
    <2>4. \A s \in Request : pc'[s] # "inner"
      BY <1>1, <1>2, <2>1 DEF LockInvariant
    <2>5. \A s \in Request : pc'[s] \in Active => inner'.owner = s
      BY <1>1, <1>2, <2>3 DEF LockInvariant
    <2>6. HolderSet(outer') = {s \in Request : pc'[s] \in Pending}
      BY <1>1, <1>2, <2>2 DEF LockInvariant
    <2>7. HolderSet(inner') = {s \in Request : pc'[s] \in Active \cup {"inner"}}
      BY <1>1, <1>2, <2>3 DEF LockInvariant
    <2> QED BY <2>2, <2>3, <2>4, <2>5, <2>6, <2>7 DEF LockInvariant
  <1>6. ASSUME pc[r] \in {"send", "sendStop", "sendDone"} /\ inner' = Release(inner)
               /\ UNCHANGED outer
        PROVE  LockInvariant' /\ outer' \in Lock /\ inner' \in Lock
    <2>1. pc[r] \in Active
      BY <1>6 DEF Active, Streaming
    <2>2. Leave(r, "cancelled")
      BY <1>6 DEF Leave, Cancel
    <2> QED BY <1>6, <2>1, <2>2, LeaveKeepsLocks DEF Ended
  <1>7. LockInvariant' /\ outer' \in Lock /\ inner' \in Lock
    BY <1>4, <1>5, <1>6 DEF Cancel, AbandonInner
  <1>8. TypeOK'
    BY <1>7 DEF TypeOK, Cancel, AbandonInner, Goto, Place, Ended
  <1> QED BY <1>7, <1>8

\* The steps past the double lock.
LEMMA ActiveKeeps ==
  ASSUME TypeOK, LockInvariant, NEW r \in Request,
         \/ CheckClient(r) \/ Finish(r) \/ Chunk(r) \/ EndOfStream(r)
         \/ Raise(r) \/ Send(r) \/ Poll(r) \/ SendLast(r)
  PROVE  TypeOK' /\ LockInvariant'
  <1>1. pc[r] \in Active /\ outer' = outer
    BY DEF CheckClient, Finish, Chunk, EndOfStream, Raise, Send, Poll, SendLast,
           Active, Streaming, lockVars
  <1>2. \/ \E p \in Active : Goto(r, p) /\ UNCHANGED lockVars
        \/ \E how \in Ended : Leave(r, how)
    BY DEF CheckClient, Finish, Chunk, EndOfStream, Raise, Send, Poll, SendLast,
           Active, Streaming, Ended, lockVars
  <1>3. LockInvariant' /\ pc' \in [Request -> Place] /\ outer' \in Lock /\ inner' \in Lock
    BY <1>1, <1>2, MoveKeepsLocks, LeaveKeepsLocks
  <1>4. UNCHANGED <<proxy, kind, wants, using, gone>>
    BY DEF CheckClient, Finish, Chunk, EndOfStream, Raise, Send, Poll, SendLast
  <1>5. chan' \in [Request -> Seq(Frame)]
    <2>1. chan \in [Request -> Seq(Frame)] /\ << >> \in Seq(Frame)
      BY DEF TypeOK
    <2>2. Append(chan[r], "chunk") \in Seq(Frame) /\ Append(chan[r], "done") \in Seq(Frame)
      BY <2>1, AppendProperties DEF Frame
    <2> QED BY <2>1, <2>2 DEF CheckClient, Finish, Chunk, EndOfStream, Raise, Send, Poll,
                              SendLast, Put, streamVars
  <1>6. owed' \in [Request -> Int]
    BY DEF TypeOK, CheckClient, Finish, Chunk, EndOfStream, Raise, Send, Poll, SendLast,
           streamVars
  <1> QED BY <1>3, <1>4, <1>5, <1>6 DEF TypeOK

\* The steps of the client.
LEMMA ClientKeeps ==
  ASSUME TypeOK, LockInvariant, NEW r \in Request, Deliver(r) \/ Disconnect(r)
  PROVE  TypeOK' /\ LockInvariant'
  <1>1. UNCHANGED <<outer, inner, pc>>
    BY DEF Deliver, Disconnect, lockVars
  <1>2. LockInvariant'
    BY <1>1 DEF LockInvariant, Orderly, HolderSet, Locked
  <1>3. chan' \in [Request -> Seq(Frame)]
    <2>1. chan \in [Request -> Seq(Frame)]
      BY DEF TypeOK
    <2>2. chan[r] # << >> => Tail(chan[r]) \in Seq(Frame)
      BY <2>1, HeadTailProperties
    <2> QED BY <2>1, <2>2 DEF Deliver, Disconnect, streamVars
  <1>4. owed' \in [Request -> Int]
    <2>1. owed \in [Request -> Int]
      BY DEF TypeOK
    <2>2. \/ owed' = owed
          \/ owed' = [owed EXCEPT ![r] = @ - 1]
      BY <2>1 DEF Deliver, Disconnect, streamVars
    <2> QED BY <2>1, <2>2
  <1>6. gone' \in [Request -> BOOLEAN]
    BY DEF Deliver, Disconnect, TypeOK
  <1>5. UNCHANGED <<proxy, kind, wants, using>>
    BY DEF Deliver, Disconnect
  <1> QED BY <1>1, <1>2, <1>3, <1>4, <1>5, <1>6 DEF TypeOK

LEMMA LockInvariantInductive ==
  TypeOK /\ LockInvariant /\ [Next]_vars => TypeOK' /\ LockInvariant'
  <1> SUFFICES ASSUME TypeOK, LockInvariant, [Next]_vars
               PROVE  TypeOK' /\ LockInvariant'
    OBVIOUS
  <1>1. CASE UNCHANGED vars
    BY <1>1 DEF vars, TypeOK, LockInvariant, Orderly, HolderSet, Locked
  <1>2. ASSUME NEW r \in Request, Arrive(r) \/ Step(r) \/ Deliver(r) \/ Disconnect(r)
        PROVE  TypeOK' /\ LockInvariant'
    BY <1>2, ArriveKeeps, TakeInnerKeeps, EnterKeeps, CancelKeeps, ActiveKeeps,
       ClientKeeps DEF Step
  <1> QED BY <1>1, <1>2 DEF Next

-----------------------------------------------------------------------------
(* Theorems *)

\* Every variable keeps to its type, and the owners and waiters of both locks are
\* those that the places of the tasks say, for any set of requests.
THEOREM LocksCorrect == Spec => [](TypeOK /\ LockInvariant)
  <1>1. Init => TypeOK
    BY UnlockedLock, ServerAssumption DEF Init, TypeOK, Proxy, Place, Kind
  <1>2. Init => LockInvariant
    BY UnlockedLock DEF Init, LockInvariant, Pending, Active, Streaming
  <1> QED BY <1>1, <1>2, LockInvariantInductive, PTL DEF Spec

\* No two requests are past the double lock of get_llama_proxy at once.
THEOREM ServerMutualExclusion == Spec => []MutualExclusion
  <1>1. TypeOK /\ LockInvariant => MutualExclusion
    BY DEF LockInvariant, MutualExclusion, ActiveRequests
  <1> QED BY <1>1, LocksCorrect, PTL

\* A stream that finds the outer lock taken is right to conclude that a request
\* is pending, and one that finds it free that none is.
THEOREM OuterLockTellsPending == Spec => []OuterLockedIffPending
  <1>1. TypeOK /\ LockInvariant => OuterLockedIffPending
    <2> SUFFICES ASSUME TypeOK, LockInvariant PROVE OuterLockedIffPending
      OBVIOUS
    <2>1. CASE Locked(outer)
      <3>1. outer.owner \in HolderSet(outer)
        BY <2>1 DEF TypeOK, Lock, Locked, HolderSet
      <3> QED BY <2>1, <3>1 DEF LockInvariant, OuterLockedIffPending
    <2>2. CASE ~Locked(outer)
      <3>1. HolderSet(outer) = {}
        BY <2>2, ServerAssumption DEF LockInvariant, Orderly, Locked, HolderSet
      <3> QED BY <2>2, <3>1 DEF LockInvariant, OuterLockedIffPending
    <2> QED BY <2>1, <2>2
  <1> QED BY <1>1, LocksCorrect, PTL
-----------------------------------------------------------------------------
(* The model under the handlers *)

\* What the proxy keeps true between calls: the current model is the only open
\* one and bears the current alias, and every active handler has it.
ProxyInvariant ==
  /\ proxy.open = IF proxy.model = NoAlias THEN {} ELSE {proxy.model}
  /\ proxy.model # NoAlias => proxy.alias = proxy.model
  /\ \A r \in ActiveRequests :
       kind[r] # "models" => using[r] = Resolve(wants[r]) /\ using[r] = proxy.model

LEMMA CalledKeepsProxy ==
  ASSUME proxy \in Proxy, ProxyInvariant, NEW a \in Alias, NEW p \in Called(a)
  PROVE  /\ p.open = IF p.model = NoAlias THEN {} ELSE {p.model}
         /\ p.model # NoAlias => p.alias = p.model /\ p.model = a
  BY ServerAssumption DEF ProxyInvariant, Called, Proxy

LEMMA EnterKeepsProxy ==
  ASSUME TypeOK, LockInvariant, ProxyInvariant, NEW r \in Request, Enter(r)
  PROVE  ProxyInvariant'
  <1>1. pc[r] = "inner" /\ inner.owner = r
    BY DEF Enter
  <1>2. \A s \in Request \ {r} : s \notin ActiveRequests'
    <2>1. ASSUME NEW s \in Request \ {r} PROVE pc'[s] \notin Active
      <3>1. pc[s] \notin Active
        BY <1>1 DEF LockInvariant
      <3>2. pc'[s] = pc[s]
        BY DEF Enter, Leave, Goto, TypeOK
      <3> QED BY <3>1, <3>2
    <2> QED BY <2>1 DEF ActiveRequests
  <1>3. kind' = kind /\ wants' = wants
    BY DEF Enter
  <1>4. CASE kind[r] = "models"
    <2>1. proxy' = proxy
      BY <1>4 DEF Enter
    <2> QED BY <1>2, <1>3, <1>4, <2>1 DEF ProxyInvariant, ActiveRequests
  <1>5. CASE kind[r] # "models"
    <2>1. proxy' \in Called(Resolve(wants[r])) /\ Resolve(wants[r]) \in Alias
      BY <1>5, ServerAssumption DEF Enter, Resolve
    <2>2. /\ proxy'.open = IF proxy'.model = NoAlias THEN {} ELSE {proxy'.model}
          /\ proxy'.model # NoAlias =>
               proxy'.alias = proxy'.model /\ proxy'.model = Resolve(wants[r])
      BY <2>1, CalledKeepsProxy DEF TypeOK
    <2>3. r \in ActiveRequests' =>
            using'[r] = proxy'.model /\ proxy'.model # NoAlias
      <3>1. CASE proxy'.model # NoAlias /\ using' = [using EXCEPT ![r] = proxy'.model]
        BY <3>1 DEF TypeOK
      <3>2. CASE Leave(r, "error")
        BY <3>2 DEF Leave, Goto, TypeOK, ActiveRequests, Active, Streaming
      <3> QED BY <1>5, <3>1, <3>2 DEF Enter
    <2> QED BY <1>2, <1>3, <2>2, <2>3 DEF ProxyInvariant, ActiveRequests, Resolve
  <1> QED BY <1>4, <1>5

\* Every other step leaves the proxy alone and makes no request active.
LEMMA OthersKeepProxy ==
  ASSUME TypeOK, ProxyInvariant, UNCHANGED proxy,
         ActiveRequests' \subseteq ActiveRequests,
         \A s \in ActiveRequests' : /\ using'[s] = using[s]
                                    /\ kind'[s] = kind[s]
                                    /\ wants'[s] = wants[s]
  PROVE  ProxyInvariant'
  BY DEF ProxyInvariant, Resolve

LEMMA ProxyInvariantInductive ==
  TypeOK /\ LockInvariant /\ ProxyInvariant /\ [Next]_vars => ProxyInvariant'
  <1> SUFFICES ASSUME TypeOK, LockInvariant, ProxyInvariant, [Next]_vars
               PROVE  ProxyInvariant'
    OBVIOUS
  <1>1. CASE UNCHANGED vars
    BY <1>1, OthersKeepProxy DEF vars, ActiveRequests
  <1>2. ASSUME NEW r \in Request, Arrive(r) PROVE ProxyInvariant'
    <2>1. \A s \in Request : pc'[s] = IF s = r THEN "outer" ELSE pc[s]
      BY <1>2 DEF Arrive, Goto, TypeOK
    <2>2. "outer" \notin Active
      BY DEF Active, Streaming
    <2>3. \A s \in Request \ {r} : /\ using'[s] = using[s]
                                   /\ kind'[s] = kind[s]
                                   /\ wants'[s] = wants[s]
      BY <1>2 DEF Arrive, TypeOK
    <2> QED BY <1>2, <2>1, <2>2, <2>3, OthersKeepProxy DEF ActiveRequests, Arrive
  <1>3. ASSUME NEW r \in Request, Step(r) \/ Deliver(r) \/ Disconnect(r), ~Enter(r)
        PROVE  ProxyInvariant'
    <2>1. UNCHANGED <<proxy, using, kind, wants>>
      BY <1>3 DEF Step, TakeInner, CheckClient, Finish, Chunk, EndOfStream, Raise,
                  Send, Poll, SendLast, Cancel, Deliver, Disconnect
    <2>2. \/ UNCHANGED pc
          \/ \E p : Goto(r, p) /\ (p \in Active => pc[r] \in Active)
      BY <1>3 DEF Step, TakeInner, CheckClient, Finish, Chunk, EndOfStream, Raise,
                  Send, Poll, SendLast, Cancel, Deliver, Disconnect, Leave,
                  Active, Streaming
    <2>3. ActiveRequests' \subseteq ActiveRequests
      BY <2>2 DEF Goto, TypeOK, ActiveRequests
    <2> QED BY <2>1, <2>3, OthersKeepProxy
  <1> QED BY <1>1, <1>2, <1>3, EnterKeepsProxy DEF Next, Step

\* A handler works with the model it asked for, which stays the one open model for
\* as long as the handler is past the double lock.
THEOREM HandlersUseOpenModel == Spec => []UsesOpenModel
  <1>1. Init => ProxyInvariant
    BY ServerAssumption DEF Init, ProxyInvariant, ActiveRequests, Active, Streaming
  <1>2. TypeOK /\ ProxyInvariant => UsesOpenModel
    <2> SUFFICES ASSUME TypeOK, ProxyInvariant,
                        NEW r \in ActiveRequests, kind[r] # "models"
                 PROVE  /\ using[r] = Resolve(wants[r])
                        /\ using[r] = proxy.model
                        /\ proxy.open = {using[r]}
      BY DEF UsesOpenModel
    <2>1. using[r] = Resolve(wants[r]) /\ using[r] = proxy.model
      BY DEF ProxyInvariant
    <2>2. proxy.model # NoAlias
      BY <2>1, ServerAssumption DEF Resolve
    <2> QED BY <2>1, <2>2 DEF ProxyInvariant
  <1> QED BY <1>1, <1>2, LocksCorrect, ProxyInvariantInductive, PTL DEF Spec

-----------------------------------------------------------------------------
(* The double lock is one queue.  Holders of a lock, as a sequence. *)

LEMMA HoldersType ==
  ASSUME NEW l \in Lock, Orderly(l)
  PROVE  /\ Holders(l) \in Seq(Request)
         /\ Len(Holders(l)) = IF Locked(l) THEN Len(l.queue) + 1 ELSE 0
         /\ Locked(l) => /\ Holders(l)[1] = l.owner
                         /\ \A i \in 1 .. Len(l.queue) : Holders(l)[i + 1] = l.queue[i]
         /\ \A r \in Request : r \in HolderSet(l) <=> \E i \in DOMAIN Holders(l) : Holders(l)[i] = r
  <1>1. l.queue \in Seq(Request) /\ Len(l.queue) \in Nat /\ DOMAIN l.queue = 1 .. Len(l.queue)
    BY DEF Lock
  <1>2. CASE Locked(l)
    <2> DEFINE one == <<l.owner>>
    <2>1. one \in Seq(Request) /\ Len(one) = 1 /\ one[1] = l.owner /\ l.owner \in Request
      BY <1>2 DEF Lock, Locked
    <2>2. Holders(l) = one \o l.queue
      BY <1>2 DEF Holders
    <2> HIDE DEF one
    <2>3. /\ one \o l.queue \in Seq(Request)
          /\ Len(one \o l.queue) = 1 + Len(l.queue)
          /\ \A i \in 1 .. 1 + Len(l.queue) :
               (one \o l.queue)[i] = IF i <= 1 THEN one[i] ELSE l.queue[i - 1]
      <3> DEFINE q == l.queue
      <3>1. one \in Seq(Request) /\ q \in Seq(Request) /\ Len(one) = 1
        BY <1>1, <2>1
      <3> HIDE DEF q
      <3>2. /\ one \o q \in Seq(Request)
            /\ Len(one \o q) = Len(one) + Len(q)
            /\ \A i \in 1 .. Len(one) + Len(q) :
                 (one \o q)[i] = IF i <= Len(one) THEN one[i] ELSE q[i - Len(one)]
        BY <3>1, ConcatProperties
      <3> QED BY <3>1, <3>2 DEF q
    <2>4. Holders(l)[1] = l.owner /\ \A i \in 1 .. Len(l.queue) : Holders(l)[i + 1] = l.queue[i]
      <3>1. 1 \in 1 .. 1 + Len(l.queue)
        BY <1>1
      <3>2. ASSUME NEW i \in 1 .. Len(l.queue) PROVE Holders(l)[i + 1] = l.queue[i]
        <4>1. i + 1 \in 1 .. 1 + Len(l.queue) /\ ~(i + 1 <= 1) /\ (i + 1) - 1 = i
          BY <1>1
        <4>2. (one \o l.queue)[i + 1] = l.queue[(i + 1) - 1]
          BY <2>3, <4>1
        <4> QED BY <2>2, <4>1, <4>2
      <3> QED BY <2>1, <2>2, <2>3, <3>1, <3>2
    <2>5. DOMAIN Holders(l) = 1 .. Len(l.queue) + 1
      BY <1>1, <2>2, <2>3
    <2>6. ASSUME NEW r \in HolderSet(l) PROVE \E i \in DOMAIN Holders(l) : Holders(l)[i] = r
      <3>1. CASE r = l.owner
        BY <1>1, <2>4, <2>5, <3>1
      <3>2. CASE \E i \in DOMAIN l.queue : l.queue[i] = r
        <4>1. PICK i \in 1 .. Len(l.queue) : l.queue[i] = r
          BY <1>1, <3>2
        <4> QED BY <1>1, <2>4, <2>5, <4>1
      <3> QED BY <3>1, <3>2 DEF HolderSet
    <2>7. ASSUME NEW r \in Request, NEW i \in DOMAIN Holders(l), Holders(l)[i] = r PROVE r \in HolderSet(l)
      <3>1. CASE i = 1
        BY <2>4, <2>7, <3>1 DEF HolderSet
      <3>2. CASE i # 1
        <4>1. i - 1 \in 1 .. Len(l.queue) /\ (i - 1) + 1 = i
          BY <1>1, <2>5, <3>2
        <4> QED BY <1>1, <2>4, <2>7, <4>1 DEF HolderSet
      <3> QED BY <3>1, <3>2
    <2> QED BY <1>1, <1>2, <2>2, <2>3, <2>4, <2>6, <2>7
  <1>3. CASE ~Locked(l)
    <2>1. Holders(l) = << >> /\ HolderSet(l) = {}
      BY <1>3, ServerAssumption DEF Holders, Orderly, Locked, HolderSet
    <2> QED BY <1>3, <2>1
  <1> QED BY <1>2, <1>3

LEMMA HoldersAcquire ==
  ASSUME NEW l \in Lock, Orderly(l), NEW t \in Request
  PROVE  Holders(Acquire(l, t)) = Append(Holders(l), t)
  <1>1. CASE Locked(l)
    <2>1. l.queue \in Seq(Request) /\ l.owner \in Request
      BY <1>1 DEF Lock, Locked
    <2>2. Acquire(l, t) = [owner |-> l.owner, queue |-> Append(l.queue, t)]
      BY <1>1 DEF Acquire, Lock
    <2>3. Holders(Acquire(l, t)) = <<l.owner>> \o Append(l.queue, t)
      BY <1>1, <2>2 DEF Holders, Locked
    <2> QED BY <1>1, <2>1, <2>3 DEF Holders
  <1>2. CASE ~Locked(l)
    <2>1. Acquire(l, t) = [owner |-> t, queue |-> << >>]
      BY <1>2 DEF Acquire, Lock, Orderly
    <2>2. Holders(Acquire(l, t)) = <<t>> /\ Holders(l) = << >>
      BY <1>2, <2>1, ServerAssumption DEF Holders, Locked
    <2> QED BY <2>2
  <1> QED BY <1>1, <1>2

LEMMA HoldersRelease ==
  ASSUME NEW l \in Lock, Orderly(l), l.owner \in Request
  PROVE  /\ Holders(l) # << >> /\ Head(Holders(l)) = l.owner
         /\ Holders(Release(l)) = Tail(Holders(l))
  <1>1. Locked(l) /\ l.queue \in Seq(Request)
    BY ServerAssumption DEF Lock, Locked
  <1>2. /\ Holders(l) = <<l.owner>> \o l.queue
        /\ Holders(l) # << >> /\ Head(Holders(l)) = l.owner /\ Tail(Holders(l)) = l.queue
    BY <1>1 DEF Holders
  <1>3. CASE l.queue = << >>
    BY <1>2, <1>3, ServerAssumption DEF Release, Holders, Locked, Lock
  <1>4. CASE l.queue # << >>
    <2>1. Release(l) = [owner |-> Head(l.queue), queue |-> Tail(l.queue)] /\ Head(l.queue) \in Request
      BY <1>1, <1>4 DEF Release
    <2>2. Holders(Release(l)) = <<Head(l.queue)>> \o Tail(l.queue)
      BY <2>1, ServerAssumption DEF Holders, Locked
    <2> QED BY <1>1, <1>2, <1>4, <2>2
  <1> QED BY <1>2, <1>3, <1>4

LEMMA HoldersWithdraw ==
  ASSUME NEW l \in Lock, Orderly(l), NEW t \in HolderSet(l)
  PROVE  \E i \in DOMAIN Holders(l) :
           Holders(l)[i] = t /\ Holders(Withdraw(l, t)) = RemoveAt(Holders(l), i)
  <1>1. t \in Request /\ Locked(l)
    BY ServerAssumption DEF HolderSet, Orderly, Locked
  <1>2. /\ l.queue \in Seq(Request) /\ l.owner \in Request
        /\ Len(l.queue) \in Nat /\ DOMAIN l.queue = 1 .. Len(l.queue)
    BY <1>1 DEF Lock, Locked
  <1>3. /\ Holders(l) \in Seq(Request) /\ Len(Holders(l)) = Len(l.queue) + 1
        /\ DOMAIN Holders(l) = 1 .. Len(l.queue) + 1
        /\ Holders(l)[1] = l.owner
        /\ \A i \in 1 .. Len(l.queue) : Holders(l)[i + 1] = l.queue[i]
    BY <1>1, <1>2, HoldersType
  <1>4. Withdraw(l, t) \in Lock /\ Orderly(Withdraw(l, t))
    BY WithdrawLock
  <1>5. Holders(Withdraw(l, t)) \in Seq(Request)
    BY <1>4, HoldersType
  <1>6. CASE l.owner = t
    <2>1. Holders(Withdraw(l, t)) = Tail(Holders(l))
      BY <1>2, <1>6, HoldersRelease DEF Withdraw
    <2>2. 1 \in 1 .. Len(Holders(l))
      BY <1>2, <1>3
    <2>3. /\ RemoveAt(Holders(l), 1) \in Seq(Request)
          /\ Len(RemoveAt(Holders(l), 1)) = Len(Holders(l)) - 1
          /\ \A i \in 1 .. Len(Holders(l)) - 1 : RemoveAt(Holders(l), 1)[i] = Holders(l)[i + 1]
      BY <1>3, <2>2, RemoveAtProperties
    <2>4. /\ Len(Tail(Holders(l))) = Len(Holders(l)) - 1
          /\ \A i \in 1 .. Len(Holders(l)) - 1 : Tail(Holders(l))[i] = Holders(l)[i + 1]
      BY <1>2, <1>3
    <2>5. Tail(Holders(l)) = RemoveAt(Holders(l), 1)
      BY <1>5, <2>1, <2>3, <2>4, SeqEqual
    <2> QED BY <1>3, <1>6, <2>1, <2>2, <2>5
  <1>7. CASE l.owner # t
    <2> DEFINE k == CHOOSE i \in DOMAIN l.queue : l.queue[i] = t
               q == RemoveAt(l.queue, k)
    <2>1. k \in 1 .. Len(l.queue) /\ l.queue[k] = t
      BY <1>2, <1>7 DEF HolderSet
    <2>2. Withdraw(l, t) = [owner |-> l.owner, queue |-> q]
      BY <1>7 DEF Withdraw, Lock
    <2> HIDE DEF k
    <2>3. /\ q \in Seq(Request) /\ Len(q) = Len(l.queue) - 1
          /\ \A i \in 1 .. Len(l.queue) - 1 : q[i] = IF i < k THEN l.queue[i] ELSE l.queue[i + 1]
      BY <1>2, <2>1, RemoveAtProperties
    <2>4. Locked(Withdraw(l, t))
      BY <1>1, <2>2 DEF Locked
    <2> DEFINE h == Holders(Withdraw(l, t))
               g == RemoveAt(Holders(l), k + 1)
    <2> HIDE DEF q
    <2>5. /\ Len(h) = Len(l.queue) /\ h[1] = l.owner
          /\ \A i \in 1 .. Len(l.queue) - 1 : h[i + 1] = q[i]
      BY <1>2, <1>4, <2>2, <2>3, <2>4, HoldersType
    <2>6. k + 1 \in 1 .. Len(Holders(l))
      BY <1>2, <1>3, <2>1
    <2>7. /\ g \in Seq(Request) /\ Len(g) = Len(l.queue)
          /\ \A i \in 1 .. Len(l.queue) : g[i] = IF i < k + 1 THEN Holders(l)[i] ELSE Holders(l)[i + 1]
      <3>1. /\ g \in Seq(Request) /\ Len(g) = Len(Holders(l)) - 1
            /\ \A i \in 1 .. Len(Holders(l)) - 1 :
                 g[i] = IF i < k + 1 THEN Holders(l)[i] ELSE Holders(l)[i + 1]
        BY <1>3, <2>6, RemoveAtProperties
      <3> QED BY <1>2, <1>3, <3>1
    <2>8. ASSUME NEW i \in 1 .. Len(l.queue) PROVE h[i] = g[i]
      <3>1. CASE i = 1
        BY <1>2, <1>3, <2>1, <2>5, <2>7, <3>1
      <3>2. CASE i # 1
        <4>1. i - 1 \in 1 .. Len(l.queue) - 1 /\ (i - 1) + 1 = i /\ i \in 1 .. Len(l.queue)
          BY <1>2, <3>2
        <4>2. h[i] = IF i - 1 < k THEN l.queue[i - 1] ELSE l.queue[i]
          BY <2>3, <2>5, <4>1
        <4>3. Holders(l)[i] = l.queue[i - 1] /\ Holders(l)[i + 1] = l.queue[i]
          BY <1>2, <1>3, <4>1
        <4> QED BY <1>2, <2>1, <2>7, <4>1, <4>2, <4>3
      <3> QED BY <3>1, <3>2
    <2>9. h = g
      BY <1>5, <2>5, <2>7, <2>8, SeqEqual
    <2> QED BY <1>2, <1>3, <2>1, <2>9
  <1> QED BY <1>6, <1>7

-----------------------------------------------------------------------------
(* LlamaServer implements FifoServer. *)

Serving == IF inner.owner # NoRequest /\ pc[inner.owner] \in Active THEN inner.owner ELSE NoRequest

CutShort == {r \in Request : pc[r] \in {"sendStop", "interrupted"}}

\* The request that is served is the one past the double lock.
LEMMA ServingIs ==
  ASSUME TypeOK, LockInvariant
  PROVE  /\ \A r \in Request : Serving = r <=> pc[r] \in Active
         /\ (\A r \in Request : pc[r] \notin Active) <=> Serving = NoRequest
         /\ Serving \in Request \cup {NoRequest}
  BY ServerAssumption DEF TypeOK, LockInvariant, Serving, Lock

\* A step that keeps the outer lock, the request past the inner one and what is cut
\* short is no step of the queue.
LEMMA Stutter ==
  ASSUME Holders(outer') = Holders(outer), Serving' = Serving, CutShort' = CutShort
  PROVE  UNCHANGED Abstract!vars
  BY DEF Abstract!vars, Serving, CutShort, Holders, Locked

LEMMA ArriveMaps ==
  ASSUME TypeOK, LockInvariant, TypeOK', LockInvariant', NEW r \in Request, Arrive(r)
  PROVE  Abstract!Arrive(r)
  <1>1. pc[r] \notin Pending \cup Active /\ outer' = Acquire(outer, r)
    BY DEF Arrive, Pending, Active, Streaming, Ended
  <1>2. \A s \in Request : pc'[s] = IF s = r THEN "outer" ELSE pc[s]
    BY DEF Arrive, Goto, TypeOK
  <1>3. outer \in Lock /\ Orderly(outer) /\ r \notin HolderSet(outer)
    BY <1>1 DEF TypeOK, LockInvariant
  <1>4. Holders(outer)' = Append(Holders(outer), r)
    BY <1>1, <1>3, HoldersAcquire DEF Holders, Locked
  <1>5. Serving # r /\ ~ \E i \in DOMAIN Holders(outer) : Holders(outer)[i] = r
    BY <1>1, <1>3, ServingIs, HoldersType
  <1>6. Serving' = Serving
    <2>1. inner' = inner
      BY DEF Arrive
    <2>2. inner.owner \in Request \cup {NoRequest}
      BY DEF TypeOK, Lock
    <2>3. "outer" \notin Active
      BY DEF Active, Streaming
    <2> QED BY <1>1, <1>2, <2>1, <2>2, <2>3 DEF Serving
  <1>7. CutShort' = CutShort \ {r}
    BY <1>2 DEF CutShort
  <1> QED BY <1>4, <1>5, <1>6, <1>7 DEF Abstract!Arrive, Abstract!Present, Serving, CutShort

LEMMA EnterMaps ==
  ASSUME TypeOK, LockInvariant, NEW r \in Request, Enter(r)
  PROVE  Abstract!Start(r)
  <1>1. /\ pc[r] = "inner" /\ inner.owner = r /\ outer.owner = r /\ outer' = Release(outer)
        /\ outer \in Lock /\ Orderly(outer)
    BY DEF Enter, LockInvariant, TypeOK
  <1>2. /\ Holders(outer) # << >> /\ Head(Holders(outer)) = r
        /\ Holders(outer)' = Tail(Holders(outer))
    BY <1>1, HoldersRelease DEF Holders, Locked
  <1>3. \A s \in Request : pc[s] \notin Active
    BY <1>1 DEF LockInvariant, Active, Streaming
  <1>4. Serving = NoRequest
    BY <1>3, ServingIs
  <1>5. \E p \in {"run", "compute", "check", "error"} :
           /\ \A s \in Request : pc'[s] = IF s = r THEN p ELSE pc[s]
           /\ p # "error" => inner' = inner
    BY DEF Enter, FirstPlace, Leave, Goto, TypeOK
  <1>6. Serving' \in {r, NoRequest}
    <2>1. \A s \in Request : pc'[s] \in Active => s = r
      BY <1>3, <1>5
    <2>2. inner'.owner \in Request \cup {NoRequest}
      BY EnterKeeps DEF TypeOK, Lock
    <2> QED BY <2>1, <2>2 DEF Serving
  <1>7. CutShort' = CutShort
    BY <1>1, <1>5 DEF CutShort
  <1> QED BY <1>2, <1>4, <1>6, <1>7 DEF Abstract!Start, Serving, CutShort

\* The request past the double lock goes on.
LEMMA MoveMaps ==
  ASSUME TypeOK, LockInvariant, NEW r \in Request, NEW p \in Active,
         pc[r] \in Active, Goto(r, p), UNCHANGED lockVars
  PROVE  Serving = r /\ Serving' = r
         /\ CutShort' = IF p = "sendStop" THEN CutShort \cup {r} ELSE CutShort \ {r}
  <1>1. \A s \in Request : pc'[s] = IF s = r THEN p ELSE pc[s]
    BY DEF Goto, TypeOK
  <1>2. inner.owner = r /\ inner' = inner /\ r # NoRequest
    BY ServerAssumption DEF LockInvariant, lockVars
  <1>3. p # "interrupted"
    BY DEF Active, Streaming
  <1> QED BY <1>1, <1>2, <1>3 DEF Serving, CutShort

\* It leaves; what was not cut short ends otherwise than as interrupted.
LEMMA LeaveMaps ==
  ASSUME TypeOK, LockInvariant, NEW r \in Request, NEW how \in Ended,
         pc[r] \in Active, Leave(r, how), UNCHANGED outer,
         how = "interrupted" => pc[r] = "sendStop"
  PROVE  Abstract!End(r)
  <1>1. \A s \in Request : pc'[s] = IF s = r THEN how ELSE pc[s]
    BY DEF Leave, Goto, TypeOK
  <1>2. LockInvariant' /\ pc' \in [Request -> Place] /\ inner' \in Lock
    BY LeaveKeepsLocks
  <1>3. Serving = r
    BY ServingIs
  <1>4. how \notin Active /\ inner.owner = r /\ how # "sendStop"
    BY DEF LockInvariant, Active, Streaming, Ended
  <1>5. \A s \in Request : pc'[s] \notin Active
    BY <1>1, <1>4 DEF LockInvariant
  <1>6. Serving' = NoRequest
    BY <1>2, <1>5 DEF Serving, Lock
  <1>7. CutShort' \in {CutShort, CutShort \ {r}}
    <2>1. CASE how = "interrupted"
      BY <1>1, <2>1 DEF CutShort
    <2>2. CASE how # "interrupted"
      BY <1>1, <1>4, <2>2 DEF CutShort
    <2> QED BY <2>1, <2>2
  <1> QED BY <1>3, <1>6, <1>7 DEF Abstract!End, Serving, CutShort, Holders, Locked

LEMMA PollMaps ==
  ASSUME TypeOK, LockInvariant, NEW r \in Request, Poll(r)
  PROVE  Abstract!Cut(r) \/ Abstract!End(r) \/ UNCHANGED Abstract!vars
  <1>1. pc[r] = "poll" /\ pc[r] \in Active /\ outer' = outer
    BY DEF Poll, Active, Streaming
  <1>2. CASE Leave(r, "cancelled")
    BY <1>1, <1>2, LeaveMaps DEF Ended
  <1>3. CASE Goto(r, "compute") /\ UNCHANGED inner
    <2>1. Serving' = Serving /\ CutShort' = CutShort \ {r}
      BY <1>1, <1>3, MoveMaps DEF Active, Streaming, lockVars
    <2> QED BY <1>1, <2>1, Stutter DEF CutShort
  <1>4. CASE Goto(r, "sendStop") /\ UNCHANGED inner /\ Interrupted
    <2>1. Serving = r /\ Serving' = r /\ CutShort' = CutShort \cup {r}
      BY <1>1, <1>4, MoveMaps DEF Active, Streaming, lockVars
    <2>2. Holders(outer) # << >>
      <3>1. outer.owner \in Request /\ outer \in Lock /\ Orderly(outer)
        BY <1>4 DEF Interrupted, Locked, TypeOK, Lock, LockInvariant
      <3> QED BY <3>1, HoldersRelease
    <2> QED BY <1>1, <2>1, <2>2 DEF Abstract!Cut, Serving, CutShort, Holders, Locked
  <1> QED BY <1>2, <1>3, <1>4 DEF Poll

LEMMA CancelMaps ==
  ASSUME TypeOK, LockInvariant, TypeOK', LockInvariant', NEW r \in Request, Cancel(r)
  PROVE  Abstract!GiveUp(r) \/ Abstract!End(r)
  <1>1. \A s \in Request : pc'[s] = IF s = r THEN "cancelled" ELSE pc[s]
    BY DEF Cancel, Goto, TypeOK
  <1>2. CASE pc[r] \in {"outer", "inner"}
    <2>1. r \in HolderSet(outer) /\ outer \in Lock /\ Orderly(outer)
      BY <1>2 DEF LockInvariant, Pending, TypeOK
    <2>2. outer' = Withdraw(outer, r)
      BY <1>2 DEF Cancel, AbandonInner, Withdraw, LockInvariant
    <2>3. \E i \in DOMAIN Holders(outer) :
            Holders(outer)[i] = r /\ Holders(outer') = RemoveAt(Holders(outer), i)
      BY <2>1, <2>2, HoldersWithdraw
    <2>4. CutShort' = CutShort
      BY <1>1, <1>2 DEF CutShort
    <2>5. \A s \in Request : pc'[s] \in Active <=> pc[s] \in Active
      BY <1>1, <1>2 DEF Active, Streaming
    <2>6. /\ \A s \in Request : Serving = s <=> pc[s] \in Active
          /\ Serving \in Request \cup {NoRequest}
      BY ServingIs
    <2>7. /\ \A s \in Request : Serving' = s <=> pc'[s] \in Active
          /\ Serving' \in Request \cup {NoRequest}
      BY ServerAssumption DEF TypeOK, LockInvariant, Serving, Lock
    <2>8. Serving' = Serving
      BY <2>5, <2>6, <2>7
    <2>9. \A q, i : Abstract!RemoveAt(q, i) = RemoveAt(q, i)
      BY DEF RemoveAt, Abstract!RemoveAt
    <2> QED BY <2>3, <2>4, <2>8, <2>9 DEF Abstract!GiveUp, Serving, CutShort, Holders, Locked
  <1>3. CASE pc[r] \in {"send", "sendStop", "sendDone"}
    <2>1. Leave(r, "cancelled") /\ UNCHANGED outer /\ pc[r] \in Active
      BY <1>3 DEF Cancel, Leave, Active, Streaming
    <2> QED BY <2>1, LeaveMaps DEF Ended
  <1> QED BY <1>2, <1>3 DEF Cancel

\* The other steps past the double lock.
LEMMA ActiveMaps ==
  ASSUME TypeOK, LockInvariant, NEW r \in Request,
         CheckClient(r) \/ Finish(r) \/ Chunk(r) \/ EndOfStream(r) \/ Raise(r) \/ Send(r) \/ SendLast(r)
  PROVE  Abstract!End(r) \/ UNCHANGED Abstract!vars
  <1>1. pc[r] \in Active /\ outer' = outer
    BY DEF CheckClient, Finish, Chunk, EndOfStream, Raise, Send, SendLast, Active, Streaming, lockVars
  <1>2. \/ \E p \in Active \ {"sendStop"} : Goto(r, p) /\ UNCHANGED lockVars /\ pc[r] # "sendStop"
        \/ \E how \in Ended : Leave(r, how) /\ (how = "interrupted" => pc[r] = "sendStop")
    BY DEF CheckClient, Finish, Chunk, EndOfStream, Raise, Send, SendLast,
           Active, Streaming, Ended, lockVars
  <1>3. ASSUME NEW p \in Active \ {"sendStop"}, Goto(r, p), UNCHANGED lockVars, pc[r] # "sendStop"
        PROVE  UNCHANGED Abstract!vars
    <2>1. Serving' = Serving /\ CutShort' = CutShort \ {r}
      BY <1>1, <1>3, MoveMaps
    <2>2. r \notin CutShort
      BY <1>1, <1>3 DEF CutShort, Active, Streaming
    <2> QED BY <1>1, <2>1, <2>2, Stutter
  <1>4. ASSUME NEW how \in Ended, Leave(r, how), how = "interrupted" => pc[r] = "sendStop"
        PROVE  Abstract!End(r)
    BY <1>1, <1>4, LeaveMaps
  <1> QED BY <1>2, <1>3, <1>4

\* The steps the queue does not see.
LEMMA OthersStutter ==
  ASSUME TypeOK, LockInvariant, NEW r \in Request, TakeInner(r) \/ Deliver(r) \/ Disconnect(r)
  PROVE  UNCHANGED Abstract!vars
  <1>1. CASE TakeInner(r)
    <2>1. pc[r] = "outer" /\ outer' = outer
      BY <1>1 DEF TakeInner
    <2>2. \A s \in Request : pc'[s] = IF s = r THEN "inner" ELSE pc[s]
      BY <1>1 DEF TakeInner, Goto, TypeOK
    <2>3. \A s \in Request : pc'[s] \in Active <=> pc[s] \in Active
      BY <2>1, <2>2 DEF Active, Streaming
    <2>4. TypeOK' /\ LockInvariant'
      BY <1>1, TakeInnerKeeps
    <2>5. Serving' = Serving
      BY <2>3, <2>4, ServerAssumption DEF TypeOK, LockInvariant, Serving, Lock
    <2>6. CutShort' = CutShort
      BY <2>1, <2>2 DEF CutShort
    <2> QED BY <2>1, <2>5, <2>6, Stutter
  <1>2. CASE Deliver(r) \/ Disconnect(r)
    BY <1>2, Stutter DEF Deliver, Disconnect, lockVars, Serving, CutShort
  <1> QED BY <1>1, <1>2

\* The double lock with all its cancellations is one queue: requests are served in
\* the order of arrival, one at a time, and a stream is cut only while somebody
\* waits.
THEOREM ServerImplementsFifo == Spec => ImplementsFifo
  <1>1. Init => Abstract!Init
    BY ServerAssumption DEF Init, Abstract!Init, Unlocked, Holders, Locked
  <1>2. ASSUME TypeOK, LockInvariant, [Next]_vars PROVE [Abstract!Next]_(Abstract!vars)
    <2>1. CASE UNCHANGED vars
      BY <2>1, Stutter DEF vars, Serving, CutShort
    <2>2. ASSUME NEW r \in Request, Arrive(r) \/ Step(r) \/ Deliver(r) \/ Disconnect(r)
          PROVE  Abstract!Next \/ UNCHANGED Abstract!vars
      <3>1. TypeOK' /\ LockInvariant'
        BY <1>2, LockInvariantInductive
      <3> QED BY <1>2, <2>2, <3>1, ArriveMaps, EnterMaps, PollMaps, CancelMaps, ActiveMaps, OthersStutter
              DEF Step, Abstract!Next
    <2> QED BY <1>2, <2>1, <2>2 DEF Next
  <1> QED BY <1>1, <1>2, LocksCorrect, PTL DEF Spec, ImplementsFifo, Abstract!Spec

-----------------------------------------------------------------------------
(* The frames of a stream *)

Count(q, x) == Cardinality({i \in DOMAIN q : q[i] = x})

LEMMA CountEmpty ==
  ASSUME NEW x PROVE Count(<< >>, x) = 0
  <1>1. {i \in DOMAIN << >> : << >>[i] = x} = {}
    OBVIOUS
  <1> QED BY <1>1, FS_EmptySet DEF Count

LEMMA CountFinite ==
  ASSUME NEW S, NEW q \in Seq(S), NEW x
  PROVE  IsFiniteSet({i \in DOMAIN q : q[i] = x}) /\ Count(q, x) \in Nat
  <1>1. DOMAIN q = 1 .. Len(q) /\ Len(q) \in Nat
    BY LenProperties
  <1>2. IsFiniteSet(1 .. Len(q))
    BY <1>1, FS_Interval
  <1>3. {i \in DOMAIN q : q[i] = x} \in SUBSET (1 .. Len(q))
    BY <1>1
  <1>4. IsFiniteSet({i \in DOMAIN q : q[i] = x})
    BY <1>2, <1>3, FS_Subset
  <1> QED BY <1>4, FS_CardinalityType DEF Count

LEMMA CountAppend ==
  ASSUME NEW S, NEW q \in Seq(S), NEW y \in S, NEW x
  PROVE  Count(Append(q, y), x) = Count(q, x) + (IF y = x THEN 1 ELSE 0)
  <1> DEFINE A == {i \in DOMAIN q : q[i] = x}
             B == {i \in DOMAIN Append(q, y) : Append(q, y)[i] = x}
             k == Len(q) + 1
  <1>1. /\ DOMAIN q = 1 .. Len(q) /\ Len(q) \in Nat
        /\ DOMAIN Append(q, y) = 1 .. k
        /\ \A i \in 1 .. Len(q) : Append(q, y)[i] = q[i]
        /\ Append(q, y)[k] = y
    BY AppendProperties, LenProperties
  <1>2. k \notin A /\ B = IF y = x THEN A \cup {k} ELSE A
    BY <1>1
  <1>3. IsFiniteSet(A) /\ Cardinality(A) \in Nat
    BY CountFinite DEF Count
  <1> HIDE DEF A, B
  <1>4. Cardinality(A \cup {k}) = Cardinality(A) + 1
    BY <1>2, <1>3, FS_AddElement
  <1>5. Cardinality(B) = Cardinality(A) + (IF y = x THEN 1 ELSE 0)
    BY <1>2, <1>3, <1>4
  <1> QED BY <1>5 DEF A, B, Count

LEMMA CountTail ==
  ASSUME NEW S, NEW q \in Seq(S), q # << >>, NEW x
  PROVE  Count(Tail(q), x) = Count(q, x) - (IF Head(q) = x THEN 1 ELSE 0)
  <1> DEFINE A == {i \in DOMAIN Tail(q) : Tail(q)[i] = x}
             B == {i \in DOMAIN q : q[i] = x}
             f == [i \in A |-> i + 1]
  <1>1. /\ DOMAIN q = 1 .. Len(q) /\ Len(q) \in Nat \ {0}
        /\ Tail(q) \in Seq(S) /\ DOMAIN Tail(q) = 1 .. Len(q) - 1
        /\ \A i \in 1 .. Len(q) - 1 : Tail(q)[i] = q[i + 1]
        /\ Head(q) = q[1]
    OBVIOUS
  <1>2. IsFiniteSet(A) /\ Cardinality(A) \in Nat /\ IsFiniteSet(B) /\ Cardinality(B) \in Nat
    BY <1>1, CountFinite DEF Count
  <1>3. f \in Bijection(A, B \ {1})
    <2>1. f \in [A -> B \ {1}]
      BY <1>1
    <2>2. \A i, j \in A : f[i] = f[j] => i = j
      BY <1>1
    <2>3. ASSUME NEW j \in B \ {1} PROVE \E i \in A : f[i] = j
      <3>1. j - 1 \in A /\ f[j - 1] = j
        BY <1>1
      <3> QED BY <3>1
    <2> HIDE DEF f, A, B
    <2> QED BY <2>1, <2>2, <2>3, Fun_IsBij
  <1>4. 1 \in B <=> Head(q) = x
    BY <1>1
  <1> HIDE DEF f, A, B
  <1>5. Cardinality(B \ {1}) = Cardinality(A)
    <2>1. ExistsBijection(A, B \ {1})
      BY <1>3 DEF ExistsBijection
    <2> QED BY <1>2, <2>1, FS_Bijection
  <1>6. Cardinality(A) = Cardinality(B) - (IF Head(q) = x THEN 1 ELSE 0)
    <2>1. Cardinality(B \ {1}) = IF 1 \in B THEN Cardinality(B) - 1 ELSE Cardinality(B)
      BY <1>2, FS_RemoveElement
    <2> QED BY <1>2, <1>4, <1>5, <2>1
  <1> QED BY <1>6 DEF A, B, Count

\* The bookkeeping of one request: what is owed to its client is in the channel or
\* about to be put there, and a request begins with nothing of either.
ChunksKept(r) ==
  /\ pc[r] \in Streaming \cup {"complete", "interrupted"} =>
       owed[r] = Count(chan[r], "chunk") + (IF pc[r] = "send" THEN 1 ELSE 0)
  /\ \A i \in DOMAIN chan[r] : chan[r][i] = "done" => i = Len(chan[r]) /\ pc[r] \in Ended
  /\ pc[r] \in Pending \cup {"check", "run"} => chan[r] = << >> /\ owed[r] = 0

ChunkInvariant == \A r \in Request : ChunksKept(r)

\* What is owed to the clients of the other requests is left alone.
Others(r) ==
  \A s \in Request \ {r} : pc'[s] = pc[s] /\ chan'[s] = chan[s] /\ owed'[s] = owed[s]

LEMMA OthersKept ==
  ASSUME ChunkInvariant, NEW r \in Request, Others(r), ChunksKept(r)'
  PROVE  ChunkInvariant'
  BY DEF ChunkInvariant, ChunksKept, Others

\* A step of a task changes the place of that task, its channel and what is owed.
LEMMA OneTask ==
  ASSUME TypeOK, NEW r \in Request, Arrive(r) \/ Step(r) \/ Deliver(r) \/ Disconnect(r)
  PROVE  Others(r)
  BY DEF TypeOK, Others, Arrive, Step, Deliver, Disconnect, TakeInner, Enter, CheckClient, Finish, Chunk,
     EndOfStream, Raise, Send, Poll, SendLast, Cancel, Leave, Goto, Put, streamVars

\* A task that moves and touches neither the channel nor what is owed.
LEMMA MoveKeepsChunks ==
  ASSUME TypeOK, NEW r \in Request, ChunksKept(r), chan' = chan, owed' = owed,
         pc'[r] \in Streaming \cup {"complete", "interrupted"} =>
           \/ pc[r] \in Streaming /\ (pc'[r] = "send" <=> pc[r] = "send")
           \/ pc[r] \in Pending \cup {"check", "run"} /\ pc'[r] # "send",
         pc[r] \in Ended => pc'[r] \in Ended,
         pc'[r] \in Pending \cup {"check", "run"} => pc[r] \in Pending \cup {"check", "run"}
  PROVE  ChunksKept(r)'
  <1>1. Count(<< >>, "chunk") = 0
    BY CountEmpty
  <1> QED BY <1>1 DEF ChunksKept, Streaming, Pending, Ended

LEMMA ChunksInductive ==
  ASSUME TypeOK, NEW r \in Request, ChunksKept(r),
         Arrive(r) \/ Step(r) \/ Deliver(r) \/ Disconnect(r)
  PROVE  ChunksKept(r)'
  <1>0. /\ pc \in [Request -> Place] /\ chan \in [Request -> Seq(Frame)] /\ owed \in [Request -> Int]
        /\ chan[r] \in Seq(Frame)
    BY DEF TypeOK
  <1>1. CASE Arrive(r)
    <2>1. pc'[r] = "outer" /\ chan'[r] = << >> /\ owed'[r] = 0
      BY <1>0, <1>1 DEF Arrive, Goto
    <2> QED BY <2>1 DEF ChunksKept, Streaming, Ended
  <1>2. CASE TakeInner(r) \/ Enter(r) \/ CheckClient(r) \/ EndOfStream(r) \/ Poll(r) \/ Disconnect(r)
    <2>1. chan' = chan /\ owed' = owed
      BY <1>2 DEF TakeInner, Enter, CheckClient, EndOfStream, Poll, Disconnect, streamVars
    <2> DEFINE Goes(p, q) == pc[r] = p /\ pc'[r] = q
    <2>2. \/ Goes("outer", "inner") \/ Goes("inner", "run") \/ Goes("inner", "compute")
          \/ Goes("inner", "check") \/ Goes("inner", "error") \/ Goes("check", "rejected")
          \/ Goes("check", "run") \/ Goes("compute", "sendDone") \/ Goes("poll", "cancelled")
          \/ Goes("poll", "sendStop") \/ Goes("poll", "compute") \/ pc' = pc
      <3>1. CASE Enter(r)
        BY <1>0, <3>1 DEF Enter, Leave, Goto, FirstPlace
      <3>2. CASE TakeInner(r) \/ CheckClient(r) \/ EndOfStream(r) \/ Poll(r) \/ Disconnect(r)
        BY <1>0, <3>2 DEF TakeInner, CheckClient, EndOfStream, Poll, Disconnect, Leave, Goto
      <3> QED BY <1>2, <3>1, <3>2
    <2>3. CASE pc' = pc
      BY <2>1, <2>3 DEF ChunksKept
    <2>4. CASE pc' # pc
      <3>. HIDE <1>2
      <3>. QED BY <2>1, <2>2, <2>4, MoveKeepsChunks DEF Streaming, Pending, Ended
    <2> QED BY <2>3, <2>4
  <1>3. CASE Finish(r)
    <2>1. chan' = chan /\ owed' = owed /\ pc[r] = "run" /\ pc'[r] \in {"complete", "error"}
      BY <1>0, <1>3 DEF Finish, Leave, Goto, streamVars
    <2> QED BY <2>1, MoveKeepsChunks DEF Streaming, Pending, Ended
  <1>4. CASE Chunk(r)
    <2>1. pc[r] = "compute" /\ pc'[r] = "send" /\ owed'[r] = owed[r] + 1 /\ chan' = chan
      BY <1>0, <1>4 DEF Chunk, Goto
    <2>2. Count(chan[r], "chunk") \in Nat
      BY <1>0, CountFinite
    <2> QED BY <2>1, <2>2 DEF ChunksKept, Streaming, Pending, Ended
  <1>5. CASE Raise(r)
    <2>1. pc'[r] = "error" /\ chan'[r] = << >>
      BY <1>0, <1>5 DEF Raise, Leave, Goto
    <2> QED BY <2>1 DEF ChunksKept, Streaming, Pending
  <1>6. CASE Send(r)
    <2>1. pc[r] = "send" /\ pc'[r] = "poll" /\ owed' = owed /\ chan'[r] = Append(chan[r], "chunk")
      BY <1>0, <1>6 DEF Send, Put, Goto
    <2>2. Count(chan'[r], "chunk") = Count(chan[r], "chunk") + 1 /\ Count(chan[r], "chunk") \in Nat
      <3>1. "chunk" \in Frame
        BY DEF Frame
      <3>2. Count(Append(chan[r], "chunk"), "chunk") = Count(chan[r], "chunk") + (IF "chunk" = "chunk" THEN 1 ELSE 0)
        BY <1>0, <3>1, CountAppend
      <3>3. Count(chan[r], "chunk") \in Nat
        BY <1>0, CountFinite
      <3> QED BY <2>1, <3>2, <3>3
    <2>3. \A i \in DOMAIN chan[r] : chan[r][i] # "done"
      BY <2>1 DEF ChunksKept, Ended
    <2>4. \A i \in DOMAIN chan'[r] : chan'[r][i] # "done"
      BY <1>0, <2>1, <2>3
    <2> QED BY <2>1, <2>2, <2>4 DEF ChunksKept, Streaming, Pending
  <1>7. CASE SendLast(r)
    <2>1. /\ pc[r] \in {"sendStop", "sendDone"} /\ pc'[r] \in {"interrupted", "complete"}
          /\ owed' = owed /\ chan'[r] = Append(chan[r], "done")
      BY <1>0, <1>7 DEF SendLast, Leave, Put, Goto
    <2>2. Count(chan'[r], "chunk") = Count(chan[r], "chunk") /\ Count(chan[r], "chunk") \in Nat
      <3>1. "done" \in Frame /\ "done" # "chunk"
        BY DEF Frame
      <3>2. Count(Append(chan[r], "done"), "chunk") = Count(chan[r], "chunk") + (IF "done" = "chunk" THEN 1 ELSE 0)
        BY <1>0, <3>1, CountAppend
      <3>3. Count(chan[r], "chunk") \in Nat
        BY <1>0, CountFinite
      <3> QED BY <2>1, <3>1, <3>2, <3>3
    <2>3. \A i \in DOMAIN chan[r] : chan[r][i] # "done"
      BY <2>1 DEF ChunksKept, Ended
    <2>4. \A i \in DOMAIN chan'[r] : chan'[r][i] = "done" => i = Len(chan'[r])
      BY <1>0, <2>1, <2>3
    <2> QED BY <2>1, <2>2, <2>4 DEF ChunksKept, Streaming, Pending, Ended
  <1>8. CASE Cancel(r)
    <2>1. pc'[r] = "cancelled" /\ chan'[r] = << >>
      BY <1>0, <1>8 DEF Cancel, Goto
    <2> QED BY <2>1 DEF ChunksKept, Streaming, Pending
  <1>9. CASE Deliver(r)
    <2>1. /\ chan[r] # << >> /\ chan'[r] = Tail(chan[r]) /\ pc' = pc
          /\ owed'[r] = owed[r] - (IF Head(chan[r]) = "chunk" THEN 1 ELSE 0)
      BY <1>0, <1>9 DEF Deliver
    <2>2. Count(chan'[r], "chunk") = Count(chan[r], "chunk") - (IF Head(chan[r]) = "chunk" THEN 1 ELSE 0)
          /\ Count(chan[r], "chunk") \in Nat
      BY <1>0, <2>1, CountTail, CountFinite
    <2>3. ASSUME NEW i \in DOMAIN chan'[r], chan'[r][i] = "done"
          PROVE  i = Len(chan'[r]) /\ pc[r] \in Ended
      <3>1. i + 1 \in DOMAIN chan[r] /\ chan[r][i + 1] = "done" /\ Len(chan'[r]) = Len(chan[r]) - 1
        BY <1>0, <2>1, <2>3
      <3> QED BY <1>0, <2>1, <2>3, <3>1 DEF ChunksKept
    <2>4. pc[r] \notin Pending \cup {"check", "run"}
      BY <2>1 DEF ChunksKept
    <2> QED BY <1>0, <2>1, <2>2, <2>3, <2>4 DEF ChunksKept
  <1> QED BY <1>1, <1>2, <1>3, <1>4, <1>5, <1>6, <1>7, <1>8, <1>9 DEF Step

\* A client that stays gets every chunk that was computed for it, however its stream
\* ends, and nothing after the last frame.
THEOREM ServerLosesNoChunk == Spec => []NoChunkLost
  <1>1. Init => ChunkInvariant
    BY CountEmpty DEF Init, ChunkInvariant, ChunksKept, Streaming, Pending
  <1>2. ASSUME TypeOK, ChunkInvariant, [Next]_vars PROVE ChunkInvariant'
    <2>1. CASE UNCHANGED vars
      BY <1>2, <2>1 DEF vars, ChunkInvariant, ChunksKept
    <2>2. ASSUME NEW r \in Request, Arrive(r) \/ Step(r) \/ Deliver(r) \/ Disconnect(r)
          PROVE  ChunkInvariant'
      BY <1>2, <2>2, OneTask, ChunksInductive, OthersKept DEF ChunkInvariant
    <2> QED BY <1>2, <2>1, <2>2 DEF Next
  <1>3. ChunkInvariant => NoChunkLost
    BY DEF ChunkInvariant, ChunksKept, NoChunkLost, Frames, Count
  <1> QED BY <1>1, <1>2, <1>3, LocksCorrect, PTL DEF Spec
=============================================================================
