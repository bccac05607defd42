----------------------- MODULE CompletionStreamProofs -----------------------
(***************************************************************************)
(* The invariants of CompletionStreamProps hold for every vocabulary, every *)
(* list of stop sequences and every bound.                                 *)
(***************************************************************************)
EXTENDS CompletionStreamProps, ProofLemmas, SequenceTheorems, FiniteSetTheorems, TLAPS

Text == Seq(STRING)

-----------------------------------------------------------------------------
(* Bytes: the tokens one after the other *)

\* The bytes up to each of the tokens.
Parts(ts) ==
  {f \in [0 .. Len(ts) -> Text] : f[0] = << >> /\ \A i \in 1 .. Len(ts) : f[i] = f[i - 1] \o ts[i]}

LEMMA TokenIsText ==
  ASSUME NEW ts \in Seq(Text)
  PROVE  Len(ts) \in Nat /\ (\A i \in 1 .. Len(ts) : ts[i] \in Text) /\ << >> \in Text
  <1>1. Len(ts) \in Nat /\ ts \in [1 .. Len(ts) -> Text]
    BY LenProperties
  <1>2. << >> \in Text
    BY EmptySeq DEF Text
  <1> QED BY <1>1, <1>2

LEMMA ConcatIsText ==
  ASSUME NEW a \in Text, NEW b \in Text
  PROVE  /\ a \o b \in Text /\ Len(a) \in Nat /\ Len(b) \in Nat /\ Len(a \o b) = Len(a) + Len(b)
         /\ \A i \in 1 .. Len(a) : (a \o b)[i] = a[i]
         /\ \A i \in 1 .. Len(b) : (a \o b)[Len(a) + i] = b[i]
  <1>1. Len(a) \in Nat /\ Len(b) \in Nat
    BY LenProperties DEF Text
  <1>2. /\ a \o b \in Text /\ Len(a \o b) = Len(a) + Len(b)
        /\ \A i \in 1 .. Len(a) + Len(b) : (a \o b)[i] = IF i <= Len(a) THEN a[i] ELSE b[i - Len(a)]
    BY ConcatProperties DEF Text
  <1> DEFINE m == Len(a)
             n == Len(b)
             c == a \o b
  <1>3. \A i \in 1 .. m : c[i] = a[i]
    <2> HIDE DEF m, n, c
    <2> QED BY <1>1, <1>2 DEF m, n, c
  <1>4. \A i \in 1 .. n : c[m + i] = b[i]
    <2> SUFFICES ASSUME NEW i \in 1 .. n PROVE c[m + i] = b[i]
      OBVIOUS
    <2> HIDE DEF c
    <2>1. m + i \in 1 .. m + n /\ ~(m + i <= m) /\ m + i - m = i
      BY <1>1
    <2>2. c[m + i] = IF m + i <= m THEN a[m + i] ELSE b[m + i - m]
      BY <1>2, <2>1 DEF c
    <2> QED BY <2>1, <2>2
  <1> QED BY <1>1, <1>2, <1>3, <1>4

LEMMA ConcatIsAssociative ==
  ASSUME NEW a \in Text, NEW b \in Text, NEW c \in Text
  PROVE  (a \o b) \o c = a \o (b \o c)
  BY ConcatAssociative DEF Text

LEMMA PartsExist ==
  ASSUME NEW ts \in Seq(Text)
  PROVE  Parts(ts) # {}
  <1> DEFINE L == Len(ts)
             Upto(k) == {f \in [0 .. k -> Text] : f[0] = << >> /\ \A i \in 1 .. k : f[i] = f[i - 1] \o ts[i]}
             Bad == {k \in 0 .. L : Upto(k) = {}}
  <1>1. L \in Nat /\ (\A i \in 1 .. L : ts[i] \in Text) /\ << >> \in Text
    BY TokenIsText
  <1> HIDE DEF L
  <1>2. 0 \notin Bad
    <2> DEFINE e == [i \in 0 .. 0 |-> << >>]
    <2>1. e \in [0 .. 0 -> Text] /\ e[0] = << >>
      BY <1>1
    <2>2. e \in Upto(0)
      <3> HIDE DEF e
      <3>1. \A i \in 1 .. 0 : FALSE
        OBVIOUS
      <3> QED BY <2>1, <3>1
    <2> QED BY <2>2
  <1>3. ASSUME Bad # {} PROVE FALSE
    <2>1. Bad \in SUBSET Nat
      <3> HIDE DEF Upto
      <3> QED BY <1>1
    <2> DEFINE k == Min(Bad)
    <2>2. k \in Bad /\ \A y \in Bad : k <= y
      <3> HIDE DEF Bad
      <3> QED BY <1>3, <2>1, LeastElement
    <2>3. k \in 1 .. L /\ Upto(k) = {} /\ Upto(k - 1) # {}
      <3> HIDE DEF k, Upto
      <3>1. k \in 0 .. L /\ k # 0 /\ Upto(k) = {}
        BY <1>2, <2>2
      <3>2. k - 1 \in 0 .. L /\ ~(k <= k - 1)
        BY <1>1, <3>1
      <3> QED BY <1>1, <2>2, <3>1, <3>2
    <2> HIDE DEF k, Bad
    <2>4. PICK f \in Upto(k - 1) : TRUE
      BY <2>3
    <2>5. f[k - 1] \in Text /\ f[k - 1] \o ts[k] \in Text
      <3>1. f[k - 1] \in Text /\ ts[k] \in Text
        BY <1>1, <2>3, <2>4
      <3> QED BY <3>1, ConcatIsText
    <2> DEFINE g == [i \in 0 .. k |-> IF i = k THEN f[k - 1] \o ts[k] ELSE f[i]]
    <2>6. g \in [0 .. k -> Text] /\ g[0] = << >>
      BY <1>1, <2>3, <2>4, <2>5
    <2>7. \A i \in 1 .. k : g[i] = g[i - 1] \o ts[i]
      BY <1>1, <2>3, <2>4
    <2> QED BY <2>3, <2>6, <2>7
  <1>4. Upto(L) # {}
    <2> HIDE DEF Upto
    <2>1. L \in 0 .. L /\ L \notin Bad
      <3>1. L \in 0 .. L
        BY <1>1
      <3> HIDE DEF Bad
      <3> QED BY <1>3, <3>1
    <2> QED BY <2>1
  <1> QED BY <1>4 DEF Parts, L

\* Bytes are the last part.
LEMMA BytesIs ==
  ASSUME NEW ts \in Seq(Text), NEW f \in Parts(ts)
  PROVE  Bytes(ts) = f[Len(ts)] /\ Bytes(ts) \in Text
  <1> DEFINE L == Len(ts)
             F(g) == [i \in 1 .. L |-> IF i = 1 THEN ts[i] ELSE g[i - 1] \o ts[i]]
             flat == CHOOSE g : g = F(g)
  <1>1. L \in Nat /\ (\A i \in 1 .. L : ts[i] \in Text) /\ << >> \in Text
    BY TokenIsText
  <1>2. f \in [0 .. L -> Text] /\ f[0] = << >> /\ \A i \in 1 .. L : f[i] = f[i - 1] \o ts[i]
    BY DEF Parts
  <1>3. L \in 0 .. L /\ f[L] \in Text
    BY <1>1, <1>2
  <1>4. CASE L = 0
    <2>1. ts = << >>
      BY <1>4, EmptySeq
    <2>2. Bytes(ts) = ts
      BY <1>4 DEF Bytes, FlattenSeq
    <2> QED BY <1>2, <1>3, <1>4, <2>1, <2>2
  <1>5. CASE L # 0
    <2> HIDE DEF L
    <2>1. 1 \in 1 .. L /\ f[1] = ts[1]
      <3>1. 1 \in 1 .. L /\ f[1] = f[0] \o ts[1]
        BY <1>1, <1>2, <1>5
      <3> QED BY <1>1, <1>2, <3>1, ConcatEmptySeq DEF Text
    <2> DEFINE h == [i \in 1 .. L |-> f[i]]
    <2>2. h = F(h)
      <3>1. \A i \in 1 .. L : h[i] = F(h)[i]
        <4> SUFFICES ASSUME NEW i \in 1 .. L PROVE h[i] = F(h)[i]
          OBVIOUS
        <4>1. CASE i = 1
          BY <2>1, <4>1
        <4>2. CASE i # 1
          <5>1. i - 1 \in 1 .. L
            BY <1>1, <4>2
          <5> QED BY <1>2, <4>2, <5>1
        <4> QED BY <4>1, <4>2
      <3> QED BY <3>1
    <2>3. flat = F(flat)
      <3> HIDE DEF F, h
      <3> QED BY <2>2
    <2>4. \A i \in 1 .. L : flat[i] = f[i]
      <3> DEFINE Bad == {k \in 1 .. L : flat[k] # f[k]}
      <3> HIDE DEF flat
      <3>1. \A i \in 1 .. L : flat[i] = IF i = 1 THEN ts[i] ELSE flat[i - 1] \o ts[i]
        BY <2>3
      <3>2. ASSUME Bad # {} PROVE FALSE
        <4> DEFINE k == Min(Bad)
        <4>1. Bad \in SUBSET Nat
          BY <1>1
        <4>2. k \in Bad /\ \A y \in Bad : k <= y
          <5> HIDE DEF Bad
          <5> QED BY <3>2, <4>1, LeastElement
        <4> HIDE DEF k
        <4>3. k \in 1 .. L /\ flat[k] # f[k] /\ k # 1
          BY <2>1, <3>1, <4>2
        <4>4. k - 1 \in 1 .. L /\ ~(k <= k - 1)
          BY <1>1, <4>3
        <4>5. flat[k - 1] = f[k - 1]
          BY <4>2, <4>4
        <4> QED BY <1>2, <3>1, <4>3, <4>5
      <3> QED BY <3>2
    <2>5. Bytes(ts) = flat[L]
      BY <1>5 DEF Bytes, FlattenSeq, L
    <2>6. L \in 1 .. L
      BY <1>1, <1>5
    <2> HIDE DEF flat
    <2> QED BY <1>3, <2>4, <2>5, <2>6 DEF L
  <1> QED BY <1>4, <1>5

LEMMA PartsEqual ==
  ASSUME NEW ts \in Seq(Text), NEW f \in Parts(ts), NEW g \in Parts(ts), NEW j \in 0 .. Len(ts)
  PROVE  f[j] = g[j]
  <1> DEFINE L == Len(ts)
             Bad == {k \in 0 .. L : f[k] # g[k]}
  <1>1. L \in Nat
    BY TokenIsText
  <1>2. f[0] = g[0] /\ \A i \in 1 .. L : f[i] = f[i - 1] \o ts[i] /\ g[i] = g[i - 1] \o ts[i]
    BY DEF Parts
  <1> HIDE DEF L
  <1>3. ASSUME Bad # {} PROVE FALSE
    <2>1. Bad \in SUBSET Nat
      BY <1>1
    <2> DEFINE k == Min(Bad)
    <2>2. k \in Bad /\ \A y \in Bad : k <= y
      <3> HIDE DEF Bad
      <3> QED BY <1>3, <2>1, LeastElement
    <2> HIDE DEF k
    <2>3. k \in 1 .. L /\ k - 1 \in 0 .. L /\ ~(k <= k - 1)
      BY <1>1, <1>2, <2>2
    <2>4. f[k - 1] = g[k - 1]
      BY <2>2, <2>3
    <2> QED BY <1>2, <2>2, <2>3, <2>4
  <1> QED BY <1>3 DEF L

LEMMA BytesType ==
  ASSUME NEW ts \in Seq(Text)
  PROVE  Bytes(ts) \in Text /\ Len(Bytes(ts)) \in Nat
  <1>1. PICK f \in Parts(ts) : TRUE
    BY PartsExist
  <1>2. Bytes(ts) \in Text
    BY BytesIs
  <1> QED BY <1>2, LenProperties DEF Text

LEMMA BytesOfNone == Bytes(<< >>) = << >>
  BY EmptySeq DEF Bytes, FlattenSeq

LEMMA BytesOfAppend ==
  ASSUME NEW ts \in Seq(Text), NEW t \in Text
  PROVE  Bytes(Append(ts, t)) = Bytes(ts) \o t
  <1> DEFINE L == Len(ts)
             us == Append(ts, t)
  <1>1. PICK f \in Parts(ts) : TRUE
    BY PartsExist
  <1>2. /\ L \in Nat
        /\ f \in [0 .. L -> Text] /\ f[0] = << >> /\ \A i \in 1 .. L : f[i] = f[i - 1] \o ts[i]
    BY TokenIsText DEF Parts
  <1>3. us \in Seq(Text) /\ Len(us) = L + 1 /\ (\A i \in 1 .. L : us[i] = ts[i]) /\ us[L + 1] = t
    BY AppendProperties
  <1> HIDE DEF us
  <1> DEFINE l == f[L]
             n == f[L] \o t
             g == [i \in 0 .. L + 1 |-> IF i = L + 1 THEN n ELSE f[i]]
  <1>4. Bytes(ts) = l
    BY BytesIs
  <1> HIDE DEF L
  <1>5. l \in Text /\ n \in Text
    <2>1. l \in Text
      BY <1>2
    <2> QED BY <2>1, ConcatIsText
  <1>6. g \in Parts(us)
    <2> HIDE DEF n
    <2>1. g \in [0 .. L + 1 -> Text]
      BY <1>2, <1>5
    <2>2. g[0] = << >>
      BY <1>2
    <2>3. \A i \in 1 .. L + 1 : g[i] = g[i - 1] \o us[i]
      <3> SUFFICES ASSUME NEW i \in 1 .. L + 1 PROVE g[i] = g[i - 1] \o us[i]
        OBVIOUS
      <3>1. CASE i = L + 1
        <4>1. i - 1 = L /\ L \in 0 .. L + 1 /\ L # L + 1
          BY <1>2, <3>1
        <4>2. g[i] = n /\ g[i - 1] = l
          BY <3>1, <4>1
        <4> QED BY <1>3, <3>1, <4>2 DEF n
      <3>2. CASE i # L + 1
        <4>1. /\ i \in 1 .. L /\ i \in 0 .. L + 1
              /\ i - 1 \in 0 .. L + 1 /\ i - 1 # L + 1
          BY <1>2, <3>2
        <4>2. g[i] = f[i] /\ g[i - 1] = f[i - 1]
          BY <3>2, <4>1
        <4> QED BY <1>2, <1>3, <4>1, <4>2
      <3> QED BY <3>1, <3>2
    <2> HIDE DEF g
    <2> QED BY <1>3, <2>1, <2>2, <2>3 DEF Parts
  <1>7. g[L + 1] = n
    BY <1>2
  <1>8. Bytes(us) = g[L + 1]
    <2> HIDE DEF g
    <2> QED BY <1>3, <1>6, BytesIs
  <1> QED BY <1>4, <1>7, <1>8 DEF us

LEMMA BytesOfOne ==
  ASSUME NEW t \in Text
  PROVE  Bytes(<< t >>) = t
  <1>1. << >> \in Seq(Text) /\ Append(<< >>, t) = << t >>
    BY EmptySeq
  <1>2. Bytes(<< t >>) = << >> \o t
    BY <1>1, BytesOfAppend, BytesOfNone
  <1> QED BY <1>2, ConcatEmptySeq DEF Text

\* The bytes of the first tokens are a part.
LEMMA BytesOfFirst ==
  ASSUME NEW ts \in Seq(Text), NEW f \in Parts(ts), NEW k \in 0 .. Len(ts)
  PROVE  SubSeq(ts, 1, k) \in Seq(Text) /\ Bytes(SubSeq(ts, 1, k)) = f[k]
  <1> DEFINE L == Len(ts)
             us == SubSeq(ts, 1, k)
             g == [i \in 0 .. k |-> f[i]]
  <1>1. /\ L \in Nat
        /\ f \in [0 .. L -> Text] /\ f[0] = << >> /\ \A i \in 1 .. L : f[i] = f[i - 1] \o ts[i]
    BY TokenIsText DEF Parts
  <1>2. us \in Seq(Text) /\ Len(us) = k /\ \A i \in 1 .. k : us[i] = ts[i]
    BY HeadOf
  <1>3. k \in 0 .. L
    OBVIOUS
  <1> HIDE DEF L, us
  <1>4. g \in [0 .. k -> Text] /\ g[0] = << >>
    BY <1>1, <1>3
  <1>5. \A i \in 1 .. k : g[i] = g[i - 1] \o us[i]
    <2> SUFFICES ASSUME NEW i \in 1 .. k PROVE g[i] = g[i - 1] \o us[i]
      OBVIOUS
    <2>1. i \in 1 .. L /\ i \in 0 .. k /\ i - 1 \in 0 .. k
      BY <1>1, <1>3
    <2>2. g[i] = f[i] /\ g[i - 1] = f[i - 1]
      BY <2>1
    <2> QED BY <1>1, <1>2, <2>1, <2>2
  <1>6. g[k] = f[k]
    BY <1>3
  <1> HIDE DEF g
  <1>7. g \in Parts(us)
    BY <1>2, <1>4, <1>5 DEF Parts
  <1>8. Bytes(us) = g[k]
    BY <1>2, <1>7, BytesIs
  <1> QED BY <1>2, <1>6, <1>8 DEF us

\* The bytes of the first tokens and those of the others.
LEMMA BytesOfHalves ==
  ASSUME NEW ts \in Seq(Text), NEW k \in 0 .. Len(ts)
  PROVE  /\ SubSeq(ts, 1, k) \in Seq(Text) /\ SubSeq(ts, k + 1, Len(ts)) \in Seq(Text)
         /\ Bytes(ts) = Bytes(SubSeq(ts, 1, k)) \o Bytes(SubSeq(ts, k + 1, Len(ts)))
  <1> DEFINE L == Len(ts)
             us == SubSeq(ts, k + 1, L)
             M == L - k
  <1>1. PICK f \in Parts(ts) : TRUE
    BY PartsExist
  <1>2. /\ L \in Nat /\ k \in 0 .. L /\ M \in 0 .. L /\ k + M = L
        /\ f \in [0 .. L -> Text] /\ f[0] = << >> /\ \A i \in 1 .. L : f[i] = f[i - 1] \o ts[i]
    <2>1. L \in Nat /\ k \in 0 .. L
      BY TokenIsText
    <2> HIDE DEF L
    <2>2. M \in 0 .. L /\ k + M = L
      BY <2>1
    <2> QED BY <2>1, <2>2 DEF Parts, L
  <1>3. us \in Seq(Text) /\ Len(us) = M /\ \A i \in 1 .. M : us[i] = ts[k + i]
    BY TailOf
  <1>4. PICK h \in Parts(us) : TRUE
    BY <1>3, PartsExist
  <1>5. /\ h \in [0 .. M -> Text] /\ h[0] = << >> /\ \A i \in 1 .. M : h[i] = h[i - 1] \o us[i]
    BY <1>3, <1>4 DEF Parts
  <1>6. Bytes(ts) = f[L] /\ Bytes(SubSeq(ts, 1, k)) = f[k] /\ SubSeq(ts, 1, k) \in Seq(Text)
    BY BytesIs, BytesOfFirst
  <1>7. Bytes(us) = h[M]
    BY <1>3, <1>4, BytesIs
  <1>8. (\A i \in 1 .. L : ts[i] \in Text) /\ (\A i \in 1 .. M : us[i] \in Text)
    BY <1>3, TokenIsText
  <1> HIDE DEF L, us, M
  <1>9. \A i \in 0 .. M : f[k + i] = f[k] \o h[i]
    <2> DEFINE Bad == {i \in 0 .. M : f[k + i] # f[k] \o h[i]}
    <2>1. Bad \in SUBSET Nat
      BY <1>2
    <2>2. 0 \notin Bad
      <3>1. f[k] \in Text
        BY <1>2
      <3>2. f[k] \o << >> = f[k]
        BY <3>1, ConcatEmptySeq DEF Text
      <3>3. k + 0 = k
        BY <1>2
      <3> QED BY <1>5, <3>2, <3>3
    <2>3. ASSUME Bad # {} PROVE FALSE
      <3> DEFINE i == Min(Bad)
      <3>1. i \in Bad /\ \A y \in Bad : i <= y
        <4> HIDE DEF Bad
        <4> QED BY <2>1, <2>3, LeastElement
      <3> HIDE DEF i
      <3>2. i \in 1 .. M /\ i - 1 \in 0 .. M /\ ~(i <= i - 1) /\ k + i \in 1 .. L
            /\ k + i - 1 = k + (i - 1)
        BY <1>2, <2>2, <3>1
      <3>3. f[k + (i - 1)] = f[k] \o h[i - 1]
        BY <3>1, <3>2
      <3>4. f[k + i] = f[k + (i - 1)] \o ts[k + i]
        BY <1>2, <3>2
      <3>5. h[i] = h[i - 1] \o ts[k + i]
        BY <1>3, <1>5, <3>2
      <3>6. f[k] \in Text /\ h[i - 1] \in Text /\ ts[k + i] \in Text
        BY <1>2, <1>5, <1>8, <3>2
      <3>7. (f[k] \o h[i - 1]) \o ts[k + i] = f[k] \o (h[i - 1] \o ts[k + i])
        BY <3>6, ConcatIsAssociative
      <3> QED BY <3>1, <3>3, <3>4, <3>5, <3>7
    <2> QED BY <2>3
  <1>10. M \in 0 .. M
    BY <1>2
  <1>11. f[L] = f[k] \o h[M]
    BY <1>2, <1>9, <1>10
  <1> QED BY <1>3, <1>6, <1>7, <1>11 DEF us, L

-----------------------------------------------------------------------------
(* Where a stop sequence is *)

LEMMA CutIs ==
  ASSUME NEW b \in Text, NEW n \in 0 .. Len(b)
  PROVE  Cut(b, n) \in Text /\ Len(Cut(b, n)) = n /\ \A k \in 1 .. n : Cut(b, n)[k] = b[k]
  BY HeadOf DEF Cut, Text

LEMMA TextsEqual ==
  ASSUME NEW a \in Text, NEW b \in Text, Len(a) = Len(b), \A k \in 1 .. Len(a) : a[k] = b[k]
  PROVE  a = b
  BY SeqEqual DEF Text

\* A cut of what a text was is a cut of what it becomes.
LEMMA CutOfLonger ==
  ASSUME NEW a \in Text, NEW b \in Text, NEW n \in 0 .. Len(a)
  PROVE  Cut(a \o b, n) = Cut(a, n) /\ n \in 0 .. Len(a \o b)
  <1>1. /\ a \o b \in Text /\ Len(a) \in Nat /\ Len(b) \in Nat /\ Len(a \o b) = Len(a) + Len(b)
        /\ \A i \in 1 .. Len(a) : (a \o b)[i] = a[i]
    BY ConcatIsText
  <1> DEFINE c == a \o b
             l == Len(a)
             m == Len(c)
  <1>2. n \in 0 .. m /\ n \in 0 .. l /\ \A k \in 1 .. n : k \in 1 .. l
    <2>1. n \in 0 .. l
      OBVIOUS
    <2>2. l \in Nat /\ m \in Nat /\ l <= m
      BY <1>1
    <2> HIDE DEF l, m
    <2> QED BY <2>1, <2>2
  <1>3. Cut(a, n) \in Text /\ Len(Cut(a, n)) = n /\ \A k \in 1 .. n : Cut(a, n)[k] = a[k]
    BY CutIs
  <1>4. Cut(c, n) \in Text /\ Len(Cut(c, n)) = n /\ \A k \in 1 .. n : Cut(c, n)[k] = c[k]
    BY <1>1, <1>2, CutIs
  <1>5. \A k \in 1 .. n : Cut(c, n)[k] = Cut(a, n)[k]
    <2> HIDE DEF c, l
    <2> QED BY <1>1, <1>2, <1>3, <1>4 DEF c, l
  <1>6. Cut(c, n) = Cut(a, n)
    <2> HIDE DEF c
    <2> QED BY <1>3, <1>4, <1>5, TextsEqual
  <1> QED BY <1>2, <1>6

LEMMA CutAll ==
  ASSUME NEW a \in Text
  PROVE  Cut(a, Len(a)) = a /\ Cut(a, 0) = << >>
  <1>1. Len(a) \in Nat
    BY LenProperties DEF Text
  <1>2. Cut(a, Len(a)) = a
    BY SubSeqFull DEF Cut, Text
  <1>3. Cut(a, 0) = << >>
    BY SubSeqEmpty DEF Cut
  <1> QED BY <1>2, <1>3

\* A cut further on, of a text in two parts, ends in the second.
LEMMA CutOfTwo ==
  ASSUME NEW a \in Text, NEW b \in Text, NEW n \in 0 .. Len(b)
  PROVE  Len(a) + n \in 0 .. Len(a \o b) /\ Cut(a \o b, Len(a) + n) = a \o Cut(b, n)
  <1> DEFINE c == a \o b
             l == Len(a)
             m == Len(b)
             d == Cut(b, n)
             e == a \o d
             g == Cut(c, l + n)
  <1>1. /\ c \in Text /\ l \in Nat /\ m \in Nat /\ Len(c) = l + m /\ n \in 0 .. m
        /\ (\A i \in 1 .. l : c[i] = a[i]) /\ \A i \in 1 .. m : c[l + i] = b[i]
    BY ConcatIsText
  <1>2. d \in Text /\ Len(d) = n /\ \A k \in 1 .. n : d[k] = b[k]
    BY CutIs
  <1>3. /\ e \in Text /\ Len(e) = l + n
        /\ (\A i \in 1 .. l : e[i] = a[i]) /\ \A i \in 1 .. n : e[l + i] = d[i]
    <2> HIDE DEF d
    <2> QED BY <1>2, ConcatIsText
  <1>4. l + n \in 0 .. Len(c)
    <2> HIDE DEF l, c, m
    <2> QED BY <1>1
  <1>5. g \in Text /\ Len(g) = l + n /\ \A k \in 1 .. l + n : g[k] = c[k]
    <2> HIDE DEF c, l
    <2> QED BY <1>1, <1>4, CutIs
  <1> HIDE DEF c, d, e, g, l, m
  <1>6. \A k \in 1 .. l + n : g[k] = e[k]
    <2> SUFFICES ASSUME NEW k \in 1 .. l + n PROVE g[k] = e[k]
      OBVIOUS
    <2>1. CASE k <= l
      BY <1>1, <1>3, <1>5, <2>1
    <2>2. CASE ~(k <= l)
      <3>1. k - l \in 1 .. n /\ k - l \in 1 .. m /\ l + (k - l) = k
        BY <1>1, <2>2
      <3>2. c[l + (k - l)] = b[k - l] /\ e[l + (k - l)] = d[k - l] /\ d[k - l] = b[k - l]
        BY <1>1, <1>2, <1>3, <3>1
      <3> QED BY <1>5, <3>1, <3>2
    <2> QED BY <2>1, <2>2
  <1>7. g = e
    BY <1>3, <1>5, <1>6, TextsEqual
  <1> QED BY <1>4, <1>7 DEF c, d, e, g, l

LEMMA OccurrencesAre ==
  ASSUME NEW s \in Text, NEW t \in Text
  PROVE  /\ Occurrences(s, t) \in SUBSET (0 .. Len(t))
         /\ \A p \in Nat : p \in Occurrences(s, t)
              <=> p + Len(s) <= Len(t) /\ \A k \in 1 .. Len(s) : t[p + k] = s[k]
  <1> DEFINE l == Len(s)
             n == Len(t)
  <1>1. l \in Nat /\ n \in Nat
    BY LenProperties DEF Text
  <1>2. Occurrences(s, t) = {p \in 0 .. n - l : SubSeq(t, p + 1, p + l) = s}
    BY DEF Occurrences
  <1>3. ASSUME NEW p \in Nat, p + l <= n
        PROVE  SubSeq(t, p + 1, p + l) = s <=> \A k \in 1 .. l : t[p + k] = s[k]
    <2> DEFINE u == SubSeq(t, p + 1, p + l)
    <2>1. /\ p + 1 \in Nat \ {0} /\ p + l \in Nat /\ p + 1 <= p + l + 1 /\ p + l <= Len(t)
          /\ p + l - (p + 1) + 1 = l
      <3> HIDE DEF l
      <3>1. p + l <= Len(t)
        BY <1>3 DEF n
      <3> QED BY <1>1, <3>1
    <2>2. u \in Text /\ Len(u) = l /\ \A k \in 1 .. l : u[k] = t[p + 1 + k - 1]
      <3> DEFINE i == p + 1
                 j == p + l
      <3>1. i \in Nat \ {0} /\ j \in Nat /\ i <= j + 1 /\ j <= Len(t) /\ j - i + 1 = l
        BY <2>1
      <3> HIDE DEF i, j, l
      <3>2. /\ SubSeq(t, i, j) \in Seq(STRING) /\ Len(SubSeq(t, i, j)) = j - i + 1
            /\ \A k \in 1 .. j - i + 1 : SubSeq(t, i, j)[k] = t[i + k - 1]
        BY <3>1, SubSeqOf DEF Text
      <3> QED BY <3>1, <3>2 DEF Text, i, j
    <2> HIDE DEF u
    <2>3. \A k \in 1 .. l : u[k] = t[p + k]
      <3> HIDE DEF l
      <3> SUFFICES ASSUME NEW k \in 1 .. l PROVE u[k] = t[p + k]
        OBVIOUS
      <3>1. p + 1 + k - 1 = p + k
        BY <1>1
      <3> QED BY <2>2, <3>1
    <2>4. ASSUME \A k \in 1 .. l : t[p + k] = s[k] PROVE u = s
      <3>1. \A k \in 1 .. Len(u) : u[k] = s[k]
        BY <2>2, <2>3, <2>4
      <3> QED BY <2>2, <3>1, TextsEqual
    <2>5. ASSUME u = s PROVE \A k \in 1 .. l : t[p + k] = s[k]
      BY <2>3, <2>5
    <2> QED BY <2>4, <2>5 DEF u
  <1> HIDE DEF l, n
  <1>4. Occurrences(s, t) \in SUBSET (0 .. n)
    BY <1>1, <1>2
  <1>5. \A p \in Nat : p \in Occurrences(s, t) <=> p + l <= n /\ \A k \in 1 .. l : t[p + k] = s[k]
    <2> SUFFICES ASSUME NEW p \in Nat
                 PROVE  p \in Occurrences(s, t) <=> p + l <= n /\ \A k \in 1 .. l : t[p + k] = s[k]
      OBVIOUS
    <2>1. p \in 0 .. n - l <=> p + l <= n
      BY <1>1
    <2> QED BY <1>2, <1>3, <2>1
  <1> QED BY <1>4, <1>5 DEF l, n

LEMMA SuffixIs ==
  ASSUME NEW s \in Text, NEW t \in Text, Len(s) <= Len(t),
         \A k \in 1 .. Len(s) : t[Len(t) - Len(s) + k] = s[k]
  PROVE  IsSuffix(s, t)
  <1> DEFINE l == Len(s)
             n == Len(t)
             rs == [i \in 1 .. l |-> s[l - i + 1]]
             rt == [i \in 1 .. n |-> t[n - i + 1]]
  <1>1. l \in Nat /\ n \in Nat /\ s \in [1 .. l -> STRING] /\ t \in [1 .. n -> STRING] /\ l <= n
    BY LenProperties DEF Text
  <1>2. Reverse(s) = rs /\ Reverse(t) = rt
    BY DEF Reverse
  <1>3. \A k \in 1 .. l : t[n - l + k] = s[k]
    OBVIOUS
  <1> HIDE DEF l, n
  <1>4. rs \in Text /\ Len(rs) = l /\ rt \in Text /\ Len(rt) = n
    <2>1. \A i \in 1 .. l : s[l - i + 1] \in STRING
      BY <1>1
    <2>2. \A i \in 1 .. n : t[n - i + 1] \in STRING
      BY <1>1
    <2>3. rs \in [1 .. l -> STRING] /\ rt \in [1 .. n -> STRING]
      BY <2>1, <2>2
    <2> HIDE DEF rs, rt
    <2> QED BY <1>1, <2>3 DEF Text
  <1>5. \A i \in 1 .. l : rs[i] = rt[i]
    <2> SUFFICES ASSUME NEW i \in 1 .. l PROVE rs[i] = rt[i]
      OBVIOUS
    <2>1. l - i + 1 \in 1 .. l /\ n - l + (l - i + 1) = n - i + 1 /\ i \in 1 .. n
      BY <1>1
    <2>2. t[n - i + 1] = s[l - i + 1]
      BY <1>3, <2>1
    <2> QED BY <2>1, <2>2
  <1> HIDE DEF rs, rt
  <1>6. SubSeq(rs, 1, l) = SubSeq(rt, 1, l)
    <2>1. l \in 0 .. Len(rs) /\ l \in 0 .. Len(rt)
      BY <1>1, <1>4
    <2>2. Cut(rs, l) \in Text /\ Len(Cut(rs, l)) = l /\ \A k \in 1 .. l : Cut(rs, l)[k] = rs[k]
      BY <1>4, <2>1, CutIs
    <2>3. Cut(rt, l) \in Text /\ Len(Cut(rt, l)) = l /\ \A k \in 1 .. l : Cut(rt, l)[k] = rt[k]
      BY <1>4, <2>1, CutIs
    <2>4. \A k \in 1 .. l : Cut(rs, l)[k] = Cut(rt, l)[k]
      BY <1>5, <2>2, <2>3
    <2>5. Cut(rs, l) = Cut(rt, l)
      BY <2>2, <2>3, <2>4, TextsEqual
    <2> QED BY <2>5 DEF Cut
  <1> QED BY <1>1, <1>2, <1>4, <1>6 DEF IsSuffix, IsPrefix

LEMMA SuffixMeans ==
  ASSUME NEW s \in Text, NEW t \in Text, IsSuffix(s, t)
  PROVE  Len(s) <= Len(t) /\ \A k \in 1 .. Len(s) : t[Len(t) - Len(s) + k] = s[k]
  <1> DEFINE l == Len(s)
             n == Len(t)
             rs == [i \in 1 .. l |-> s[l - i + 1]]
             rt == [i \in 1 .. n |-> t[n - i + 1]]
  <1>1. l \in Nat /\ n \in Nat /\ s \in [1 .. l -> STRING] /\ t \in [1 .. n -> STRING]
    BY LenProperties DEF Text
  <1>2. Reverse(s) = rs /\ Reverse(t) = rt
    BY DEF Reverse
  <1> HIDE DEF l, n
  <1>3. rs \in Text /\ Len(rs) = l /\ rt \in Text /\ Len(rt) = n
    <2>1. \A i \in 1 .. l : s[l - i + 1] \in STRING
      BY <1>1
    <2>2. \A i \in 1 .. n : t[n - i + 1] \in STRING
      BY <1>1
    <2>3. rs \in [1 .. l -> STRING] /\ rt \in [1 .. n -> STRING]
      BY <2>1, <2>2
    <2> HIDE DEF rs, rt
    <2> QED BY <1>1, <2>3 DEF Text
  <1>4. \A i \in 1 .. l : rs[i] = s[l - i + 1]
    OBVIOUS
  <1>5. \A i \in 1 .. n : rt[i] = t[n - i + 1]
    OBVIOUS
  <1> HIDE DEF rs, rt
  <1>6. Len(rs) <= Len(rt) /\ Cut(rs, Len(rs)) = Cut(rt, Len(rs))
    BY <1>2 DEF IsSuffix, IsPrefix, Cut
  <1>7. l <= n /\ l \in 0 .. Len(rs) /\ l \in 0 .. Len(rt)
    BY <1>1, <1>3, <1>6
  <1>8. \A k \in 1 .. l : rs[k] = rt[k]
    <2>1. \A k \in 1 .. l : Cut(rs, l)[k] = rs[k]
      BY <1>3, <1>7, CutIs
    <2>2. \A k \in 1 .. l : Cut(rt, l)[k] = rt[k]
      BY <1>3, <1>7, CutIs
    <2> QED BY <1>3, <1>6, <2>1, <2>2
  <1>9. ASSUME NEW k \in 1 .. l PROVE t[n - l + k] = s[k]
    <2>1. l - k + 1 \in 1 .. l /\ l - k + 1 \in 1 .. n /\ l - (l - k + 1) + 1 = k
          /\ n - (l - k + 1) + 1 = n - l + k
      BY <1>1, <1>7
    <2> QED BY <1>4, <1>5, <1>8, <2>1
  <1> QED BY <1>7, <1>9 DEF l, n

-----------------------------------------------------------------------------
(* Characters *)

LEMMA WidthIs ==
  ASSUME NEW c
  PROVE  Width(c) \in {1, 2, 3, 4} /\ (c = "C" => Width(c) = 1)
  BY DEF Width

LEMMA TextIs ==
  ASSUME NEW t \in Text
  PROVE  Len(t) \in Nat /\ DOMAIN t = 1 .. Len(t) /\ \A i \in 1 .. Len(t) : t[i] \in STRING
  BY LenProperties DEF Text

\* What a text in characters is.
LEMMA DecodableIs ==
  ASSUME NEW t \in Text
  PROVE  Decodable(t) <=> \A i \in 1 .. Len(t) : InCharacter(t, i)
  BY TextIs DEF Decodable

LEMMA NothingIsDecodable == Decodable(<< >>)
  BY EmptySeq DEF Decodable

\* A character stays one when its bytes stay.
LEMMA CharacterMoves ==
  ASSUME NEW t \in Text, NEW u \in Text, NEW d \in Int, NEW j \in 1 .. Len(t), Starts(t, j),
         \A x \in j .. j + Width(t[j]) - 1 : x + d \in 1 .. Len(u) /\ u[x + d] = t[x]
  PROVE  Starts(u, j + d) /\ Width(u[j + d]) = Width(t[j])
  <1> DEFINE w == Width(t[j])
             n == Len(u)
  <1>1. w \in {1, 2, 3, 4} /\ n \in Nat /\ Len(t) \in Nat
    BY WidthIs, TextIs
  <1>2. t[j] # "C" /\ \A x \in j + 1 .. j + w - 1 : t[x] = "C"
    BY DEF Starts
  <1>3. \A x \in j .. j + w - 1 : x + d \in 1 .. n /\ u[x + d] = t[x]
    OBVIOUS
  <1> HIDE DEF w, n
  <1>4. j \in j .. j + w - 1 /\ j + w - 1 \in j .. j + w - 1
    BY <1>1
  <1>5. u[j + d] = t[j]
    BY <1>3, <1>4
  <1>6. j + d + w - 1 <= n
    <2>1. j + w - 1 + d \in 1 .. n
      BY <1>3, <1>4
    <2> QED BY <1>1, <2>1
  <1>7. \A y \in j + d + 1 .. j + d + w - 1 : u[y] = "C"
    <2> SUFFICES ASSUME NEW y \in j + d + 1 .. j + d + w - 1 PROVE u[y] = "C"
      OBVIOUS
    <2>1. y - d \in j + 1 .. j + w - 1 /\ y - d \in j .. j + w - 1 /\ y - d + d = y
      BY <1>1
    <2> QED BY <1>2, <1>3, <2>1
  <1> QED BY <1>2, <1>5, <1>6, <1>7 DEF Starts, w, n

\* Characters behind characters are characters.
LEMMA ConcatIsDecodable ==
  ASSUME NEW a \in Text, NEW b \in Text, Decodable(a), Decodable(b)
  PROVE  Decodable(a \o b)
  <1> DEFINE c == a \o b
             m == Len(a)
             n == Len(b)
  <1>1. /\ c \in Text /\ m \in Nat /\ n \in Nat /\ Len(c) = m + n
        /\ (\A i \in 1 .. m : c[i] = a[i]) /\ \A i \in 1 .. n : c[m + i] = b[i]
    BY ConcatIsText
  <1>2. (\A i \in 1 .. m : InCharacter(a, i)) /\ \A i \in 1 .. n : InCharacter(b, i)
    BY DecodableIs
  <1> HIDE DEF c
  <1>3. ASSUME NEW i \in 1 .. m PROVE InCharacter(c, i)
    <2>1. PICK j \in 1 .. i : Starts(a, j) /\ i < j + Width(a[j])
      BY <1>2, <1>3 DEF InCharacter
    <2> DEFINE w == Width(a[j])
    <2>2. w \in {1, 2, 3, 4} /\ j + w - 1 <= m
      BY <2>1, WidthIs DEF Starts
    <2>3. \A x \in j .. j + w - 1 : x + 0 \in 1 .. m /\ x + 0 \in 1 .. Len(c) /\ x + 0 = x
      <3> HIDE DEF w, m, n
      <3> QED BY <1>1, <1>3, <2>1, <2>2
    <2>4. j \in 1 .. Len(a) /\ j + 0 = j
      <3> HIDE DEF m
      <3> QED BY <1>1, <1>3, <2>1 DEF m
    <2>5. \A x \in j .. j + w - 1 : x + 0 \in 1 .. Len(c) /\ c[x + 0] = a[x]
      <3> HIDE DEF w, m
      <3> QED BY <1>1, <2>3
    <2>6. Starts(c, j + 0) /\ Width(c[j + 0]) = w
      <3>1. 0 \in Int
        OBVIOUS
      <3>2. c \in Text
        BY <1>1
      <3> QED BY <2>1, <2>4, <2>5, <3>1, <3>2, CharacterMoves
    <2>7. Starts(c, j) /\ i < j + Width(c[j])
      BY <2>1, <2>4, <2>6
    <2> QED BY <2>7 DEF InCharacter
  <1>4. ASSUME NEW i \in 1 .. n PROVE InCharacter(c, m + i)
    <2>1. PICK j \in 1 .. i : Starts(b, j) /\ i < j + Width(b[j])
      BY <1>2, <1>4 DEF InCharacter
    <2> DEFINE w == Width(b[j])
    <2>2. w \in {1, 2, 3, 4} /\ j + w - 1 <= n
      BY <2>1, WidthIs DEF Starts
    <2>3. \A x \in j .. j + w - 1 : x \in 1 .. n /\ x + m \in 1 .. Len(c) /\ x + m = m + x
      <3> HIDE DEF w, m, n
      <3> QED BY <1>1, <1>4, <2>1, <2>2
    <2>4. j \in 1 .. Len(b) /\ j + m \in 1 .. m + i /\ m \in Int
      <3> HIDE DEF n, m
      <3> QED BY <1>1, <1>4, <2>1 DEF n
    <2>5. \A x \in j .. j + w - 1 : x + m \in 1 .. Len(c) /\ c[x + m] = b[x]
      <3> HIDE DEF w, m, n
      <3> QED BY <1>1, <2>3
    <2>6. Starts(c, j + m) /\ Width(c[j + m]) = w
      <3> HIDE DEF m
      <3> QED BY <1>1, <2>1, <2>4, <2>5, CharacterMoves
    <2>7. m + i < j + m + Width(c[j + m])
      <3> HIDE DEF w, m
      <3>1. i < j + w
        BY <2>1 DEF w
      <3> QED BY <1>1, <1>4, <2>1, <2>2, <2>6, <3>1
    <2> QED BY <2>4, <2>6, <2>7 DEF InCharacter
  <1>5. \A i \in 1 .. m + n : InCharacter(c, i)
    <2> SUFFICES ASSUME NEW i \in 1 .. m + n PROVE InCharacter(c, i)
      OBVIOUS
    <2>1. CASE i <= m
      <3>1. i \in 1 .. m
        <4> HIDE DEF m, n
        <4> QED BY <1>1, <2>1
      <3> QED BY <1>3, <3>1
    <2>2. CASE ~(i <= m)
      <3>1. i - m \in 1 .. n /\ m + (i - m) = i
        <4> HIDE DEF m, n
        <4> QED BY <1>1, <2>2
      <3>2. InCharacter(c, m + (i - m))
        <4> HIDE DEF m, n
        <4> QED BY <1>4, <3>1
      <3> QED BY <3>1, <3>2
    <2> QED BY <2>1, <2>2
  <1> QED BY <1>1, <1>5, DecodableIs DEF c

\* In a decodable text every byte that does not continue a character starts one.
LEMMA CharactersStart ==
  ASSUME NEW t \in Text, Decodable(t), NEW i \in 1 .. Len(t), t[i] # "C"
  PROVE  Starts(t, i) /\ i + Width(t[i]) - 1 <= Len(t)
  <1>1. PICK j \in 1 .. i : Starts(t, j) /\ i < j + Width(t[j])
    BY DecodableIs DEF InCharacter
  <1>2. \A x \in j + 1 .. j + Width(t[j]) - 1 : t[x] = "C"
    BY <1>1 DEF Starts
  <1>3. Len(t) \in Nat /\ Width(t[j]) \in {1, 2, 3, 4}
    BY TextIs, WidthIs
  <1>4. j = i
    <2> DEFINE w == Width(t[j])
    <2>1. w \in {1, 2, 3, 4} /\ i < j + w /\ \A x \in j + 1 .. j + w - 1 : t[x] = "C"
      BY <1>1, <1>2, <1>3
    <2> HIDE DEF w
    <2> QED BY <1>1, <1>3, <2>1
  <1> QED BY <1>1, <1>4 DEF Starts

\* A decodable text cut in front of such a byte is decodable.
LEMMA CutIsDecodable ==
  ASSUME NEW t \in Text, Decodable(t), NEW n \in 0 .. Len(t), n < Len(t) => t[n + 1] # "C"
  PROVE  Decodable(Cut(t, n))
  <1> DEFINE u == Cut(t, n)
             l == Len(t)
  <1>1. u \in Text /\ Len(u) = n /\ (\A k \in 1 .. n : u[k] = t[k]) /\ l \in Nat /\ n \in 0 .. l
    BY CutIs, TextIs
  <1> HIDE DEF u
  <1>2. ASSUME NEW i \in 1 .. n PROVE InCharacter(u, i)
    <2>1. i \in 1 .. l
      <3> HIDE DEF l
      <3> QED BY <1>1, <1>2
    <2>2. PICK j \in 1 .. i : Starts(t, j) /\ i < j + Width(t[j])
      BY <2>1, DecodableIs DEF InCharacter
    <2> DEFINE w == Width(t[j])
    <2>3. /\ w \in {1, 2, 3, 4} /\ j + w - 1 <= l /\ i < j + w
          /\ \A x \in j + 1 .. j + w - 1 : t[x] = "C"
      BY <2>2, WidthIs DEF Starts
    <2>4. n < l => t[n + 1] # "C"
      OBVIOUS
    <2> HIDE DEF w, l
    <2>5. j + w - 1 <= n
      <3> SUFFICES ASSUME n < j + w - 1 PROVE FALSE
        BY <1>1, <2>3
      <3>1. n < l /\ n + 1 \in j + 1 .. j + w - 1
        BY <1>1, <1>2, <2>2, <2>3
      <3> QED BY <2>3, <2>4, <3>1
    <2>6. \A x \in j .. j + w - 1 : x \in 1 .. n /\ x + 0 = x
      BY <1>1, <1>2, <2>2, <2>3, <2>5
    <2>7. \A x \in j .. j + w - 1 : x + 0 \in 1 .. Len(u) /\ u[x + 0] = t[x]
      BY <1>1, <2>6
    <2>8. j \in 1 .. l /\ j + 0 = j /\ 0 \in Int
      BY <1>1, <1>2, <2>2
    <2>9. Starts(u, j + 0) /\ Width(u[j + 0]) = w
      BY <1>1, <2>2, <2>7, <2>8, CharacterMoves DEF w, l
    <2>10. Starts(u, j) /\ i < j + Width(u[j])
      BY <2>3, <2>8, <2>9
    <2> QED BY <2>10 DEF InCharacter
  <1> QED BY <1>1, <1>2, DecodableIs DEF u

-----------------------------------------------------------------------------
(* Decoding: the bytes of characters, in their order *)

\* Which of the members of K i is.
Rank(K, i) == Cardinality({j \in K : j <= i})

LEMMA RankType ==
  ASSUME NEW n \in Nat, NEW K \in SUBSET (1 .. n), NEW T \in SUBSET K
  PROVE  /\ IsFiniteSet(K) /\ Cardinality(K) \in 0 .. n
         /\ IsFiniteSet(T) /\ Cardinality(T) \in 0 .. Cardinality(K)
  <1>1. IsFiniteSet(1 .. n) /\ Cardinality(1 .. n) = n
    <2>1. IsFiniteSet(1 .. n) /\ Cardinality(1 .. n) = IF 1 > n THEN 0 ELSE n - 1 + 1
      BY FS_Interval
    <2> QED BY <2>1
  <1>2. IsFiniteSet(K) /\ Cardinality(K) <= n
    BY <1>1, FS_Subset
  <1>3. IsFiniteSet(T) /\ Cardinality(T) <= Cardinality(K)
    BY <1>2, FS_Subset
  <1>4. Cardinality(K) \in Nat /\ Cardinality(T) \in Nat
    BY <1>2, <1>3, FS_CardinalityType
  <1> QED BY <1>2, <1>3, <1>4

LEMMA RankIs ==
  ASSUME NEW n \in Nat, NEW K \in SUBSET (1 .. n), NEW i \in K
  PROVE  /\ Rank(K, i) \in 1 .. Cardinality(K)
         /\ Rank(K, i) = Cardinality({j \in K : j < i}) + 1
  <1> DEFINE T == {j \in K : j < i}
             U == {j \in K : j <= i}
  <1>1. T \in SUBSET K /\ U \in SUBSET K
    OBVIOUS
  <1>2. U = T \cup {i} /\ i \notin T
    <2>1. \A j \in K : j \in 1 .. n
      OBVIOUS
    <2>2. \A j \in K : (j <= i <=> j < i \/ j = i) /\ ~(i < i)
      BY <2>1
    <2>3. ASSUME NEW j PROVE j \in U <=> j \in T \cup {i}
      BY <2>2
    <2>4. i \notin T
      BY <2>2
    <2> HIDE DEF T, U
    <2> QED BY <2>3, <2>4
  <1> HIDE DEF T, U
  <1>3. IsFiniteSet(T) /\ Cardinality(T) \in Nat
    BY <1>1, RankType
  <1>4. Cardinality(U) = Cardinality(T) + 1
    BY <1>2, <1>3, FS_AddElement
  <1>5. Cardinality(U) \in 0 .. Cardinality(K)
    BY <1>1, RankType
  <1>6. Cardinality(K) \in 0 .. n
    BY RankType
  <1> QED BY <1>3, <1>4, <1>5, <1>6 DEF Rank, T, U

LEMMA RankGrows ==
  ASSUME NEW n \in Nat, NEW K \in SUBSET (1 .. n), NEW i \in K, NEW j \in K, i < j
  PROVE  /\ Rank(K, i) < Rank(K, j)
         /\ j = i + 1 => Rank(K, j) = Rank(K, i) + 1
  <1> DEFINE T == {k \in K : k < j}
             U == {k \in K : k <= i}
  <1>1. T \in SUBSET K /\ U \in SUBSET K
    OBVIOUS
  <1>2. \A k \in K : k \in 1 .. n
    OBVIOUS
  <1>3. U \subseteq T /\ (j = i + 1 => U = T)
    <2>1. \A k \in K : k <= i => k < j
      BY <1>2
    <2>2. j = i + 1 => \A k \in K : k < j => k <= i
      BY <1>2
    <2>3. \A k : k \in U => k \in T
      BY <2>1
    <2>4. j = i + 1 => \A k : k \in T => k \in U
      BY <2>2
    <2> HIDE DEF T, U
    <2> QED BY <2>3, <2>4
  <1>4. Rank(K, j) = Cardinality(T) + 1 /\ Rank(K, i) = Cardinality(U)
    BY RankIs DEF Rank
  <1> HIDE DEF T, U
  <1>5. IsFiniteSet(T) /\ IsFiniteSet(U) /\ Cardinality(T) \in 0 .. Cardinality(K) /\ Cardinality(U) \in 0 .. Cardinality(K)
    BY <1>1, RankType
  <1>6. Cardinality(U) <= Cardinality(T)
    BY <1>3, <1>5, FS_Subset
  <1>7. Cardinality(K) \in 0 .. n
    BY RankType
  <1> QED BY <1>3, <1>4, <1>5, <1>6, <1>7

LEMMA RankIsOnto ==
  ASSUME NEW n \in Nat, NEW K \in SUBSET (1 .. n), NEW k \in 1 .. Cardinality(K)
  PROVE  \E i \in K : Rank(K, i) = k
  <1> DEFINE F == {i \in K : Rank(K, i) <= k - 1}
             G == K \ F
  <1>1. IsFiniteSet(K) /\ Cardinality(K) \in 0 .. n
    BY RankType
  <1>2. F \in SUBSET K /\ IsFiniteSet(F) /\ Cardinality(F) <= k - 1
    <2>1. F = {i \in K : Cardinality({j \in K : j <= i}) <= k - 1}
      BY DEF Rank
    <2>2. k - 1 \in Nat
      BY <1>1
    <2> HIDE DEF F
    <2>3. IsFiniteSet(F) /\ Cardinality(F) <= k - 1
      BY <2>1, <2>2, FewAtFront
    <2> QED BY <2>1, <2>3
  <1>3. G # {}
    <2>1. Cardinality(F) # Cardinality(K)
      <3> HIDE DEF F
      <3>1. Cardinality(F) \in Nat
        BY <1>2, FS_CardinalityType
      <3> QED BY <1>1, <1>2, <3>1
    <2> HIDE DEF F
    <2>2. F # K
      BY <2>1
    <2>3. \E i \in K : i \notin F
      BY <1>2, <2>2
    <2> QED BY <2>3
  <1>4. \A i \in K : i \in 1 .. n
    OBVIOUS
  <1> DEFINE e == Min(G)
  <1>5. e \in G /\ \A y \in G : e <= y
    <2>1. G \in SUBSET Nat
      <3> HIDE DEF F
      <3>1. \A y \in K : y \in Nat
        BY <1>4
      <3> QED BY <3>1
    <2> HIDE DEF G
    <2> QED BY <1>3, <2>1, LeastElement
  <1> HIDE DEF e
  <1> DEFINE T == {j \in K : j < e}
  <1>6. e \in K /\ ~(Rank(K, e) <= k - 1)
    BY <1>5
  <1>7. T \subseteq F /\ T \in SUBSET K
    <2> HIDE DEF F
    <2>1. \A j \in K : j < e => ~(e <= j)
      BY <1>4, <1>6
    <2>2. \A j \in K : j \notin F => e <= j
      BY <1>5
    <2>3. \A j \in K : j < e => j \in F
      BY <2>1, <2>2
    <2> QED BY <2>3
  <1>8. Cardinality(T) <= k - 1 /\ Cardinality(T) \in Nat
    <2> HIDE DEF F, T
    <2>1. Cardinality(T) <= Cardinality(F) /\ IsFiniteSet(T)
      BY <1>2, <1>7, FS_Subset
    <2>2. Cardinality(F) \in Nat /\ Cardinality(T) \in Nat
      BY <1>2, <2>1, FS_CardinalityType
    <2> QED BY <1>1, <1>2, <2>1, <2>2
  <1>9. Rank(K, e) = Cardinality(T) + 1
    BY <1>6, RankIs
  <1>10. Rank(K, e) = k
    <2> HIDE DEF T, F
    <2> QED BY <1>1, <1>6, <1>8, <1>9
  <1> QED BY <1>6, <1>10

\* The bytes that are kept, and where they come from.
Kept(t) == {i \in DOMAIN t : InCharacter(t, i)}

Origin(t, k) == CHOOSE i \in Kept(t) : Rank(Kept(t), i) = k

LEMMA DecodedIs ==
  ASSUME NEW t \in Text
  PROVE  /\ Kept(t) \in SUBSET (1 .. Len(t)) /\ Cardinality(Kept(t)) \in 0 .. Len(t)
         /\ Decoded(t) \in Text /\ Len(Decoded(t)) = Cardinality(Kept(t))
         /\ \A k \in 1 .. Cardinality(Kept(t)) :
              /\ Origin(t, k) \in Kept(t) /\ Rank(Kept(t), Origin(t, k)) = k
              /\ Decoded(t)[k] = t[Origin(t, k)]
  <1> DEFINE K == Kept(t)
             n == Cardinality(K)
             o(k) == Origin(t, k)
  <1>1. Len(t) \in Nat /\ K \in SUBSET (1 .. Len(t)) /\ \A i \in 1 .. Len(t) : t[i] \in STRING
    BY TextIs DEF Kept
  <1>2. n \in 0 .. Len(t)
    <2> HIDE DEF K
    <2> QED BY <1>1, RankType
  <1>3. \A k \in 1 .. n : o(k) \in K /\ Rank(K, o(k)) = k
    <2> SUFFICES ASSUME NEW k \in 1 .. n PROVE o(k) \in K /\ Rank(K, o(k)) = k
      OBVIOUS
    <2>1. \E i \in K : Rank(K, i) = k
      <3> HIDE DEF K
      <3> QED BY <1>1, RankIsOnto
    <2>2. o(k) = CHOOSE i \in K : Rank(K, i) = k
      BY DEF Origin
    <2> HIDE DEF K, o
    <2> QED BY <2>1, <2>2
  <1>4. Decoded(t) = [k \in 1 .. n |-> t[o(k)]]
    BY DEF Decoded, Kept, Origin, Rank
  <1> HIDE DEF K, n, o
  <1>5. \A k \in 1 .. n : t[o(k)] \in STRING
    BY <1>1, <1>3
  <1>6. Decoded(t) \in [1 .. n -> STRING] /\ \A k \in 1 .. n : Decoded(t)[k] = t[o(k)]
    BY <1>4, <1>5
  <1>7. n \in Nat
    BY <1>1, <1>2
  <1>8. Decoded(t) \in Seq(STRING) /\ Len(Decoded(t)) = n
    BY <1>6, <1>7
  <1> QED BY <1>1, <1>2, <1>3, <1>6, <1>8 DEF K, n, o, Text

\* What is decoded is characters, whatever the bytes.
LEMMA DecodedIsDecodable ==
  ASSUME NEW t \in Text
  PROVE  /\ Decoded(t) \in Text /\ Len(Decoded(t)) \in Nat /\ Len(Decoded(t)) <= Len(t)
         /\ Decodable(Decoded(t))
  <1> DEFINE K == Kept(t)
             n == Cardinality(K)
             o(k) == Origin(t, k)
             u == Decoded(t)
             l == Len(t)
  <1>1. /\ l \in Nat /\ K \in SUBSET (1 .. l) /\ n \in 0 .. l /\ u \in Text /\ Len(u) = n
        /\ \A k \in 1 .. n : o(k) \in K /\ Rank(K, o(k)) = k /\ u[k] = t[o(k)]
    BY DecodedIs, TextIs
  <1>2. \A i \in K : i \in 1 .. l /\ InCharacter(t, i)
    BY <1>1 DEF Kept
  <1>3. \A i \in 1 .. l : InCharacter(t, i) => i \in K
    BY TextIs DEF Kept
  <1> HIDE DEF K, n, o, u, l
  \* Where a byte comes from is where it is put.
  <1>4. ASSUME NEW i \in K PROVE Rank(K, i) \in 1 .. n /\ u[Rank(K, i)] = t[i]
    <2>1. Rank(K, i) \in 1 .. n
      BY <1>1, RankIs DEF n
    <2> DEFINE e == o(Rank(K, i))
    <2>2. e \in K /\ Rank(K, e) = Rank(K, i) /\ u[Rank(K, i)] = t[e]
      BY <1>1, <2>1
    <2> HIDE DEF e
    <2>3. e \in 1 .. l /\ i \in 1 .. l /\ Rank(K, e) \in Int
      BY <1>1, <1>2, <2>1, <2>2
    <2>4. ~(e < i)
      <3>1. e < i => Rank(K, e) < Rank(K, i)
        BY <1>1, <2>2, RankGrows
      <3> QED BY <2>2, <2>3, <3>1
    <2>5. ~(i < e)
      <3>1. i < e => Rank(K, i) < Rank(K, e)
        BY <1>1, <2>2, RankGrows
      <3> QED BY <2>2, <2>3, <3>1
    <2>6. e = i
      BY <2>3, <2>4, <2>5
    <2> QED BY <2>1, <2>2, <2>6
  <1>5. ASSUME NEW k \in 1 .. n PROVE InCharacter(u, k)
    <2> DEFINE i == o(k)
    <2>1. i \in K /\ Rank(K, i) = k /\ i \in 1 .. l
      BY <1>1, <1>2
    <2> HIDE DEF i
    <2>2. PICK j \in 1 .. i : Starts(t, j) /\ i < j + Width(t[j])
      BY <1>2, <2>1 DEF InCharacter
    <2> DEFINE w == Width(t[j])
               r == Rank(K, j)
    <2>3. w \in {1, 2, 3, 4} /\ j + w - 1 <= l /\ i < j + w
      BY <2>2, WidthIs DEF Starts, l
    <2>4. \A x \in j .. j + w - 1 : x \in K
      <3> SUFFICES ASSUME NEW x \in j .. j + w - 1 PROVE x \in K
        OBVIOUS
      <3>1. x \in 1 .. l /\ j \in 1 .. x /\ x < j + w
        <4> HIDE DEF w
        <4> QED BY <1>1, <2>1, <2>2, <2>3
      <3>2. InCharacter(t, x)
        BY <2>2, <3>1 DEF InCharacter
      <3> QED BY <1>3, <3>1, <3>2
    <2> HIDE DEF w
    <2>5. j \in K /\ r \in 1 .. n /\ j \in 1 .. l
      <3>1. j \in j .. j + w - 1 /\ j \in 1 .. l
        BY <2>1, <2>2, <2>3, <1>1
      <3> QED BY <1>4, <2>4, <3>1
    \* The bytes of a character stay next to one another.
    <2>6. \A x \in j .. j + w - 1 : Rank(K, x) = x + (r - j)
      <3>1. ASSUME NEW x \in K, x + 1 \in K PROVE Rank(K, x + 1) = Rank(K, x) + 1
        <4>1. x < x + 1
          BY <1>2
        <4> QED BY <1>1, <3>1, <4>1, RankGrows
      <3>2. CASE w = 1
        BY <2>5, <3>2
      <3>3. CASE w = 2
        <4>1. j + 1 \in K
          BY <2>4, <2>5, <3>3
        <4>2. Rank(K, j + 1) = r + 1
          BY <2>5, <3>1, <4>1
        <4>3. \A x \in j .. j + w - 1 : x = j \/ x = j + 1
          BY <2>5, <3>3
        <4> HIDE DEF r
        <4> QED BY <2>5, <4>2, <4>3, <1>1 DEF r
      <3>4. CASE w = 3
        <4>1. j + 1 \in K /\ j + 2 \in K /\ (j + 1) + 1 = j + 2
          BY <2>4, <2>5, <3>4
        <4>2. Rank(K, j + 1) = r + 1
          BY <2>5, <3>1, <4>1
        <4>3. Rank(K, j + 2) = r + 1 + 1
          BY <3>1, <4>1, <4>2
        <4>4. \A x \in j .. j + w - 1 : x = j \/ x = j + 1 \/ x = j + 2
          BY <2>5, <3>4
        <4> HIDE DEF r
        <4> QED BY <2>5, <4>2, <4>3, <4>4, <1>1 DEF r
      <3>5. CASE w = 4
        <4>1. j + 1 \in K /\ j + 2 \in K /\ (j + 1) + 1 = j + 2 /\ j + 3 \in K /\ (j + 2) + 1 = j + 3
          BY <2>4, <2>5, <3>5
        <4>2. Rank(K, j + 1) = r + 1
          BY <2>5, <3>1, <4>1
        <4>3. Rank(K, j + 2) = r + 1 + 1
          BY <3>1, <4>1, <4>2
        <4>4. Rank(K, j + 3) = r + 1 + 1 + 1
          BY <3>1, <4>1, <4>3
        <4>5. \A x \in j .. j + w - 1 : x = j \/ x = j + 1 \/ x = j + 2 \/ x = j + 3
          BY <2>5, <3>5
        <4> HIDE DEF r
        <4> QED BY <2>5, <4>2, <4>3, <4>4, <4>5, <1>1 DEF r
      <3> QED BY <2>3, <3>2, <3>3, <3>4, <3>5
    <2>7. \A x \in j .. j + w - 1 : x + (r - j) \in 1 .. Len(u) /\ u[x + (r - j)] = t[x]
      <3> HIDE DEF r
      <3> QED BY <1>1, <1>4, <2>4, <2>6
    <2>8. r - j \in Int /\ j + (r - j) = r /\ i \in j .. j + w - 1
      <3> HIDE DEF r
      <3> QED BY <1>1, <2>1, <2>2, <2>3, <2>5
    <2>9. k = i + (r - j)
      BY <2>1, <2>6, <2>8
    <2>10. Starts(u, j + (r - j)) /\ Width(u[j + (r - j)]) = w
      <3> HIDE DEF r
      <3> QED BY <1>1, <2>2, <2>5, <2>7, <2>8, CharacterMoves DEF w, l
    <2>11. r \in 1 .. k /\ k < r + w
      <3> HIDE DEF r
      <3> QED BY <1>1, <2>1, <2>2, <2>3, <2>5, <2>8, <2>9
    <2> HIDE DEF r
    <2>12. Starts(u, r) /\ Width(u[r]) = w
      BY <2>8, <2>10
    <2> QED BY <2>11, <2>12 DEF InCharacter
  <1>6. Decodable(u)
    BY <1>1, <1>5, DecodableIs
  <1>7. Len(u) \in Nat /\ Len(u) <= l
    BY <1>1
  <1> QED BY <1>1, <1>6, <1>7 DEF u, l

\* Characters are decoded to themselves.
LEMMA DecodedIsItself ==
  ASSUME NEW t \in Text, Decodable(t)
  PROVE  Decoded(t) = t
  <1> DEFINE n == Len(t)
             K == 1 .. n
  <1>1. n \in Nat /\ Kept(t) = K
    BY TextIs, DecodableIs DEF Kept
  <1>2. Cardinality(K) = n
    <2>1. Cardinality(1 .. n) = IF 1 > n THEN 0 ELSE n - 1 + 1
      BY <1>1, FS_Interval
    <2> QED BY <1>1, <2>1
  <1>3. \A i \in K : Rank(K, i) = i
    <2> SUFFICES ASSUME NEW i \in K PROVE Rank(K, i) = i
      OBVIOUS
    <2>1. {j \in K : j <= i} = 1 .. i
      BY <1>1
    <2>2. Cardinality(1 .. i) = i
      <3>1. Cardinality(1 .. i) = IF 1 > i THEN 0 ELSE i - 1 + 1
        BY <1>1, FS_Interval
      <3> QED BY <1>1, <3>1
    <2> QED BY <2>1, <2>2 DEF Rank
  <1>4. /\ Decoded(t) \in Text /\ Len(Decoded(t)) = n
        /\ \A k \in K : Origin(t, k) \in K /\ Rank(K, Origin(t, k)) = k /\ Decoded(t)[k] = t[Origin(t, k)]
    BY <1>1, <1>2, DecodedIs
  <1>5. \A k \in K : Decoded(t)[k] = t[k]
    BY <1>3, <1>4
  <1> QED BY <1>4, <1>5, TextsEqual

-----------------------------------------------------------------------------
(* The stop sequences in a text *)

\* None of them begins in the first n bytes, whatever follows the text.
Free(ss, b, n) ==
  \A i \in DOMAIN ss : \A p \in 0 .. n - 1 :
    \E k \in 1 .. Len(ss[i]) : p + k <= Len(b) /\ b[p + k] # ss[i][k]

\* Every one of them is characters.
LEMMA StopsAre ==
  ASSUME NEW ss \in StopLists
  PROVE  /\ ss \in Seq(Text) /\ Len(ss) \in Nat /\ DOMAIN ss = 1 .. Len(ss)
         /\ \A i \in DOMAIN ss : ss[i] \in Text /\ Len(ss[i]) \in Nat \ {0} /\ ss[i][1] # "C"
  <1>1. ss \in Seq(Text)
    BY StreamAssumption DEF Text
  <1>2. Len(ss) \in Nat /\ DOMAIN ss = 1 .. Len(ss) /\ \A i \in 1 .. Len(ss) : ss[i] \in Text
    BY <1>1, LenProperties, TokenIsText
  <1>3. ASSUME NEW i \in DOMAIN ss PROVE Len(ss[i]) \in Nat \ {0} /\ ss[i][1] # "C"
    <2> DEFINE s == ss[i]
    <2>1. s \in Text /\ s # << >> /\ Decodable(s)
      BY <1>2, StreamAssumption, StopsAreText
    <2> HIDE DEF s
    <2>2. Len(s) \in Nat \ {0}
      BY <2>1, EmptySeq DEF Text
    <2>3. 1 \in 1 .. Len(s)
      BY <2>2
    <2>4. PICK j \in 1 .. 1 : Starts(s, j)
      BY <2>1, <2>3, DecodableIs DEF InCharacter
    <2> QED BY <2>2, <2>4 DEF s, Starts
  <1> QED BY <1>1, <1>2, <1>3

LEMMA FoundIs ==
  ASSUME NEW ss \in StopLists, NEW b \in Text
  PROVE  /\ Len(b) \in Nat /\ Found(ss, b) \in SUBSET (0 .. Len(b) - 1)
         /\ \A p \in Found(ss, b) : p + 1 \in 1 .. Len(b) /\ b[p + 1] # "C"
         /\ \A p \in Nat : p \in Found(ss, b)
              <=> \E i \in DOMAIN ss :
                    p + Len(ss[i]) <= Len(b) /\ \A k \in 1 .. Len(ss[i]) : b[p + k] = ss[i][k]
  <1>1. \A i \in DOMAIN ss : ss[i] \in Text /\ Len(ss[i]) \in Nat \ {0} /\ ss[i][1] # "C"
    BY StopsAre
  <1>2. Len(b) \in Nat
    BY TextIs
  <1>3. \A i \in DOMAIN ss :
          /\ Occurrences(ss[i], b) \in SUBSET (0 .. Len(b))
          /\ \A p \in Nat : p \in Occurrences(ss[i], b)
               <=> p + Len(ss[i]) <= Len(b) /\ \A k \in 1 .. Len(ss[i]) : b[p + k] = ss[i][k]
    BY <1>1, OccurrencesAre
  <1>4. ASSUME NEW p \in Found(ss, b) PROVE p \in 0 .. Len(b) - 1 /\ p + 1 \in 1 .. Len(b) /\ b[p + 1] # "C"
    <2>1. PICK i \in DOMAIN ss : p \in Occurrences(ss[i], b)
      BY DEF Found
    <2>2. p \in Nat
      BY <1>2, <1>3, <2>1
    <2>3. p + Len(ss[i]) <= Len(b) /\ \A k \in 1 .. Len(ss[i]) : b[p + k] = ss[i][k]
      BY <1>3, <2>1, <2>2
    <2>4. 1 \in 1 .. Len(ss[i]) /\ p + 1 <= Len(b)
      BY <1>1, <1>2, <2>2, <2>3
    <2>5. b[p + 1] # "C"
      BY <1>1, <2>3, <2>4
    <2> QED BY <1>2, <2>2, <2>4, <2>5
  <1>5. \A p : p \in Found(ss, b) <=> \E i \in DOMAIN ss : p \in Occurrences(ss[i], b)
    BY DEF Found
  <1>6. Found(ss, b) \in SUBSET (0 .. Len(b) - 1)
    BY <1>4
  <1> QED BY <1>2, <1>3, <1>4, <1>5, <1>6

LEMMA StopAtIs ==
  ASSUME NEW ss \in StopLists, NEW b \in Text
  PROVE  /\ StopAt(ss, b) \in 0 .. Len(b)
         /\ StopAt(ss, b) < Len(b) => b[StopAt(ss, b) + 1] # "C"
         /\ \A p \in Found(ss, b) : StopAt(ss, b) <= p
         /\ StopAt(ss, b) = Len(b) \/ StopAt(ss, b) \in Found(ss, b)
  <1> DEFINE S == {Len(b)} \cup Found(ss, b)
  <1>1. /\ Len(b) \in Nat /\ Found(ss, b) \in SUBSET (0 .. Len(b) - 1)
        /\ \A p \in Found(ss, b) : p + 1 \in 1 .. Len(b) /\ b[p + 1] # "C"
    BY FoundIs
  <1>2. S \in SUBSET Nat /\ S # {}
    BY <1>1
  <1>3. Min(S) \in S /\ \A y \in S : Min(S) <= y
    <2> HIDE DEF S
    <2> QED BY <1>2, LeastElement
  <1>4. StopAt(ss, b) = Min(S)
    BY DEF StopAt
  <1> DEFINE m == Min(S)
  <1>5. m \in S /\ \A y \in S : m <= y
    BY <1>3
  <1> HIDE DEF m
  <1>6. m \in 0 .. Len(b) /\ (m < Len(b) => b[m + 1] # "C")
    BY <1>1, <1>5
  <1> QED BY <1>4, <1>5, <1>6 DEF m

LEMMA FreeIsKept ==
  ASSUME NEW ss \in StopLists, NEW a \in Text, NEW b \in Text, NEW n \in Nat, Free(ss, a, n)
  PROVE  Free(ss, a \o b, n)
  <1> DEFINE c == a \o b
  <1>1. /\ Len(a) \in Nat /\ Len(b) \in Nat /\ Len(c) = Len(a) + Len(b)
        /\ \A i \in 1 .. Len(a) : c[i] = a[i]
    BY ConcatIsText
  <1> HIDE DEF c
  <1>2. ASSUME NEW i \in DOMAIN ss, NEW p \in 0 .. n - 1
        PROVE  \E k \in 1 .. Len(ss[i]) : p + k <= Len(c) /\ c[p + k] # ss[i][k]
    <2>1. PICK k \in 1 .. Len(ss[i]) : p + k <= Len(a) /\ a[p + k] # ss[i][k]
      BY DEF Free
    <2>2. Len(ss[i]) \in Nat
      BY StopsAre
    <2>3. p + k \in 1 .. Len(a) /\ p + k <= Len(c)
      BY <1>1, <2>1, <2>2
    <2> QED BY <1>1, <2>1, <2>3
  <1> QED BY <1>2 DEF Free, c

LEMMA FreeOfStops ==
  ASSUME NEW ss \in StopLists, NEW b \in Text, NEW n \in Nat, Free(ss, b, n), NEW p \in Found(ss, b)
  PROVE  n <= p
  <1>1. p \in Nat
    BY FoundIs
  <1>2. PICK i \in DOMAIN ss : p + Len(ss[i]) <= Len(b) /\ \A k \in 1 .. Len(ss[i]) : b[p + k] = ss[i][k]
    BY <1>1, FoundIs
  <1>3. p \notin 0 .. n - 1
    BY <1>2 DEF Free
  <1> QED BY <1>1, <1>3

\* Where the first stop sequence is may be looked for in the part that is not sent.
LEMMA StopInRest ==
  ASSUME NEW ss \in StopLists, NEW a \in Text, NEW h \in Text,
         \A p \in Found(ss, a \o h) : Len(a) <= p
  PROVE  /\ Len(a) + (IF Found(ss, h) = {} THEN Len(h) ELSE Min(Found(ss, h))) = StopAt(ss, a \o h)
         /\ Len(a) <= StopAt(ss, a \o h)
  <1> DEFINE c == a \o h
             l == Len(a)
             n == Len(h)
             F == Found(ss, h)
             G == Found(ss, c)
             m == StopAt(ss, c)
             e == IF F = {} THEN n ELSE Min(F)
  <1>1. /\ c \in Text /\ l \in Nat /\ n \in Nat /\ Len(c) = l + n
        /\ \A i \in 1 .. n : c[l + i] = h[i]
    BY ConcatIsText
  <1>2. F \in SUBSET (0 .. n - 1)
    BY FoundIs
  <1>3. /\ \A p \in Nat : p \in F
             <=> \E i \in DOMAIN ss : p + Len(ss[i]) <= n /\ \A k \in 1 .. Len(ss[i]) : h[p + k] = ss[i][k]
    BY FoundIs
  <1>4. /\ G \in SUBSET (0 .. l + n - 1)
        /\ \A p \in Nat : p \in G
             <=> \E i \in DOMAIN ss : p + Len(ss[i]) <= l + n /\ \A k \in 1 .. Len(ss[i]) : c[p + k] = ss[i][k]
    <2> DEFINE u == Len(c)
    <2>1. c \in Text /\ u = l + n
      BY <1>1
    <2> HIDE DEF c
    <2>2. /\ G \in SUBSET (0 .. u - 1)
          /\ \A p \in Nat : p \in G
               <=> \E i \in DOMAIN ss : p + Len(ss[i]) <= u /\ \A k \in 1 .. Len(ss[i]) : c[p + k] = ss[i][k]
      BY <2>1, FoundIs
    <2> HIDE DEF u, G
    <2> QED BY <2>1, <2>2
  <1>5. m \in 0 .. l + n /\ (\A p \in G : m <= p) /\ (m = l + n \/ m \in G)
    <2>1. c \in Text /\ Len(c) = l + n
      BY <1>1
    <2> HIDE DEF c, l, n
    <2> QED BY <2>1, StopAtIs
  <1>6. F # {} => Min(F) \in F /\ \A q \in F : Min(F) <= q
    <2>1. F \in SUBSET Nat
      BY <1>2
    <2> HIDE DEF F
    <2> QED BY <2>1, LeastElement
  <1>7. (\A p \in G : l <= p) /\ \A i \in DOMAIN ss : Len(ss[i]) \in Nat
    BY StopsAre
  <1> HIDE DEF c, l, n, F, G, m
  <1>8. ASSUME NEW q \in Nat PROVE l + q \in G <=> q \in F
    <2>1. ASSUME NEW i \in DOMAIN ss, q + Len(ss[i]) <= n, NEW k \in 1 .. Len(ss[i])
          PROVE  c[l + q + k] = h[q + k]
      <3>1. q + k \in 1 .. n /\ l + (q + k) = l + q + k
        BY <1>1, <1>7, <2>1
      <3> QED BY <1>1, <3>1
    <2>2. \A i \in DOMAIN ss : l + q + Len(ss[i]) <= l + n <=> q + Len(ss[i]) <= n
      BY <1>1, <1>7
    <2>3. l + q \in Nat
      BY <1>1
    <2>4. l + q \in G
            <=> \E i \in DOMAIN ss : l + q + Len(ss[i]) <= l + n /\ \A k \in 1 .. Len(ss[i]) : c[l + q + k] = ss[i][k]
      BY <1>4, <2>3
    <2>5. l + q \in G
            <=> \E i \in DOMAIN ss : q + Len(ss[i]) <= n /\ \A k \in 1 .. Len(ss[i]) : h[q + k] = ss[i][k]
      BY <2>1, <2>2, <2>4
    <2> QED BY <1>3, <2>5
  <1>9. l <= m
    BY <1>1, <1>5, <1>7
  <1>10. CASE F = {}
    <2>1. m \notin G
      <3> SUFFICES ASSUME m \in G PROVE FALSE
        OBVIOUS
      <3>1. m - l \in Nat /\ l + (m - l) = m
        BY <1>1, <1>5, <1>9
      <3>2. m - l \in F
        BY <1>8, <3>1
      <3> QED BY <1>10, <3>2
    <2> QED BY <1>1, <1>5, <1>9, <1>10, <2>1 DEF c, l, n, F, m
  <1>11. CASE F # {}
    <2> DEFINE f == Min(F)
    <2>1. f \in F /\ (\A q \in F : f <= q) /\ f \in Nat /\ f <= n - 1
      <3>1. f \in F /\ \A q \in F : f <= q
        BY <1>6, <1>11
      <3> HIDE DEF f
      <3>2. f \in 0 .. n - 1
        BY <1>2, <3>1
      <3> QED BY <1>1, <3>1, <3>2
    <2> HIDE DEF f
    <2>2. l + f \in G
      BY <1>8, <2>1
    <2>3. m <= l + f /\ m \in G
      BY <1>1, <1>5, <2>1, <2>2
    <2>4. m - l \in Nat /\ l + (m - l) = m
      BY <1>1, <1>5, <1>9
    <2>5. f <= m - l
      BY <1>8, <2>1, <2>3, <2>4
    <2>6. l + f = m
      BY <1>1, <1>5, <2>1, <2>3, <2>4, <2>5
    <2> QED BY <1>9, <1>11, <2>6 DEF c, l, n, F, m, f
  <1> QED BY <1>10, <1>11

-----------------------------------------------------------------------------
(* The tokens that are sent and the others *)

LEMMA VocabIsText ==
  ASSUME NEW ts \in Seq(Vocab)
  PROVE  ts \in Seq(Text) /\ Len(ts) \in Nat /\ DOMAIN ts = 1 .. Len(ts)
  <1>1. Vocab \subseteq Text
    BY StreamAssumption DEF Text
  <1>2. ts \in Seq(Text)
    BY <1>1, SeqMonotonic
  <1> QED BY <1>2, LenProperties

LEMMA SameSeq ==
  ASSUME NEW us \in Seq(Text), NEW vs \in Seq(Text), Len(us) = Len(vs),
         \A i \in 1 .. Len(us) : us[i] = vs[i]
  PROVE  us = vs
  BY SeqEqual

\* The first r tokens and the n after them.
LEMMA BytesOfNext ==
  ASSUME NEW ts \in Seq(Text), NEW r \in 0 .. Len(ts), NEW n \in 0 .. Len(ts) - r
  PROVE  LET rest == SubSeq(ts, r + 1, Len(ts))
         IN /\ SubSeq(rest, 1, n) \in Seq(Text)
            /\ Bytes(SubSeq(ts, 1, r + n)) = Bytes(SubSeq(ts, 1, r)) \o Bytes(SubSeq(rest, 1, n))
  <1> DEFINE l == Len(ts)
             rest == SubSeq(ts, r + 1, l)
             us == SubSeq(ts, 1, r + n)
             a == SubSeq(us, 1, r)
             b == SubSeq(us, r + 1, r + n)
             c == SubSeq(ts, 1, r)
             d == SubSeq(rest, 1, n)
  <1>1. l \in Nat /\ r \in 0 .. l /\ n \in 0 .. l - r /\ r + n \in 0 .. l /\ r \in 0 .. r + n /\ l - r \in Nat
    <2>1. l \in Nat /\ r \in 0 .. l /\ n \in 0 .. l - r
      BY TokenIsText
    <2> HIDE DEF l
    <2> QED BY <2>1
  <1>2. rest \in Seq(Text) /\ Len(rest) = l - r /\ \A k \in 1 .. l - r : rest[k] = ts[r + k]
    BY TailOf
  <1>3. us \in Seq(Text) /\ Len(us) = r + n /\ \A k \in 1 .. r + n : us[k] = ts[k]
    <2> HIDE DEF l
    <2> QED BY <1>1, HeadOf DEF l
  <1>4. c \in Seq(Text) /\ Len(c) = r /\ \A k \in 1 .. r : c[k] = ts[k]
    BY HeadOf
  <1>5. d \in Seq(Text) /\ Len(d) = n /\ \A k \in 1 .. n : d[k] = rest[k]
    <2> HIDE DEF rest, l
    <2> QED BY <1>1, <1>2, HeadOf
  <1>6. a \in Seq(Text) /\ Len(a) = r /\ \A k \in 1 .. r : a[k] = us[k]
    <2> HIDE DEF us
    <2> QED BY <1>1, <1>3, HeadOf
  <1>7. b \in Seq(Text) /\ Len(b) = n /\ \A k \in 1 .. n : b[k] = us[r + k]
    <2> DEFINE m == r + n
    <2>1. m = Len(us) /\ m - r = n /\ r \in 0 .. Len(us)
      BY <1>1, <1>3
    <2> HIDE DEF us, m
    <2>2. /\ SubSeq(us, r + 1, m) \in Seq(Text) /\ Len(SubSeq(us, r + 1, m)) = m - r
          /\ \A k \in 1 .. m - r : SubSeq(us, r + 1, m)[k] = us[r + k]
      BY <1>3, <2>1, TailOf
    <2> QED BY <2>1, <2>2 DEF m
  <1>8. Bytes(us) = Bytes(a) \o Bytes(b)
    <2>1. r \in 0 .. Len(us) /\ Len(us) = r + n
      BY <1>1, <1>3
    <2> HIDE DEF us
    <2> QED BY <1>3, <2>1, BytesOfHalves
  <1> HIDE DEF rest, us, a, b, c, d, l
  <1>9. a = c
    <2>1. \A k \in 1 .. r : a[k] = c[k]
      BY <1>1, <1>3, <1>4, <1>6
    <2> QED BY <1>4, <1>6, <2>1, SameSeq
  <1>10. b = d
    <2>1. \A k \in 1 .. n : b[k] = d[k]
      <3> SUFFICES ASSUME NEW k \in 1 .. n PROVE b[k] = d[k]
        OBVIOUS
      <3>1. r + k \in 1 .. r + n /\ k \in 1 .. l - r
        BY <1>1
      <3>2. b[k] = us[r + k] /\ us[r + k] = ts[r + k]
        BY <1>3, <1>7, <3>1
      <3>3. d[k] = rest[k] /\ rest[k] = ts[r + k]
        BY <1>2, <1>5, <3>1
      <3> QED BY <3>2, <3>3
    <2> QED BY <1>5, <1>7, <2>1, SameSeq
  <1> QED BY <1>5, <1>8, <1>9, <1>10 DEF us, c, d, rest, l

\* No text that may be the start of a stop sequence is in what may be sent.
LEMMA HeldIs ==
  ASSUME stops \in StopLists, NEW rest \in Text, rest = Bytes(Remaining)
  PROVE  /\ Held \in 0 .. Len(rest)
         /\ \A i \in DOMAIN stops : \A n \in 1 .. Len(stops[i]) :
              n <= Len(rest) /\ (\A k \in 1 .. n : rest[Len(rest) - n + k] = stops[i][k]) => n <= Held
         /\ Held > 0 => \E i \in DOMAIN stops :
              /\ Held \in 1 .. Len(stops[i])
              /\ \A k \in 1 .. Held : rest[Len(rest) - Held + k] = stops[i][k]
  <1> DEFINE starts(s) == {n \in 1 .. Len(s) : n <= Len(rest) /\ IsSuffix(Cut(s, n), rest)}
             U == UNION {starts(stops[i]) : i \in DOMAIN stops}
             S == {0} \cup U
  <1>1. Len(rest) \in Nat /\ \A i \in DOMAIN stops : stops[i] \in Text /\ Len(stops[i]) \in Nat
    BY TextIs, StopsAre
  <1>2. \A n : n \in U <=> \E i \in DOMAIN stops : n \in starts(stops[i])
    OBVIOUS
  <1>3. S \in SUBSET (0 .. Len(rest)) /\ S # {}
    <2>1. \A i \in DOMAIN stops : \A n \in starts(stops[i]) : n \in 0 .. Len(rest)
      BY <1>1
    <2>2. \A n \in U : n \in 0 .. Len(rest)
      <3> HIDE DEF starts, U
      <3> QED BY <1>2, <2>1
    <2> HIDE DEF U
    <2> QED BY <1>1, <2>2
  <1>4. Max(S) \in S /\ \A n \in S : Max(S) >= n
    <2> HIDE DEF S
    <2> QED BY <1>1, <1>3, GreatestElement
  <1>5. Held = Max(S)
    BY DEF Held
  <1>6. ASSUME NEW i \in DOMAIN stops, NEW n \in 1 .. Len(stops[i]), n <= Len(rest),
               \A k \in 1 .. n : rest[Len(rest) - n + k] = stops[i][k]
        PROVE  n \in S
    <2> DEFINE s == stops[i]
               c == Cut(s, n)
    <2>1. s \in Text /\ n \in 0 .. Len(s)
      BY <1>1
    <2>2. c \in Text /\ Len(c) = n /\ \A k \in 1 .. n : c[k] = s[k]
      <3> HIDE DEF s
      <3> QED BY <2>1, CutIs
    <2> HIDE DEF c
    <2>3. \A k \in 1 .. Len(c) : rest[Len(rest) - Len(c) + k] = c[k]
      BY <1>6, <2>2
    <2>4. IsSuffix(c, rest)
      BY <1>6, <2>2, <2>3, SuffixIs
    <2>5. n \in starts(s)
      BY <1>6, <2>4 DEF c
    <2> HIDE DEF starts, U
    <2> QED BY <1>2, <2>5
  <1>11. ASSUME NEW n \in U
         PROVE  \E i \in DOMAIN stops :
                  n \in 1 .. Len(stops[i]) /\ \A k \in 1 .. n : rest[Len(rest) - n + k] = stops[i][k]
    <2>1. PICK i \in DOMAIN stops : n \in starts(stops[i])
      <3> HIDE DEF starts, U
      <3> QED BY <1>2
    <2> DEFINE s == stops[i]
               c == Cut(s, n)
    <2>2. n \in 1 .. Len(s) /\ IsSuffix(c, rest)
      BY <2>1
    <2>3. s \in Text /\ n \in 0 .. Len(s)
      BY <1>1, <2>2
    <2> HIDE DEF s, U, S, starts
    <2>4. c \in Text /\ Len(c) = n /\ \A k \in 1 .. n : c[k] = s[k]
      BY <2>3, CutIs
    <2> HIDE DEF c
    <2>5. \A k \in 1 .. Len(c) : rest[Len(rest) - Len(c) + k] = c[k]
      BY <2>2, <2>4, SuffixMeans
    <2>6. \A k \in 1 .. n : rest[Len(rest) - n + k] = s[k]
      BY <2>4, <2>5
    <2> QED BY <2>2, <2>6 DEF s
  <1>12. \A n \in S : n = 0 \/ n \in U
    OBVIOUS
  <1> HIDE DEF S, U
  <1> DEFINE h == Max(S)
  <1>7. h \in S /\ \A n \in S : h >= n
    BY <1>4
  <1> HIDE DEF h
  <1>8. h \in 0 .. Len(rest)
    BY <1>3, <1>7
  <1>9. \A i \in DOMAIN stops : \A n \in 1 .. Len(stops[i]) :
              n <= Len(rest) /\ (\A k \in 1 .. n : rest[Len(rest) - n + k] = stops[i][k]) => n <= h
    <2> SUFFICES ASSUME NEW i \in DOMAIN stops, NEW n \in 1 .. Len(stops[i]), n <= Len(rest),
                        \A k \in 1 .. n : rest[Len(rest) - n + k] = stops[i][k]
                 PROVE  n <= h
      OBVIOUS
    <2>1. n \in S
      BY <1>6
    <2>2. n \in Int /\ h \in Int
      BY <1>1, <1>8
    <2> QED BY <1>7, <2>1, <2>2
  <1>10. h > 0 => \E i \in DOMAIN stops :
           h \in 1 .. Len(stops[i]) /\ \A k \in 1 .. h : rest[Len(rest) - h + k] = stops[i][k]
    BY <1>7, <1>8, <1>11, <1>12
  <1> QED BY <1>5, <1>8, <1>9, <1>10 DEF h

\* What can be yielded is part of what is not sent.
LEMMA GroupIs ==
  ASSUME Remaining \in Seq(Text), Groups # {}
  PROVE  Len(Group) \in Nat /\ Len(Group) <= Len(Bytes(Remaining))
  <1> DEFINE m == Min(Groups)
             us == SubSeq(Remaining, 1, m)
             vs == SubSeq(Remaining, m + 1, Len(Remaining))
  <1>1. Len(Remaining) \in Nat
    BY TokenIsText
  <1>2. Groups \in SUBSET Nat /\ \A n \in Groups : n \in 0 .. Len(Remaining)
    BY <1>1 DEF Groups
  <1>3. m \in Groups
    BY <1>2, LeastElement
  <1> HIDE DEF m
  <1>4. m \in 0 .. Len(Remaining)
    BY <1>2, <1>3
  <1>5. us \in Seq(Text) /\ vs \in Seq(Text) /\ Bytes(Remaining) = Bytes(us) \o Bytes(vs)
    BY <1>4, BytesOfHalves
  <1>6. Group = Bytes(us)
    BY DEF Group, m
  <1> HIDE DEF us, vs
  <1>7. Bytes(us) \in Text /\ Bytes(vs) \in Text
    BY <1>5, BytesType
  <1>8. Len(Bytes(us)) \in Nat /\ Len(Bytes(vs)) \in Nat /\ Len(Bytes(Remaining)) = Len(Bytes(us)) + Len(Bytes(vs))
    BY <1>5, <1>7, ConcatIsText
  <1> QED BY <1>6, <1>8

LEMMA FreeOfMore ==
  ASSUME stops \in StopLists, NEW f \in Text, NEW rest \in Text, rest = Bytes(Remaining),
         NEW n \in Nat, Len(f) <= n, n <= Len(f \o rest) - Held,
         Free(stops, f \o rest, Len(f)), Found(stops, f \o rest) = {}
  PROVE  Free(stops, f \o rest, n)
  <1> DEFINE b == f \o rest
             l == Len(f)
             m == Len(rest)
             h == Held
  <1>1. /\ b \in Text /\ l \in Nat /\ m \in Nat /\ Len(b) = l + m
        /\ \A i \in 1 .. m : b[l + i] = rest[i]
    BY ConcatIsText
  <1>2. /\ h \in 0 .. m
        /\ \A i \in DOMAIN stops : \A q \in 1 .. Len(stops[i]) :
             q <= m /\ (\A k \in 1 .. q : rest[m - q + k] = stops[i][k]) => q <= h
    BY HeldIs
  <1>3. n <= l + m - h /\ l <= n
    <2>1. n <= Len(b) - h /\ l <= n
      OBVIOUS
    <2> HIDE DEF b, h, l, m
    <2> QED BY <1>1, <1>2, <2>1
  <1>4. \A i \in DOMAIN stops : Len(stops[i]) \in Nat \ {0}
    BY StopsAre
  <1>5. \A p \in Nat : \A i \in DOMAIN stops :
          ~(p + Len(stops[i]) <= l + m /\ \A k \in 1 .. Len(stops[i]) : b[p + k] = stops[i][k])
    <2> DEFINE u == Len(b)
    <2>1. Found(stops, b) = {} /\ u = l + m /\ b \in Text
      BY <1>1
    <2> HIDE DEF b, l, m
    <2>2. \A p \in Nat : p \in Found(stops, b)
            <=> \E i \in DOMAIN stops :
                  p + Len(stops[i]) <= u /\ \A k \in 1 .. Len(stops[i]) : b[p + k] = stops[i][k]
      BY <2>1, FoundIs
    <2> HIDE DEF u
    <2> QED BY <2>1, <2>2
  <1>6. \A i \in DOMAIN stops : \A p \in 0 .. l - 1 :
          \E k \in 1 .. Len(stops[i]) : p + k <= l + m /\ b[p + k] # stops[i][k]
    BY <1>1 DEF Free
  <1> HIDE DEF b, l, m, h
  <1>7. ASSUME NEW i \in DOMAIN stops, NEW p \in 0 .. n - 1,
               \A k \in 1 .. Len(stops[i]) : p + k <= l + m => b[p + k] = stops[i][k]
        PROVE  FALSE
    <2>1. l <= p
      <3> SUFFICES ASSUME p < l PROVE FALSE
        BY <1>1
      <3>1. p \in 0 .. l - 1
        BY <1>1
      <3>2. PICK k \in 1 .. Len(stops[i]) : p + k <= l + m /\ b[p + k] # stops[i][k]
        BY <1>6, <3>1
      <3> QED BY <1>7, <3>2
    <2>2. p + Len(stops[i]) > l + m
      <3> SUFFICES ASSUME p + Len(stops[i]) <= l + m PROVE FALSE
        BY <1>1, <1>4
      <3>1. \A k \in 1 .. Len(stops[i]) : p + k <= l + m
        BY <1>1, <1>4
      <3>2. \A k \in 1 .. Len(stops[i]) : b[p + k] = stops[i][k]
        BY <1>7, <3>1
      <3>3. p \in Nat
        OBVIOUS
      <3> QED BY <1>5, <3>2, <3>3
    <2> DEFINE q == l + m - p
    <2>3. q \in 1 .. Len(stops[i]) /\ q <= m /\ ~(q <= h)
      BY <1>1, <1>2, <1>3, <1>4, <2>1, <2>2
    <2>4. \A k \in 1 .. q : rest[m - q + k] = stops[i][k]
      <3> SUFFICES ASSUME NEW k \in 1 .. q PROVE rest[m - q + k] = stops[i][k]
        OBVIOUS
      <3>1. k \in 1 .. Len(stops[i]) /\ p + k <= l + m /\ m - q + k \in 1 .. m /\ l + (m - q + k) = p + k
        BY <1>1, <1>4, <2>1, <2>3
      <3> HIDE DEF q
      <3> QED BY <1>1, <1>7, <3>1
    <2> HIDE DEF q
    <2> QED BY <1>2, <2>3, <2>4
  <1>8. \A i \in DOMAIN stops : \A p \in 0 .. n - 1 :
          \E k \in 1 .. Len(stops[i]) : p + k <= l + m /\ b[p + k] # stops[i][k]
    BY <1>7
  <1> QED BY <1>1, <1>8 DEF Free, b

\* At most three bytes are missing; none in a text of whole characters.
LEMMA MissingIs ==
  ASSUME NEW b \in Text, NEW old \in 0 .. 2
  PROVE  /\ Missing(b, old) \in 0 .. 3
         /\ Decodable(b) => Missing(b, old) = old
  <1> DEFINE n == Len(b)
             f == Max({1, n - 2})
             tail == SubSeq(b, f, n)
             short(i) == Width(tail[i]) - (4 - i)
             open == {i \in DOMAIN tail : short(i) > 0}
  <1>1. n \in Nat
    BY TextIs
  <1>2. f = IF n >= 3 THEN n - 2 ELSE 1
    <2> DEFINE x == IF n >= 3 THEN n - 2 ELSE 1
               S == {1, n - 2}
    <2>1. x \in S /\ \A y \in S : x >= y
      <3> HIDE DEF n
      <3> QED BY <1>1
    <2>2. \A y \in S : y \in Int
      BY <1>1
    <2>3. f \in S /\ \A y \in S : f >= y
      <3> HIDE DEF S, x
      <3> QED BY <2>1 DEF Max, S
    <2> HIDE DEF S, x, f, n
    <2>4. f = x
      <3>1. f \in Int /\ x \in Int /\ f >= x /\ x >= f
        BY <2>1, <2>2, <2>3
      <3> QED BY <3>1
    <2> QED BY <2>4 DEF x
  <1>3. f \in Nat \ {0} /\ f <= n + 1 /\ n - f + 1 \in 0 .. 3
    <2> HIDE DEF f, n
    <2> QED BY <1>1, <1>2
  <1>4. tail \in Text /\ Len(tail) = n - f + 1 /\ \A k \in 1 .. n - f + 1 : tail[k] = b[f + k - 1]
    <2> HIDE DEF f
    <2> QED BY <1>1, <1>3, SubSeqOf DEF Text
  <1>5. DOMAIN tail = 1 .. n - f + 1
    <2> HIDE DEF f, n, tail
    <2> QED BY <1>4, TextIs
  <1>6. Missing(b, old) = IF open = {} THEN old ELSE short(Max(open))
    BY DEF Missing
  <1>7. \A i \in 1 .. n - f + 1 : Width(tail[i]) \in {1, 2, 3, 4}
    BY WidthIs
  <1> HIDE DEF f, n, tail
  <1>8. ASSUME open # {} PROVE short(Max(open)) \in 1 .. 3
    <2>1. open \in SUBSET (0 .. 3) /\ 3 \in Nat
      BY <1>3, <1>5
    <2>2. Max(open) \in open
      <3> HIDE DEF open
      <3> QED BY <1>8, <2>1, GreatestElement
    <2> DEFINE g == Max(open)
    <2>3. g \in 1 .. n - f + 1 /\ short(g) > 0
      BY <1>5, <2>2
    <2> HIDE DEF g
    <2>4. g \in 1 .. 3 /\ Width(tail[g]) \in {1, 2, 3, 4}
      BY <1>3, <1>7, <2>3
    <2>5. short(g) \in 1 .. 3
      BY <2>3, <2>4
    <2> QED BY <2>5 DEF g
  <1>9. ASSUME Decodable(b) PROVE open = {}
    <2> SUFFICES ASSUME NEW i \in 1 .. n - f + 1 PROVE ~(short(i) > 0)
      BY <1>5
    <2>1. f + i - 1 \in 1 .. n /\ tail[i] = b[f + i - 1] /\ i \in 1 .. 3
      BY <1>1, <1>3, <1>4
    <2>2. CASE tail[i] = "C"
      BY <2>1, <2>2, WidthIs
    <2>3. CASE tail[i] # "C"
      <3>1. f + i - 1 + Width(b[f + i - 1]) - 1 <= n
        BY <1>9, <2>1, <2>3, CharactersStart DEF n
      <3>2. f + i - 1 + Width(tail[i]) - 1 <= n /\ Width(tail[i]) \in {1, 2, 3, 4}
        BY <1>7, <2>1, <3>1
      <3> HIDE DEF open
      <3> QED BY <1>1, <1>2, <2>1, <3>2
    <2> QED BY <2>2, <2>3
  <1>10. Missing(b, old) \in 0 .. 3
    <2> HIDE DEF open, short
    <2>1. CASE open = {}
      BY <1>6, <2>1
    <2>2. CASE open # {}
      <3>1. short(Max(open)) \in 1 .. 3
        BY <1>8, <2>2
      <3> QED BY <1>6, <2>2, <3>1
    <2> QED BY <2>1, <2>2
  <1> QED BY <1>6, <1>9, <1>10

-----------------------------------------------------------------------------
(* The inductive invariant *)

\* The bytes of the tokens that are sent.
SentBytes == Bytes(SubSeq(tokens, 1, returned))

InLoop == phase \in {"token", "emit", "limit"}

TypeInv == TypeOK /\ sent \in Text /\ text \in Text

\* The chunks are these bytes, and no stop sequence begins in them.
SentInv == InLoop => sent = SentBytes /\ Free(stops, AllText, Before)

\* Where stop sequences have been looked for there is none.
LookedInv ==
  phase \in {"emit", "limit"} \/ (phase = "token" /\ WholeTokens) => Found(stops, AllText) = {}

WholeInv == WholeTokens => Decodable(AllText) /\ fix = 0

FlushInv ==
  phase = "flush" =>
    Len(sent) <= Before /\ Before <= FirstStopAt /\ (WholeTokens => sent = SentBytes)

DoneInv ==
  phase = "done" =>
    Len(sent) <= FirstStopAt /\ (WholeTokens => sent = Cut(AllText, FirstStopAt))

AnswerInv ==
  ~InLoop =>
    end = FirstStopAt /\ (WholeTokens /\ Len(stops) <= 1 => text = Cut(AllText, FirstStopAt))

HeldInv == phase = "limit" => ~MayEmit

IInv ==
  /\ TypeInv /\ SentInv /\ LookedInv /\ WholeInv
  /\ FlushInv /\ DoneInv /\ AnswerInv /\ HeldInv

LEMMA FirstStopIs == FirstStopAt = StopAt(stops, AllText)
  BY DEF FirstStopAt

LEMMA StateIs ==
  ASSUME TypeInv
  PROVE  /\ stops \in StopLists /\ tokens \in Seq(Text) /\ Len(tokens) \in Nat /\ returned \in 0 .. Len(tokens)
         /\ DOMAIN tokens = 1 .. Len(tokens)
         /\ Remaining \in Seq(Text) /\ Len(Remaining) = Len(tokens) - returned
         /\ \A k \in 1 .. Len(Remaining) : Remaining[k] = tokens[returned + k]
         /\ AllText \in Text /\ SentBytes \in Text /\ Bytes(Remaining) \in Text
         /\ AllText = SentBytes \o Bytes(Remaining)
         /\ Before = Len(SentBytes) /\ Before \in Nat /\ Len(AllText) \in Nat /\ Before <= Len(AllText)
         /\ FirstStopAt \in 0 .. Len(AllText)
  <1>1. /\ stops \in StopLists /\ tokens \in Seq(Text) /\ Len(tokens) \in Nat /\ returned \in 0 .. Len(tokens)
        /\ DOMAIN tokens = 1 .. Len(tokens)
    BY VocabIsText DEF TypeInv, TypeOK
  <1>2. /\ Remaining \in Seq(Text) /\ Len(Remaining) = Len(tokens) - returned
        /\ \A k \in 1 .. Len(tokens) - returned : Remaining[k] = tokens[returned + k]
    BY <1>1, TailOf DEF Remaining
  <1>3. /\ SubSeq(tokens, 1, returned) \in Seq(Text)
        /\ AllText = SentBytes \o Bytes(Remaining)
    BY <1>1, BytesOfHalves DEF AllText, SentBytes, Remaining
  <1>4. AllText \in Text /\ SentBytes \in Text /\ Bytes(Remaining) \in Text
    BY <1>1, <1>2, <1>3, BytesType DEF AllText, SentBytes
  <1>5. Before = Len(SentBytes)
    BY DEF Before, SentBytes
  <1>6. /\ Len(SentBytes) \in Nat /\ Len(Bytes(Remaining)) \in Nat
        /\ Len(AllText) = Len(SentBytes) + Len(Bytes(Remaining))
    BY <1>3, <1>4, ConcatIsText
  <1>7. FirstStopAt \in 0 .. Len(AllText)
    BY <1>1, <1>4, FirstStopIs, StopAtIs
  <1> QED BY <1>1, <1>2, <1>3, <1>4, <1>5, <1>6, <1>7

\* The first token that is not sent.
LEMMA NextToken ==
  ASSUME TypeInv, Remaining # << >>
  PROVE  /\ Head(Remaining) \in Text /\ Head(Remaining) = tokens[returned + 1]
         /\ returned + 1 \in DOMAIN tokens /\ 1 \in 1 .. Len(Remaining)
         /\ SubSeq(Remaining, 1, 1) \in Seq(Text) /\ Bytes(SubSeq(Remaining, 1, 1)) = Head(Remaining)
  <1> DEFINE l == Len(tokens)
             m == Len(Remaining)
             us == SubSeq(Remaining, 1, 1)
             t == Remaining[1]
  <1>1. /\ l \in Nat /\ returned \in 0 .. l /\ DOMAIN tokens = 1 .. l
        /\ Remaining \in Seq(Text) /\ m = l - returned
        /\ \A k \in 1 .. m : Remaining[k] = tokens[returned + k]
    BY StateIs
  <1>2. m \in Nat \ {0}
    BY <1>1, EmptySeq
  <1>3. Head(Remaining) = t
    BY <1>1
  <1>4. \A k \in 1 .. m : Remaining[k] \in Text
    BY <1>1, TokenIsText
  <1> HIDE DEF l, m
  <1>5. 1 \in 1 .. m /\ 1 \in 0 .. m /\ returned + 1 \in 1 .. l
    BY <1>1, <1>2
  <1>6. t \in Text /\ t = tokens[returned + 1]
    BY <1>1, <1>4, <1>5
  <1>7. us = << t >>
    <2>1. us \in Seq(Text) /\ Len(us) = 1 /\ \A k \in 1 .. 1 : us[k] = Remaining[k]
      BY <1>1, <1>5, HeadOf DEF m
    <2> HIDE DEF us, t
    <2>2. us[1] = t
      BY <2>1 DEF t
    <2> QED BY <2>1, <2>2
  <1> HIDE DEF t
  <1>8. Bytes(<< t >>) = t /\ << t >> \in Seq(Text)
    BY <1>6, BytesOfOne
  <1> QED BY <1>1, <1>3, <1>5, <1>6, <1>7, <1>8 DEF m

\* What is where the tokens are the same.
LEMMA SameText ==
  ASSUME UNCHANGED <<stops, tokens>>
  PROVE  /\ AllText' = AllText /\ FirstStopAt' = FirstStopAt /\ WholeTokens' = WholeTokens
         /\ Found(stops, AllText)' = Found(stops, AllText)
         /\ returned' = returned => /\ SentBytes' = SentBytes /\ Before' = Before
                                    /\ Remaining' = Remaining /\ MayEmit' = MayEmit
  <1>1. stops' = stops /\ tokens' = tokens
    OBVIOUS
  <1>2. AllText' = AllText
    BY <1>1 DEF AllText
  <1>3. FirstStopAt' = FirstStopAt
    BY <1>1, <1>2 DEF FirstStopAt
  <1>4. WholeTokens' = WholeTokens
    BY <1>1 DEF WholeTokens
  <1>5. Found(stops, AllText)' = Found(stops, AllText)
    BY <1>1, <1>2
  <1>6. ASSUME returned' = returned
        PROVE  SentBytes' = SentBytes /\ Before' = Before /\ Remaining' = Remaining
    BY <1>1, <1>6 DEF SentBytes, Before, Remaining
  <1>7. ASSUME returned' = returned PROVE MayEmit' = MayEmit
    <2>1. Held' = Held /\ Groups' = Groups
      BY <1>1, <1>6, <1>7 DEF Held, Groups
    <2>2. Group' = Group
      BY <1>6, <1>7, <2>1 DEF Group
    <2> QED BY <1>2, <1>6, <1>7, <2>1, <2>2 DEF MayEmit
  <1> QED BY <1>2, <1>3, <1>4, <1>5, <1>6, <1>7

\* The end of the loop: the flush ends where the first stop sequence begins.
LEMMA BreakIs ==
  ASSUME TypeInv, NEW toks \in Seq(Text), returned \in 0 .. Len(toks),
         SubSeq(toks, 1, returned) = SubSeq(tokens, 1, returned),
         Free(stops, Bytes(toks), Before), NEW reason, NEW bytes, Break(reason, toks, bytes)
  PROVE  /\ finish' = reason /\ text' = Decoded(bytes) /\ phase' = "flush"
         /\ end' = StopAt(stops, Bytes(toks)) /\ Before <= end' /\ end' \in 0 .. Len(Bytes(toks))
  <1> DEFINE held == Bytes(SubSeq(toks, returned + 1, Len(toks)))
             found == UNION {Occurrences(stops[i], held) : i \in DOMAIN stops}
             b == Bytes(toks)
  <1>1. /\ finish' = reason /\ text' = Decoded(bytes) /\ phase' = "flush"
        /\ end' = Before + (IF found = {} THEN Len(held) ELSE Min(found))
    BY DEF Break
  <1>2. stops \in StopLists /\ SentBytes \in Text /\ Before = Len(SentBytes) /\ Before \in Nat
    BY StateIs
  <1>3. b = SentBytes \o held /\ held \in Text /\ b \in Text
    <2>1. /\ SubSeq(toks, returned + 1, Len(toks)) \in Seq(Text)
          /\ b = Bytes(SubSeq(toks, 1, returned)) \o held
      BY BytesOfHalves
    <2>2. held \in Text /\ b \in Text
      BY <2>1, BytesType
    <2> QED BY <2>1, <2>2 DEF SentBytes
  <1>4. found = Found(stops, held)
    BY DEF Found
  <1>5. Free(stops, b, Before)
    OBVIOUS
  <1> HIDE DEF held, found, b
  <1>6. \A p \in Found(stops, b) : Before <= p
    BY <1>2, <1>3, <1>5, FreeOfStops
  <1>7. /\ Before + (IF found = {} THEN Len(held) ELSE Min(found)) = StopAt(stops, b)
        /\ Before <= StopAt(stops, b)
    BY <1>2, <1>3, <1>4, <1>6, StopInRest
  <1>8. StopAt(stops, b) \in 0 .. Len(b)
    BY <1>2, <1>3, StopAtIs
  <1> QED BY <1>1, <1>7, <1>8 DEF b

LEMMA InitIsIn ==
  ASSUME Init
  PROVE  IInv
  <1>1. /\ stops \in StopLists /\ tokens = << >> /\ fix = 0 /\ returned = 0 /\ sent = << >>
        /\ phase = "token" /\ end = 0 /\ finish = "length" /\ text = << >>
    BY DEF Init
  <1>2. << >> \in Text /\ Len(<< >>) = 0 /\ tokens \in Seq(Vocab)
    BY <1>1, EmptySeq DEF Text
  <1>3. AllText = << >> /\ Len(AllText) = 0
    BY <1>1, <1>2, BytesOfNone DEF AllText
  <1>4. SubSeq(tokens, 1, returned) = << >>
    BY <1>1, SubSeqEmpty
  <1>5. SentBytes = << >> /\ Before = 0
    BY <1>2, <1>4, BytesOfNone DEF SentBytes, Before
  <1>6. TypeInv
    BY <1>1, <1>2, <1>3, NothingIsDecodable DEF TypeInv, TypeOK
  <1>7. SentInv
    BY <1>1, <1>5 DEF SentInv, Free
  <1>8. Found(stops, AllText) = {}
    BY <1>1, <1>2, <1>3, FoundIs
  <1>9. LookedInv
    BY <1>8 DEF LookedInv
  <1>10. WholeInv
    BY <1>1, <1>3, NothingIsDecodable DEF WholeInv
  <1>11. FlushInv /\ DoneInv /\ AnswerInv /\ HeldInv
    BY <1>1 DEF FlushInv, DoneInv, AnswerInv, InLoop, HeldInv
  <1> QED BY <1>6, <1>7, <1>9, <1>10, <1>11 DEF IInv

\* A cut in front of a stop sequence is characters where the text is.
LEMMA CutAtStop ==
  ASSUME NEW ss \in StopLists, NEW b \in Text, Decodable(b)
  PROVE  LET c == Cut(b, StopAt(ss, b)) IN c \in Text /\ Decodable(c) /\ Decoded(c) = c
  <1>1. StopAt(ss, b) \in 0 .. Len(b) /\ (StopAt(ss, b) < Len(b) => b[StopAt(ss, b) + 1] # "C")
    BY StopAtIs
  <1>2. Cut(b, StopAt(ss, b)) \in Text
    BY <1>1, CutIs
  <1>3. Decodable(Cut(b, StopAt(ss, b)))
    BY <1>1, CutIsDecodable
  <1> QED BY <1>2, <1>3, DecodedIsItself

LEMMA LoopEnds ==
  ASSUME IInv, InLoop, NEW reason \in {"length", "stop"}, Break(reason, tokens, AllText),
         UNCHANGED <<stops, tokens, fix, returned, sent>>
  PROVE  IInv'
  <1>1. TypeInv /\ SentInv /\ LookedInv /\ WholeInv
    BY DEF IInv
  <1>2. /\ stops \in StopLists /\ tokens \in Seq(Text) /\ returned \in 0 .. Len(tokens)
        /\ AllText \in Text /\ SentBytes \in Text /\ Before = Len(SentBytes) /\ Before \in Nat
    BY <1>1, StateIs
  <1>3. sent = SentBytes /\ Free(stops, AllText, Before)
    BY <1>1 DEF SentInv
  <1>4. WholeTokens => Found(stops, AllText) = {}
    BY <1>1 DEF LookedInv, InLoop
  <1>5. /\ finish' = reason /\ text' = Decoded(AllText) /\ phase' = "flush"
        /\ end' = FirstStopAt /\ Before <= FirstStopAt /\ end' \in 0 .. Len(AllText)
    BY <1>1, <1>2, <1>3, FirstStopIs, BreakIs DEF AllText
  <1>6. /\ AllText' = AllText /\ FirstStopAt' = FirstStopAt /\ WholeTokens' = WholeTokens
        /\ SentBytes' = SentBytes /\ Before' = Before
    BY SameText
  <1>7. TypeInv'
    <2>1. text' \in Text /\ Decodable(text')
      BY <1>2, <1>5, DecodedIsDecodable
    <2>2. TypeOK /\ sent \in Text
      BY <1>1 DEF TypeInv
    <2> QED BY <1>5, <1>6, <2>1, <2>2 DEF TypeInv, TypeOK
  <1>8. AnswerInv'
    <2>1. ASSUME WholeTokens PROVE text' = Cut(AllText, FirstStopAt)
      <3>1. Decodable(AllText) /\ Found(stops, AllText) = {}
        BY <1>1, <1>4, <2>1 DEF WholeInv
      <3>2. FirstStopAt = Len(AllText)
        BY <1>2, <3>1, FirstStopIs, StopAtIs
      <3> QED BY <1>2, <1>5, <3>1, <3>2, DecodedIsItself, CutAll
    <2> QED BY <1>5, <1>6, <2>1 DEF AnswerInv
  <1>9. FlushInv'
    BY <1>2, <1>3, <1>5, <1>6 DEF FlushInv
  <1>10. WholeInv'
    BY <1>1, <1>6 DEF WholeInv
  <1>11. SentInv' /\ LookedInv' /\ DoneInv' /\ HeldInv'
    BY <1>5 DEF SentInv, LookedInv, DoneInv, HeldInv, InLoop
  <1> QED BY <1>7, <1>8, <1>9, <1>10, <1>11 DEF IInv

LEMMA EndOfGenerationKeeps == ASSUME IInv, EndOfGeneration PROVE IInv'
  <1>1. InLoop
    BY DEF EndOfGeneration, InLoop
  <1> QED BY <1>1, LoopEnds DEF EndOfGeneration

LEMMA LimitKeeps == ASSUME IInv, Limit PROVE IInv'
  <1>1. InLoop /\ phase = "limit" /\ UNCHANGED <<stops, tokens, fix, returned, sent>>
    BY DEF Limit, InLoop
  <1>2. CASE Break("length", tokens, AllText)
    BY <1>1, <1>2, LoopEnds
  <1>3. CASE phase' = "token" /\ UNCHANGED <<end, finish, text>>
    <2>1. /\ AllText' = AllText /\ WholeTokens' = WholeTokens
          /\ SentBytes' = SentBytes /\ Before' = Before /\ Found(stops, AllText)' = Found(stops, AllText)
      BY <1>1, SameText
    <2>2. TypeInv /\ SentInv /\ LookedInv /\ WholeInv
      BY DEF IInv
    <2>3. TypeInv'
      BY <1>1, <1>3, <2>1, <2>2 DEF TypeInv, TypeOK
    <2>4. SentInv'
      <3>1. sent = SentBytes /\ Free(stops, AllText, Before)
        BY <1>1, <2>2 DEF SentInv
      <3>2. Free(stops, AllText, Before)'
        BY <1>1, <2>1, <3>1
      <3> QED BY <1>1, <2>1, <3>1, <3>2 DEF SentInv
    <2>5. LookedInv' /\ WholeInv'
      BY <1>1, <2>1, <2>2 DEF LookedInv, WholeInv
    <2>6. FlushInv' /\ DoneInv' /\ AnswerInv' /\ HeldInv'
      BY <1>3 DEF FlushInv, DoneInv, AnswerInv, HeldInv, InLoop
    <2> QED BY <2>3, <2>4, <2>5, <2>6 DEF IInv
  <1> QED BY <1>2, <1>3 DEF Limit

LEMMA HoldKeeps == ASSUME IInv, Hold PROVE IInv'
  <1>1. /\ phase = "emit" /\ phase' = "limit" /\ ~MayEmit
        /\ UNCHANGED <<stops, tokens, fix, returned, sent, end, finish, text>>
    BY DEF Hold
  <1>2. TypeInv /\ SentInv /\ LookedInv /\ WholeInv
    BY DEF IInv
  <1>3. /\ AllText' = AllText /\ WholeTokens' = WholeTokens /\ Found(stops, AllText)' = Found(stops, AllText)
        /\ SentBytes' = SentBytes /\ Before' = Before /\ Remaining' = Remaining /\ MayEmit' = MayEmit
    BY <1>1, SameText
  <1>4. TypeInv'
    BY <1>1, <1>2, <1>3 DEF TypeInv, TypeOK
  <1>5. SentInv'
    <2>1. sent = SentBytes /\ Free(stops, AllText, Before)
      BY <1>1, <1>2 DEF SentInv, InLoop
    <2>2. Free(stops, AllText, Before)'
      BY <1>1, <1>3, <2>1
    <2> QED BY <1>1, <1>3, <2>1, <2>2 DEF SentInv
  <1>6. LookedInv' /\ WholeInv'
    BY <1>1, <1>2, <1>3 DEF LookedInv, WholeInv
  <1>7. FlushInv' /\ DoneInv' /\ AnswerInv'
    BY <1>1 DEF FlushInv, DoneInv, AnswerInv, InLoop
  <1>8. HeldInv'
    BY <1>1, <1>3 DEF HeldInv
  <1> QED BY <1>4, <1>5, <1>6, <1>7, <1>8 DEF IInv

LEMMA EmitKeeps == ASSUME IInv, Emit PROVE IInv'
  <1> DEFINE n == Min(Groups)
  <1>1. /\ phase = "emit" /\ phase' = phase /\ MayEmit /\ sent' = sent \o Group /\ returned' = returned + n
        /\ UNCHANGED <<stops, tokens, fix, end, finish, text>>
    BY DEF Emit
  <1>2. TypeInv /\ SentInv /\ LookedInv /\ WholeInv
    BY DEF IInv
  <1>3. /\ stops \in StopLists /\ tokens \in Seq(Text) /\ Len(tokens) \in Nat /\ returned \in 0 .. Len(tokens)
        /\ Remaining \in Seq(Text) /\ Len(Remaining) = Len(tokens) - returned
        /\ AllText \in Text /\ SentBytes \in Text /\ Bytes(Remaining) \in Text
        /\ AllText = SentBytes \o Bytes(Remaining) /\ Before = Len(SentBytes) /\ Before \in Nat
    BY <1>2, StateIs
  <1>4. /\ AllText' = AllText /\ WholeTokens' = WholeTokens /\ Found(stops, AllText)' = Found(stops, AllText)
    BY <1>1, SameText
  <1>5. n \in 1 .. Len(Remaining) /\ Decodable(Group)
    <2>1. Groups \in SUBSET Nat /\ Groups # {}
      BY <1>1, <1>3 DEF Groups, MayEmit
    <2>2. n \in Groups
      BY <2>1, LeastElement
    <2> QED BY <2>2 DEF Groups, Group
  <1>6. /\ Group \in Text /\ SentBytes' = SentBytes \o Group
    <2>1. n \in 0 .. Len(tokens) - returned
      <3> HIDE DEF n
      <3> QED BY <1>3, <1>5
    <2>2. /\ SubSeq(Remaining, 1, n) \in Seq(Text)
          /\ Bytes(SubSeq(tokens, 1, returned + n)) = SentBytes \o Bytes(SubSeq(Remaining, 1, n))
      <3> HIDE DEF n
      <3> QED BY <1>3, <2>1, BytesOfNext DEF Remaining, SentBytes
    <2>3. Bytes(SubSeq(Remaining, 1, n)) = Group
      BY DEF Group
    <2>4. Bytes(SubSeq(Remaining, 1, n)) \in Text
      <3> HIDE DEF n
      <3> QED BY <2>2, BytesType
    <2>5. SentBytes' = Bytes(SubSeq(tokens, 1, returned + n))
      <3> HIDE DEF n
      <3> QED BY <1>1 DEF SentBytes
    <2> QED BY <2>2, <2>3, <2>4, <2>5
  <1> HIDE DEF n
  <1>7. Len(Group) \in Nat /\ Len(SentBytes \o Group) = Before + Len(Group)
    BY <1>3, <1>6, ConcatIsText
  <1>8. Before' = Before + Len(Group)
    <2>1. Before' = Len(SentBytes')
      BY DEF Before, SentBytes
    <2> QED BY <1>6, <1>7, <2>1
  <1>9. sent = SentBytes /\ Free(stops, AllText, Before) /\ Found(stops, AllText) = {}
    BY <1>1, <1>2 DEF SentInv, LookedInv, InLoop
  <1>10. TypeInv'
    <2>1. returned' \in 0 .. Len(tokens)
      BY <1>1, <1>3, <1>5
    <2>2. TypeOK /\ sent \in Text /\ text \in Text /\ Decodable(sent)
      BY <1>2 DEF TypeInv, TypeOK
    <2>3. sent' \in Text /\ Decodable(sent')
      BY <1>1, <1>5, <1>6, <2>2, ConcatIsDecodable, ConcatIsText
    <2> QED BY <1>1, <1>4, <2>1, <2>2, <2>3 DEF TypeInv, TypeOK
  <1>11. SentInv'
    <2> DEFINE m == Before + Len(Group)
    <2>1. m \in Nat /\ Before <= m /\ m <= Len(AllText) - Held
      <3>1. m \in Nat /\ Before <= m
        BY <1>3, <1>7
      <3> QED BY <1>1, <3>1 DEF MayEmit
    <2> HIDE DEF m
    <2>2. Free(stops, AllText, m)
      BY <1>3, <1>9, <2>1, FreeOfMore
    <2>3. Free(stops, AllText, Before)'
      BY <1>1, <1>4, <1>8, <2>2 DEF m
    <2> QED BY <1>1, <1>6, <1>9, <2>3 DEF SentInv
  <1>12. LookedInv' /\ WholeInv'
    BY <1>1, <1>2, <1>4 DEF LookedInv, WholeInv
  <1>13. FlushInv' /\ DoneInv' /\ AnswerInv' /\ HeldInv'
    BY <1>1 DEF FlushInv, DoneInv, AnswerInv, HeldInv, InLoop
  <1> QED BY <1>10, <1>11, <1>12, <1>13 DEF IInv

LEMMA NothingRemainsKeeps == ASSUME IInv, NothingRemains PROVE IInv'
  <1>1. /\ phase = "flush" /\ Remaining = << >> /\ phase' = "done"
        /\ UNCHANGED <<stops, tokens, fix, returned, sent, end, finish, text>>
    BY DEF NothingRemains
  <1>2. TypeInv /\ WholeInv /\ FlushInv /\ AnswerInv
    BY DEF IInv
  <1>3. /\ AllText' = AllText /\ FirstStopAt' = FirstStopAt /\ WholeTokens' = WholeTokens
    BY <1>1, SameText
  <1>4. /\ AllText = SentBytes \o Bytes(Remaining) /\ SentBytes \in Text
        /\ Before = Len(SentBytes) /\ Before \in Nat /\ FirstStopAt \in 0 .. Len(AllText)
    BY <1>2, StateIs
  <1>5. AllText = SentBytes
    BY <1>1, <1>4, BytesOfNone, ConcatEmptySeq DEF Text
  <1>6. Len(sent) <= Before /\ Before <= FirstStopAt /\ (WholeTokens => sent = SentBytes)
    BY <1>1, <1>2 DEF FlushInv
  <1>7. FirstStopAt = Before /\ Cut(AllText, FirstStopAt) = SentBytes
    <2>1. FirstStopAt = Before
      BY <1>4, <1>5, <1>6
    <2> QED BY <1>4, <1>5, <2>1, CutAll
  <1>8. DoneInv'
    BY <1>1, <1>3, <1>6, <1>7 DEF DoneInv
  <1>9. TypeInv' /\ WholeInv'
    BY <1>1, <1>2, <1>3 DEF TypeInv, TypeOK, WholeInv
  <1>10. AnswerInv'
    BY <1>1, <1>2, <1>3 DEF AnswerInv, InLoop
  <1>11. SentInv' /\ LookedInv' /\ FlushInv' /\ HeldInv'
    BY <1>1 DEF SentInv, LookedInv, FlushInv, HeldInv, InLoop
  <1> QED BY <1>8, <1>9, <1>10, <1>11 DEF IInv

LEMMA FlushKeeps == ASSUME IInv, Flush PROVE IInv'
  <1> DEFINE t == Head(Remaining)
             last == Before + Len(t) >= end
             c == IF last THEN Cut(t, end - Before) ELSE t
  <1>1. /\ phase = "flush" /\ Remaining # << >> /\ sent' = sent \o Decoded(c)
        /\ phase' = (IF last THEN "done" ELSE phase) /\ returned' = returned + 1
        /\ UNCHANGED <<stops, tokens, fix, end, finish, text>>
    BY DEF Flush
  <1>2. TypeInv /\ WholeInv /\ FlushInv /\ AnswerInv
    BY DEF IInv
  <1>3. /\ stops \in StopLists /\ tokens \in Seq(Text) /\ Len(tokens) \in Nat /\ returned \in 0 .. Len(tokens)
        /\ Remaining \in Seq(Text) /\ Len(Remaining) = Len(tokens) - returned
        /\ AllText \in Text /\ SentBytes \in Text /\ Bytes(Remaining) \in Text
        /\ AllText = SentBytes \o Bytes(Remaining) /\ Before = Len(SentBytes) /\ Before \in Nat
        /\ Len(AllText) \in Nat /\ FirstStopAt \in 0 .. Len(AllText)
    BY <1>2, StateIs
  <1>4. /\ AllText' = AllText /\ FirstStopAt' = FirstStopAt /\ WholeTokens' = WholeTokens
    BY <1>1, SameText
  <1>5. /\ t \in Text /\ t = tokens[returned + 1] /\ returned + 1 \in DOMAIN tokens /\ 1 \in 1 .. Len(Remaining)
        /\ SubSeq(Remaining, 1, 1) \in Seq(Text) /\ Bytes(SubSeq(Remaining, 1, 1)) = t
    BY <1>1, <1>2, NextToken
  <1>6. end = FirstStopAt /\ Len(sent) <= Before /\ Before <= end /\ (WholeTokens => sent = SentBytes)
    BY <1>1, <1>2 DEF FlushInv, AnswerInv, InLoop
  <1>7. sent \in Text /\ text \in Text /\ TypeOK /\ Decodable(sent)
    BY <1>2 DEF TypeInv, TypeOK
  <1>8. WholeTokens => Decodable(t)
    BY <1>5 DEF WholeTokens
  <1> HIDE DEF t
  <1>9. Len(t) \in Nat /\ Len(sent) \in Nat /\ end \in Nat
    BY <1>3, <1>5, <1>6, <1>7, TextIs
  <1>10. SentBytes' = SentBytes \o t /\ Before' = Before + Len(t)
    <2>1. 1 \in 0 .. Len(tokens) - returned
      BY <1>3, <1>5
    <2>2. Bytes(SubSeq(tokens, 1, returned + 1)) = SentBytes \o t
      BY <1>3, <1>5, <2>1, BytesOfNext DEF Remaining, SentBytes
    <2>3. SentBytes' = SentBytes \o t
      BY <1>1, <2>2 DEF SentBytes
    <2>4. Before' = Len(SentBytes')
      BY DEF Before, SentBytes
    <2> QED BY <1>3, <1>5, <2>3, <2>4, ConcatIsText
  \* The rest of the text begins with this token.
  <1>11. PICK more \in Text : Bytes(Remaining) = t \o more
    <2> DEFINE us == SubSeq(Remaining, 2, Len(Remaining))
    <2>1. 1 \in 0 .. Len(Remaining) /\ 1 + 1 = 2
      BY <1>5
    <2>2. us \in Seq(Text) /\ Bytes(Remaining) = t \o Bytes(us)
      BY <1>3, <1>5, <2>1, BytesOfHalves
    <2> QED BY <2>2, BytesType
  <1>12. /\ c \in Text /\ Len(c) \in Nat /\ (last => Len(c) = end - Before)
         /\ last => end - Before \in 0 .. Len(t)
    <2>1. last => end - Before \in 0 .. Len(t)
      BY <1>3, <1>6, <1>9
    <2>2. CASE last
      <3>1. Cut(t, end - Before) \in Text /\ Len(Cut(t, end - Before)) = end - Before
        BY <1>5, <2>1, <2>2, CutIs
      <3> QED BY <2>1, <2>2, <3>1
    <2>3. CASE ~last
      BY <1>5, <1>9, <2>1, <2>3
    <2> QED BY <2>2, <2>3
  <1>13. last => SentBytes \o Cut(t, end - Before) = Cut(AllText, end)
    <2> SUFFICES ASSUME last PROVE SentBytes \o Cut(t, end - Before) = Cut(AllText, end)
      OBVIOUS
    <2> DEFINE n == end - Before
    <2>1. n \in 0 .. Len(t) /\ Before + n = end
      BY <1>3, <1>9, <1>12
    <2> HIDE DEF n
    <2>2. Cut(Bytes(Remaining), n) = Cut(t, n) /\ n \in 0 .. Len(Bytes(Remaining))
      BY <1>5, <1>11, <2>1, CutOfLonger
    <2>3. Cut(AllText, Before + n) = SentBytes \o Cut(Bytes(Remaining), n)
      BY <1>3, <2>2, CutOfTwo
    <2> QED BY <2>1, <2>2, <2>3 DEF n
  \* The stop sequence does not begin inside a character.
  <1>14. WholeTokens => Decoded(c) = c
    <2> SUFFICES ASSUME WholeTokens PROVE Decoded(c) = c
      OBVIOUS
    <2>1. CASE ~last
      BY <1>5, <1>8, <2>1, DecodedIsItself
    <2>2. CASE last
      <3> DEFINE n == end - Before
      <3>1. n \in 0 .. Len(t) /\ Before + n = end
        BY <1>3, <1>9, <1>12, <2>2
      <3>2. ASSUME n < Len(t) PROVE t[n + 1] # "C"
        <4> HIDE DEF n
        <4>1. n + 1 \in 1 .. Len(t)
          BY <1>9, <3>1, <3>2
        <4>2. /\ Len(Bytes(Remaining)) \in Nat /\ Len(t) <= Len(Bytes(Remaining))
              /\ Bytes(Remaining)[n + 1] = t[n + 1]
          <5>1. /\ Len(t \o more) = Len(t) + Len(more) /\ Len(more) \in Nat
                /\ \A i \in 1 .. Len(t) : (t \o more)[i] = t[i]
            BY <1>5, ConcatIsText
          <5> QED BY <1>9, <1>11, <4>1, <5>1
        <4>3. /\ Len(AllText) = Before + Len(Bytes(Remaining))
              /\ \A i \in 1 .. Len(Bytes(Remaining)) : AllText[Before + i] = Bytes(Remaining)[i]
          BY <1>3, ConcatIsText
        <4>4. n + 1 \in 1 .. Len(Bytes(Remaining)) /\ Before + (n + 1) = end + 1 /\ end < Len(AllText)
          <5> DEFINE l == Len(t)
                     m == Len(Bytes(Remaining))
                     a == Len(AllText)
          <5>1. l \in Nat /\ n + 1 \in 1 .. l /\ m \in Nat /\ l <= m /\ n \in 0 .. l
            BY <1>9, <3>1, <4>1, <4>2
          <5>2. Before \in Nat /\ Before + n = end /\ a = Before + m
            BY <1>3, <3>1, <4>3
          <5> HIDE DEF l, m, a
          <5>3. n + 1 \in 1 .. m /\ Before + (n + 1) = end + 1 /\ end < a
            BY <5>1, <5>2
          <5> QED BY <5>3 DEF m, a
        <4>5. AllText[end + 1] = t[n + 1]
          BY <4>2, <4>3, <4>4
        <4>6. AllText[end + 1] # "C"
          BY <1>3, <1>6, <4>4, FirstStopIs, StopAtIs
        <4> QED BY <4>5, <4>6
      <3> HIDE DEF n
      <3>3. Decodable(Cut(t, n))
        BY <1>5, <1>8, <3>1, <3>2, CutIsDecodable
      <3>4. Decodable(c)
        BY <2>2, <3>3 DEF n
      <3> HIDE DEF c
      <3> QED BY <1>12, <3>4, DecodedIsItself
    <2> QED BY <2>1, <2>2
  <1>15. /\ Decoded(c) \in Text /\ Len(Decoded(c)) \in Nat /\ Len(Decoded(c)) <= Len(c) /\ Decodable(Decoded(c))
    <2> HIDE DEF c
    <2> QED BY <1>12, DecodedIsDecodable
  <1>16. sent' \in Text /\ Decodable(sent') /\ Len(sent') = Len(sent) + Len(Decoded(c))
    <2> HIDE DEF c
    <2> QED BY <1>1, <1>7, <1>15, ConcatIsDecodable, ConcatIsText
  <1>17. TypeInv'
    <2>1. returned' \in 0 .. Len(tokens) /\ phase' \in {"flush", "done"}
      BY <1>1, <1>3, <1>5
    <2> QED BY <1>1, <1>4, <1>7, <1>16, <2>1 DEF TypeInv, TypeOK
  <1>18. WholeInv'
    BY <1>1, <1>2, <1>4 DEF WholeInv
  <1>19. AnswerInv'
    BY <1>1, <1>2, <1>4 DEF AnswerInv, InLoop
  <1>20. FlushInv'
    <2> SUFFICES ASSUME ~last
                 PROVE  /\ Len(sent') <= Before' /\ Before' <= FirstStopAt
                        /\ WholeTokens => sent' = SentBytes'
      BY <1>1, <1>4 DEF FlushInv
    <2>1. Len(sent') <= Before' /\ Before' <= FirstStopAt
      <3>1. c = t
        OBVIOUS
      <3> HIDE DEF c
      <3> QED BY <1>3, <1>6, <1>9, <1>10, <1>15, <1>16, <3>1
    <2>2. WholeTokens => sent' = SentBytes'
      BY <1>1, <1>6, <1>10, <1>14
    <2> QED BY <2>1, <2>2
  <1>21. DoneInv'
    <2> SUFFICES ASSUME last
                 PROVE  /\ Len(sent') <= FirstStopAt
                        /\ WholeTokens => sent' = Cut(AllText, FirstStopAt)
      BY <1>1, <1>4 DEF DoneInv
    <2>1. Len(sent') <= FirstStopAt
      <3>1. Len(c) = end - Before
        BY <1>12
      <3> HIDE DEF c
      <3> QED BY <1>3, <1>6, <1>9, <1>15, <1>16, <3>1
    <2>2. WholeTokens => sent' = Cut(AllText, FirstStopAt)
      BY <1>1, <1>6, <1>13, <1>14
    <2> QED BY <2>1, <2>2
  <1>22. SentInv' /\ LookedInv' /\ HeldInv'
    BY <1>1 DEF SentInv, LookedInv, HeldInv, InLoop
  <1> QED BY <1>17, <1>18, <1>19, <1>20, <1>21, <1>22 DEF IInv

LEMMA FirstStopFound ==
  ASSUME stops \in StopLists, NEW b \in Text
  PROVE  /\ FirstStop(b) = {} <=> Found(stops, b) = {}
         /\ FirstStop(b) # {} =>
              LET s == stops[Min(FirstStop(b))]
              IN /\ Min(Occurrences(s, b)) \in 0 .. Len(b)
                 /\ Len(stops) <= 1 => Min(Occurrences(s, b)) = StopAt(stops, b)
  <1> DEFINE any == FirstStop(b)
             F == Found(stops, b)
             i0 == Min(any)
             O == Occurrences(stops[i0], b)
  <1>1. /\ DOMAIN stops = 1 .. Len(stops) /\ Len(stops) \in Nat
        /\ \A i \in DOMAIN stops : stops[i] \in Text
    BY StopsAre
  <1>2. any = {i \in DOMAIN stops : Occurrences(stops[i], b) # {}}
    BY DEF FirstStop
  <1>3. \A p : p \in F <=> \E i \in DOMAIN stops : p \in Occurrences(stops[i], b)
    BY DEF Found
  <1>4. any = {} <=> F = {}
    <2> HIDE DEF any, F
    <2> QED BY <1>2, <1>3
  <1>5. ASSUME any # {}
        PROVE  Min(O) \in 0 .. Len(b) /\ (Len(stops) <= 1 => Min(O) = StopAt(stops, b))
    <2>1. any \in SUBSET Nat
      BY <1>1, <1>2
    <2>2. i0 \in any
      <3> HIDE DEF any
      <3> QED BY <1>5, <2>1, LeastElement
    <2>3. i0 \in DOMAIN stops /\ O # {}
      <3> HIDE DEF i0
      <3> QED BY <1>2, <2>2
    <2>4. O \in SUBSET (0 .. Len(b)) /\ Len(b) \in Nat
      <3> HIDE DEF i0
      <3> QED BY <1>1, <2>3, OccurrencesAre, TextIs
    <2> HIDE DEF O, i0, any
    <2>5. O \in SUBSET Nat
      BY <2>4
    <2>6. Min(O) \in O /\ \A y \in O : Min(O) <= y
      BY <2>3, <2>5, LeastElement
    <2>7. ASSUME Len(stops) <= 1 PROVE Min(O) = StopAt(stops, b)
      <3>1. i0 = 1 /\ DOMAIN stops = {1}
        BY <1>1, <2>3, <2>7
      <3>2. F = O
        BY <1>3, <3>1 DEF O
      <3>3. StopAt(stops, b) = Min({Len(b)} \cup F)
        BY DEF StopAt
      <3>4. /\ StopAt(stops, b) \in 0 .. Len(b) /\ (\A p \in F : StopAt(stops, b) <= p)
            /\ StopAt(stops, b) = Len(b) \/ StopAt(stops, b) \in F
            /\ F \in SUBSET (0 .. Len(b) - 1)
        BY StopAtIs, FoundIs
      <3> DEFINE x == Min(O)
                 y == StopAt(stops, b)
      <3>5. x \in F /\ (\A p \in F : x <= p) /\ y <= x /\ x \in 0 .. Len(b) - 1
        BY <2>6, <3>2, <3>4
      <3>6. y \in 0 .. Len(b) /\ (y = Len(b) \/ y \in F)
        BY <3>4
      <3> HIDE DEF x, y, F
      <3>7. y \in F
        BY <2>4, <3>5, <3>6
      <3>8. x <= y
        BY <3>5, <3>7
      <3>9. x = y
        BY <2>4, <3>5, <3>6, <3>8
      <3> QED BY <3>9 DEF x, y
    <2> QED BY <2>4, <2>6, <2>7
  <1> QED BY <1>4, <1>5

LEMMA TokenKeeps == ASSUME IInv, Token PROVE IInv'
  <1>1. /\ phase = "token" /\ UNCHANGED <<stops, returned, sent>>
    BY DEF Token
  <1>2. PICK t \in Vocab :
          LET toks    == Append(tokens, t)
              bytes   == Bytes(toks)
              missing == Missing(bytes, fix)
              any     == FirstStop(bytes)
          IN /\ tokens' = toks
             /\ fix' = IF missing > 0 THEN missing - 1 ELSE 0
             /\ \/ missing > 0 /\ UNCHANGED <<phase, end, finish, text>>
                \/ /\ missing = 0 /\ any # {}
                   /\ Break("stop", toks, Cut(bytes, Min(Occurrences(stops[Min(any)], bytes))))
                \/ /\ missing = 0 /\ any = {}
                   /\ phase' = "emit" /\ UNCHANGED <<end, finish, text>>
    BY DEF Token
  <1> DEFINE toks == Append(tokens, t)
             b == Bytes(toks)
             missing == Missing(b, fix)
             any == FirstStop(b)
             stop == Min(Occurrences(stops[Min(any)], b))
             goesOn == missing > 0 /\ UNCHANGED <<phase, end, finish, text>>
             stopped == missing = 0 /\ any # {} /\ Break("stop", toks, Cut(b, stop))
             emits == missing = 0 /\ any = {} /\ phase' = "emit" /\ UNCHANGED <<end, finish, text>>
  <1>3. /\ tokens' = toks /\ fix' = (IF missing > 0 THEN missing - 1 ELSE 0)
        /\ goesOn \/ stopped \/ emits
    BY <1>2
  <1>4. TypeInv /\ SentInv /\ LookedInv /\ WholeInv
    BY DEF IInv
  <1>5. /\ stops \in StopLists /\ tokens \in Seq(Text) /\ Len(tokens) \in Nat /\ returned \in 0 .. Len(tokens)
        /\ DOMAIN tokens = 1 .. Len(tokens)
        /\ AllText \in Text /\ SentBytes \in Text /\ Before = Len(SentBytes) /\ Before \in Nat
        /\ Len(AllText) \in Nat /\ Before <= Len(AllText)
    BY <1>4, StateIs
  <1>6. TypeOK /\ sent \in Text /\ text \in Text /\ tokens \in Seq(Vocab) /\ fix \in 0 .. 2
    BY <1>4 DEF TypeInv, TypeOK
  <1>7. sent = SentBytes /\ Free(stops, AllText, Before)
    BY <1>1, <1>4 DEF SentInv, InLoop
  <1>8. t \in Text
    BY StreamAssumption DEF Text
  <1>9. /\ toks \in Seq(Text) /\ Len(toks) = Len(tokens) + 1
        /\ (\A i \in 1 .. Len(tokens) : toks[i] = tokens[i]) /\ toks[Len(tokens) + 1] = t
    BY <1>5, <1>8, AppendProperties
  <1>10. toks \in Seq(Vocab)
    BY <1>6, AppendProperties
  <1>11. b = AllText \o t /\ b \in Text
    <2>1. b = AllText \o t
      BY <1>5, <1>8, BytesOfAppend DEF AllText
    <2> QED BY <1>5, <1>8, <2>1, ConcatIsText
  <1>12. returned \in 0 .. Len(toks) /\ SubSeq(toks, 1, returned) = SubSeq(tokens, 1, returned)
    <2>1. returned \in 0 .. Len(toks) /\ \A k \in 1 .. returned : k \in 1 .. Len(tokens)
      BY <1>5, <1>9
    <2> HIDE DEF toks
    <2> DEFINE us == SubSeq(toks, 1, returned)
               vs == SubSeq(tokens, 1, returned)
    <2>2. us \in Seq(Text) /\ Len(us) = returned /\ \A k \in 1 .. returned : us[k] = toks[k]
      BY <1>9, <2>1, HeadOf
    <2>3. vs \in Seq(Text) /\ Len(vs) = returned /\ \A k \in 1 .. returned : vs[k] = tokens[k]
      BY <1>5, HeadOf
    <2> HIDE DEF us, vs
    <2>4. \A k \in 1 .. Len(us) : us[k] = vs[k]
      BY <1>9, <2>1, <2>2, <2>3
    <2>5. us = vs
      BY <2>2, <2>3, <2>4, SameSeq
    <2> QED BY <2>1, <2>5 DEF us, vs
  <1>13. AllText' = b /\ SentBytes' = SentBytes /\ Before' = Before
    <2>1. SubSeq(tokens', 1, returned') = SubSeq(tokens, 1, returned)
      BY <1>1, <1>3, <1>12
    <2>2. AllText' = b
      BY <1>3 DEF AllText
    <2> HIDE DEF toks
    <2> QED BY <2>1, <2>2 DEF SentBytes, Before
  <1>14. Free(stops, b, Before)
    BY <1>5, <1>7, <1>8, <1>11, FreeIsKept
  <1>15. WholeTokens' => WholeTokens /\ Decodable(t)
    <2> SUFFICES ASSUME WholeTokens' PROVE WholeTokens /\ Decodable(t)
      OBVIOUS
    <2>1. \A i \in DOMAIN toks : Decodable(toks[i])
      BY <1>3 DEF WholeTokens
    <2>2. DOMAIN toks = 1 .. Len(tokens) + 1
      <3> HIDE DEF toks
      <3> QED BY <1>9, VocabIsText, <1>10
    <2> HIDE DEF toks
    <2>3. Len(tokens) + 1 \in DOMAIN toks /\ \A i \in 1 .. Len(tokens) : i \in DOMAIN toks
      BY <1>5, <2>2
    <2>4. \A i \in DOMAIN tokens : Decodable(tokens[i])
      BY <1>5, <1>9, <2>1, <2>3
    <2>5. Decodable(t)
      BY <1>9, <2>1, <2>3
    <2> QED BY <2>4, <2>5 DEF WholeTokens
  <1>16. WholeTokens' => Decodable(b) /\ missing = 0
    <2> SUFFICES ASSUME WholeTokens' PROVE Decodable(b) /\ missing = 0
      OBVIOUS
    <2>1. Decodable(AllText) /\ fix = 0 /\ Decodable(t)
      BY <1>4, <1>15 DEF WholeInv
    <2>2. Decodable(b)
      BY <1>5, <1>8, <1>11, <2>1, ConcatIsDecodable
    <2> HIDE DEF b
    <2>3. missing = fix
      BY <1>6, <1>11, <2>2, MissingIs
    <2> QED BY <2>1, <2>2, <2>3
  <1>17. missing \in 0 .. 3
    <2> HIDE DEF b
    <2> QED BY <1>6, <1>11, MissingIs
  <1>18. FirstStopAt' = StopAt(stops, b)
    <2>1. FirstStopAt' = StopAt(stops', AllText')
      BY DEF FirstStopAt, StopAt, Found
    <2> QED BY <1>1, <1>13, <2>1
  <1>19. Found(stops, AllText)' = Found(stops, b) /\ Free(stops, AllText, Before)' = Free(stops, b, Before)
    BY <1>1, <1>13
  <1> HIDE DEF toks, b, missing
  <1>20. WholeInv'
    BY <1>3, <1>13, <1>16, <1>17 DEF WholeInv
  <1>21. SentInv'
    BY <1>1, <1>7, <1>13, <1>14, <1>19 DEF SentInv
  <1>22. fix' \in 0 .. 2 /\ returned' \in 0 .. Len(tokens') /\ tokens' \in Seq(Vocab) /\ stops' \in StopLists
    <2>1. fix' \in 0 .. 2
      BY <1>3, <1>17
    <2>2. tokens' = toks /\ returned' = returned /\ stops' = stops
      BY <1>1, <1>3
    <2>3. stops' \in StopLists
      BY <1>5, <2>2
    <2>4. returned' \in 0 .. Len(tokens') /\ tokens' \in Seq(Vocab)
      BY <1>10, <1>12, <2>2
    <2> QED BY <2>1, <2>3, <2>4
  <1>23. Len(b) \in Nat /\ Len(AllText) <= Len(b)
    <2>1. Len(t) \in Nat /\ Len(b) = Len(AllText) + Len(t)
      BY <1>5, <1>8, <1>11, ConcatIsText
    <2> QED BY <1>5, <2>1
  <1>24. end \in 0 .. Len(b)
    <2>1. end \in 0 .. Len(AllText)
      BY <1>6 DEF TypeOK
    <2> QED BY <1>5, <1>23, <2>1
  <1>25. CASE goesOn
    <2>1. TypeInv'
      BY <1>1, <1>6, <1>13, <1>22, <1>24, <1>25 DEF TypeInv, TypeOK
    <2>2. LookedInv'
      <3>1. ~WholeTokens'
        BY <1>16, <1>25
      <3> QED BY <1>1, <1>25, <3>1 DEF LookedInv
    <2>3. FlushInv' /\ DoneInv' /\ AnswerInv' /\ HeldInv'
      BY <1>1, <1>25 DEF FlushInv, DoneInv, AnswerInv, HeldInv, InLoop
    <2> QED BY <1>20, <1>21, <2>1, <2>2, <2>3 DEF IInv
  <1>26. CASE emits
    <2>1. TypeInv'
      BY <1>1, <1>3, <1>6, <1>13, <1>22, <1>24, <1>26 DEF TypeInv, TypeOK
    <2>2. LookedInv'
      BY <1>5, <1>11, <1>19, <1>26, FirstStopFound DEF LookedInv
    <2>3. FlushInv' /\ DoneInv' /\ AnswerInv' /\ HeldInv'
      BY <1>26 DEF FlushInv, DoneInv, AnswerInv, HeldInv, InLoop
    <2> QED BY <1>20, <1>21, <2>1, <2>2, <2>3 DEF IInv
  <1>27. CASE stopped
    <2>1. /\ finish' = "stop" /\ text' = Decoded(Cut(b, stop)) /\ phase' = "flush"
          /\ end' = StopAt(stops, b) /\ Before <= end' /\ end' \in 0 .. Len(b)
      <3>1. Break("stop", toks, Cut(b, stop))
        BY <1>27
      <3> HIDE DEF stop
      <3> QED BY <1>4, <1>9, <1>12, <1>14, <3>1, BreakIs DEF b
    <2>2. stop \in 0 .. Len(b) /\ (Len(stops) <= 1 => stop = StopAt(stops, b))
      BY <1>5, <1>11, <1>27, FirstStopFound
    <2> HIDE DEF stop
    <2>3. text' \in Text /\ Decodable(text')
      <3>1. Cut(b, stop) \in Text
        BY <1>11, <2>2, CutIs
      <3> QED BY <2>1, <3>1, DecodedIsDecodable
    <2>4. TypeInv'
      BY <1>1, <1>6, <1>13, <1>22, <2>1, <2>3 DEF TypeInv, TypeOK
    <2>5. AnswerInv'
      <3>1. ASSUME WholeTokens', Len(stops) <= 1 PROVE text' = Cut(b, StopAt(stops, b))
        <4>1. Decodable(b)
          BY <1>16, <3>1
        <4> QED BY <1>5, <1>11, <2>1, <2>2, <3>1, <4>1, CutAtStop
      <3> QED BY <1>1, <1>13, <1>18, <2>1, <3>1 DEF AnswerInv
    <2>6. FlushInv'
      BY <1>1, <1>5, <1>7, <1>13, <1>18, <2>1 DEF FlushInv
    <2>7. LookedInv' /\ DoneInv' /\ HeldInv'
      BY <2>1 DEF LookedInv, DoneInv, HeldInv
    <2> QED BY <1>20, <1>21, <2>4, <2>5, <2>6, <2>7 DEF IInv
  <1> QED BY <1>3, <1>25, <1>26, <1>27

LEMMA StutterKeeps == ASSUME IInv, UNCHANGED vars PROVE IInv'
  <1>1. UNCHANGED <<stops, tokens, fix, returned, sent, phase, end, finish, text>>
    BY DEF vars
  <1>2. /\ AllText' = AllText /\ FirstStopAt' = FirstStopAt /\ WholeTokens' = WholeTokens
        /\ Found(stops, AllText)' = Found(stops, AllText)
        /\ SentBytes' = SentBytes /\ Before' = Before /\ Remaining' = Remaining /\ MayEmit' = MayEmit
    BY <1>1, SameText
  <1>3. Free(stops, AllText, Before)' = Free(stops, AllText, Before)
    BY <1>1, <1>2
  <1>4. /\ TypeInv /\ SentInv /\ LookedInv /\ WholeInv
        /\ FlushInv /\ DoneInv /\ AnswerInv /\ HeldInv
    BY DEF IInv
  <1>5. TypeInv' /\ WholeInv'
    BY <1>1, <1>2, <1>4 DEF TypeInv, TypeOK, WholeInv
  <1>6. SentInv' /\ LookedInv'
    BY <1>1, <1>2, <1>3, <1>4 DEF SentInv, LookedInv, InLoop
  <1>7. FlushInv' /\ DoneInv' /\ AnswerInv'
    BY <1>1, <1>2, <1>4 DEF FlushInv, DoneInv, AnswerInv, InLoop
  <1>8. HeldInv'
    BY <1>1, <1>2, <1>4 DEF HeldInv
  <1> QED BY <1>5, <1>6, <1>7, <1>8 DEF IInv

LEMMA StreamInvariant == Spec => []IInv
  <1>1. Init => IInv
    BY InitIsIn
  <1>2. ASSUME IInv, [Next]_vars PROVE IInv'
    <2>1. CASE EndOfGeneration
      BY <1>2, <2>1, EndOfGenerationKeeps
    <2>2. CASE Token
      BY <1>2, <2>2, TokenKeeps
    <2>3. CASE Emit
      BY <1>2, <2>3, EmitKeeps
    <2>4. CASE Hold
      BY <1>2, <2>4, HoldKeeps
    <2>5. CASE Limit
      BY <1>2, <2>5, LimitKeeps
    <2>6. CASE Flush
      BY <1>2, <2>6, FlushKeeps
    <2>7. CASE NothingRemains
      BY <1>2, <2>7, NothingRemainsKeeps
    <2>8. CASE UNCHANGED vars
      BY <1>2, <2>8, StutterKeeps
    <2> QED BY <1>2, <2>1, <2>2, <2>3, <2>4, <2>5, <2>6, <2>7, <2>8 DEF Next
  <1> QED BY <1>1, <1>2, PTL DEF Spec

-----------------------------------------------------------------------------
(* The theorems *)

\* _create_completion: what is yielded and returned are whole characters, and the
\* flush ends inside the text.
THEOREM StreamTypes == Spec => []TypeOK
  <1>1. IInv => TypeOK
    BY DEF IInv, TypeInv
  <1> QED BY <1>1, StreamInvariant, PTL

\* No chunk has bytes of a stop sequence, whatever tokens follow it and however they
\* split the stop sequence and its characters.
THEOREM StopsHeldBack == Spec => []StopsAreHeldBack
  <1>1. ASSUME IInv PROVE StopsAreHeldBack
    <2>1. TypeInv /\ SentInv /\ FlushInv /\ DoneInv
      BY <1>1 DEF IInv
    <2>2. /\ stops \in StopLists /\ AllText \in Text /\ SentBytes \in Text /\ Bytes(Remaining) \in Text
          /\ AllText = SentBytes \o Bytes(Remaining) /\ Before = Len(SentBytes) /\ Before \in Nat
          /\ Len(AllText) \in Nat /\ Before <= Len(AllText) /\ FirstStopAt \in 0 .. Len(AllText)
      BY <2>1, StateIs
    <2>3. sent \in Text /\ Len(sent) \in Nat /\ phase \in {"token", "emit", "limit", "flush", "done"}
      BY <2>1, TextIs DEF TypeInv, TypeOK
    <2>4. SentBytes = Cut(AllText, Before)
      <3>1. Before \in 0 .. Len(SentBytes)
        BY <2>2
      <3>2. Cut(SentBytes, Before) = SentBytes
        BY <2>2, CutAll
      <3> QED BY <2>2, <3>1, <3>2, CutOfLonger
    <2>5. CASE InLoop
      <3>1. sent = SentBytes /\ Free(stops, AllText, Before)
        BY <2>1, <2>5 DEF SentInv
      <3>2. Before <= FirstStopAt
        <4>1. /\ FirstStopAt = StopAt(stops, AllText)
              /\ StopAt(stops, AllText) = Len(AllText) \/ StopAt(stops, AllText) \in Found(stops, AllText)
          BY <2>2, FirstStopIs, StopAtIs
        <4> QED BY <2>2, <3>1, <4>1, FreeOfStops
      <3> QED BY <2>2, <2>4, <3>1, <3>2 DEF StopsAreHeldBack
    <2>6. CASE phase = "flush"
      BY <2>1, <2>2, <2>3, <2>6 DEF FlushInv, StopsAreHeldBack
    <2>7. CASE phase = "done"
      BY <2>1, <2>7 DEF DoneInv, StopsAreHeldBack
    <2> QED BY <2>3, <2>5, <2>6, <2>7 DEF InLoop
  <1> QED BY <1>1, StreamInvariant, PTL

\* The chunks of a stream together are the text before the earliest stop sequence.
THEOREM StreamHasAllText == Spec => []StreamIsWhole
  <1>1. IInv => StreamIsWhole
    BY DEF IInv, DoneInv, StreamIsWhole
  <1> QED BY <1>1, StreamInvariant, PTL

\* With stream and without, _create_completion gives the same answer.
THEOREM StreamHasSameAnswer == Spec => []StreamIsAnswer
  <1>1. IInv => StreamIsAnswer
    BY DEF IInv, DoneInv, AnswerInv, InLoop, StreamIsAnswer
  <1> QED BY <1>1, StreamInvariant, PTL

\* Text is kept back only where what follows may make it part of a stop sequence.
THEOREM ChunksAreSentAtOnce == Spec => []NothingHeldNeedlessly
  <1>1. ASSUME IInv, phase = "limit", Groups # {}
        PROVE  \E i \in DOMAIN stops : \E k \in 0 .. Len(stops[i]) :
                 StopAt(stops, AllText \o SubSeq(stops[i], k + 1, Len(stops[i]))) < Before + Len(Group)
    <2> DEFINE rest == Bytes(Remaining)
               a == AllText
               h == Held
               g == Len(Group)
    <2>1. TypeInv /\ ~MayEmit
      BY <1>1 DEF IInv, HeldInv
    <2>2. /\ stops \in StopLists /\ a \in Text /\ SentBytes \in Text /\ rest \in Text
          /\ a = SentBytes \o rest /\ Before = Len(SentBytes) /\ Before \in Nat /\ Len(a) \in Nat
          /\ Remaining \in Seq(Text)
      BY <2>1, StateIs
    <2>3. /\ Len(rest) \in Nat /\ Len(a) = Before + Len(rest)
          /\ \A k \in 1 .. Len(rest) : a[Before + k] = rest[k]
      BY <2>2, ConcatIsText
    <2>4. /\ h \in 0 .. Len(rest)
          /\ h > 0 => \E i \in DOMAIN stops :
               h \in 1 .. Len(stops[i]) /\ \A k \in 1 .. h : rest[Len(rest) - h + k] = stops[i][k]
      BY <2>2, HeldIs
    <2>5. g \in Nat /\ g <= Len(rest)
      BY <1>1, <2>2, GroupIs
    <2>6. ~(Before + g <= Len(a) - h)
      BY <1>1, <2>1 DEF MayEmit
    <2> HIDE DEF rest, a, h, g
    <2>7. h > 0
      BY <2>2, <2>3, <2>4, <2>5, <2>6
    <2>8. PICK i \in DOMAIN stops :
            h \in 1 .. Len(stops[i]) /\ \A k \in 1 .. h : rest[Len(rest) - h + k] = stops[i][k]
      BY <2>4, <2>7
    <2> DEFINE s == stops[i]
               l == Len(s)
               u == SubSeq(s, h + 1, l)
               t == a \o u
               q == Len(a) - h
    <2>9. s \in Text /\ l \in Nat /\ h \in 0 .. l
      BY <2>2, <2>4, <2>8, StopsAre
    <2> HIDE DEF s
    <2>10. u \in Text /\ Len(u) = l - h /\ \A k \in 1 .. l - h : u[k] = s[h + k]
      BY <2>9, TailOf DEF Text
    <2> HIDE DEF l, u
    <2>11. /\ t \in Text /\ Len(t) = Len(a) + (l - h)
           /\ (\A k \in 1 .. Len(a) : t[k] = a[k]) /\ \A k \in 1 .. l - h : t[Len(a) + k] = u[k]
      <3>1. /\ t \in Text /\ Len(t) = Len(a) + Len(u)
            /\ \A k \in 1 .. Len(a) : t[k] = a[k]
            /\ \A k \in 1 .. Len(u) : t[Len(a) + k] = u[k]
        BY <2>2, <2>10, ConcatIsText
      <3> HIDE DEF t
      <3> QED BY <2>10, <3>1
    <2> HIDE DEF t
    <2>12. q \in Nat /\ q + l = Len(t) /\ q < Before + g
      BY <2>2, <2>3, <2>4, <2>5, <2>6, <2>9, <2>11
    <2>13. ASSUME NEW k \in 1 .. l PROVE t[q + k] = s[k]
      <3>1. CASE k <= h
        <4>1. /\ k \in 1 .. h /\ q + k \in 1 .. Len(a) /\ Len(rest) - h + k \in 1 .. Len(rest)
              /\ Before + (Len(rest) - h + k) = q + k
          BY <2>2, <2>3, <2>4, <2>9, <3>1
        <4>2. t[q + k] = a[q + k] /\ a[q + k] = rest[Len(rest) - h + k]
          BY <2>3, <2>11, <4>1
        <4> QED BY <2>8, <4>1, <4>2 DEF s
      <3>2. CASE ~(k <= h)
        <4>1. k - h \in 1 .. l - h /\ Len(a) + (k - h) = q + k /\ h + (k - h) = k
          BY <2>2, <2>4, <2>9, <3>2
        <4> QED BY <2>10, <2>11, <4>1
      <3> QED BY <3>1, <3>2
    <2> HIDE DEF q
    <2>14. q \in Found(stops, t)
      <3>1. q + Len(stops[i]) <= Len(t) /\ \A k \in 1 .. Len(stops[i]) : t[q + k] = stops[i][k]
        <4>1. q + l <= Len(t) /\ \A k \in 1 .. l : t[q + k] = s[k]
          BY <2>9, <2>11, <2>12, <2>13
        <4> QED BY <4>1 DEF s, l
      <3> QED BY <2>2, <2>11, <2>12, <3>1, FoundIs
    <2>15. StopAt(stops, t) <= q /\ StopAt(stops, t) \in 0 .. Len(t)
      BY <2>2, <2>11, <2>14, StopAtIs
    <2>16. StopAt(stops, t) < Before + g
      <3> DEFINE m == StopAt(stops, t)
      <3>1. m <= q /\ m \in 0 .. Len(t)
        BY <2>15
      <3> HIDE DEF m
      <3> QED BY <2>2, <2>5, <2>11, <2>12, <3>1 DEF m
    <2>17. h \in 0 .. Len(stops[i])
      BY <2>9 DEF s, l
    <2>18. StopAt(stops, AllText \o SubSeq(stops[i], h + 1, Len(stops[i]))) < Before + Len(Group)
      BY <2>16 DEF t, u, l, s, a, g
    <2> QED BY <2>17, <2>18
  <1>2. IInv => NothingHeldNeedlessly
    BY <1>1 DEF NothingHeldNeedlessly
  <1> QED BY <1>2, StreamInvariant, PTL

=============================================================================
