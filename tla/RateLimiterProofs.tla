-------------------------- MODULE RateLimiterProofs --------------------------
(***************************************************************************)
(* Theorems about RateLimiter, for every rate, bucket and length of ticks. *)
(***************************************************************************)
EXTENDS RateLimiterProps, TLAPS

\* A period in which no credit was added lives on what was there before.  If it has
\* taken a token, the credit from before the period that is still to come is less
\* than a token; otherwise it is clipped together with the rest.
Spendings ==
  since # Never =>
    IF last # Never /\ since <= last
      THEN Token * taken + available <= Size + Rate * (last - since)
      ELSE /\ Token * taken + available <= Size - Token
           /\ taken > 0 => last # Never /\ Rate * (since - last) < Token

\* Before the first call.
Untouched == first = Never => granted = 0 /\ available = 0

Inv == TypeOK /\ CreditKept /\ Spendings /\ Untouched

------------------------------------------------------------------------------

LEMMA RateTimes ==
  ASSUME NEW a \in Nat, NEW b \in Nat, a <= b
  PROVE  Rate * (b - a) \in Nat
<1>1. b - a \in Nat /\ Rate \in Nat
  BY BucketAssumption
<1>. QED BY <1>1

LEMMA RateSum ==
  ASSUME NEW a \in Nat, NEW b \in Nat, NEW c \in Nat
  PROVE  Rate * (c - a) = Rate * (b - a) + Rate * (c - b)
BY BucketAssumption

LEMMA TokenStep ==
  ASSUME NEW n \in Nat
  PROVE  Token * (n + 1) = Token * n + Token /\ Token * n \in Nat
BY BucketAssumption

------------------------------------------------------------------------------

LEMMA InitInv == Init => Inv
<1>1. Size - Token \in Nat
  BY BucketAssumption
<1>2. 0 \in 0 .. Size - Token
  BY <1>1
<1>3. ASSUME Init PROVE TypeOK
  <2>1. now \in Nat /\ granted \in Nat /\ taken \in Nat /\ clipped \in BOOLEAN
    BY <1>3 DEF Init
  <2>2. available \in 0 .. Size - Token
    BY <1>2, <1>3 DEF Init
  <2>. QED BY <1>3, <2>1, <2>2 DEF Init, TypeOK
<1>. QED BY <1>3 DEF Init, Inv, CreditKept, Spendings, Untouched

LEMMA TickInv == Inv /\ Tick => Inv'
<1>. SUFFICES ASSUME Inv, Tick PROVE Inv'
  OBVIOUS
<1>1. now \in Nat /\ now' = now + 1 /\ UNCHANGED <<bucket, first, granted, clipped, window>>
  BY DEF Tick, Inv, TypeOK
<1>2. TypeOK'
  BY <1>1, BucketAssumption DEF Inv, TypeOK, bucket, window
<1>3. CreditKept' /\ Spendings' /\ Untouched'
  BY <1>1 DEF Inv, CreditKept, Spendings, Untouched, bucket, window
<1>. QED BY <1>2, <1>3 DEF Inv

LEMMA OpenInv == Inv /\ Open => Inv'
<1>. SUFFICES ASSUME Inv, Open PROVE Inv'
  OBVIOUS
<1>1. TypeOK' /\ CreditKept' /\ Untouched'
  BY BucketAssumption DEF Open, Inv, TypeOK, CreditKept, Untouched, bucket
<1>2. /\ taken' = 0 /\ since' = now /\ last' = last /\ available' = available
      /\ now \in Nat /\ available \in Nat /\ available <= Size - Token
      /\ last # Never => last \in Nat /\ last <= now
  BY BucketAssumption DEF Open, Inv, TypeOK, bucket
<1>3. Token * taken' = 0 /\ (last # Never /\ now <= last => Rate * (last - now) = 0)
  BY <1>2, BucketAssumption
<1>4. Spendings'
  BY <1>2, <1>3, BucketAssumption DEF Spendings
<1>. QED BY <1>1, <1>4 DEF Inv

\* What a call of _consume sees: the credit is within the bucket, and never more than
\* was there and the rate has added.
LEMMA CreditFacts ==
  ASSUME TypeOK
  PROVE  /\ From \in Nat /\ From <= now
         /\ Rate * (now - From) \in Nat
         /\ Earned <=> Rate * (now - From) >= Token
         /\ Credit \in 0 .. Size
         /\ Earned => Credit = IF available + Rate * (now - From) > Size THEN Size
                                ELSE available + Rate * (now - From)
         /\ ~Earned => Credit = available
         /\ Earned => Credit >= Token
<1>1. From \in Nat /\ From <= now
  BY BucketAssumption DEF TypeOK, From
<1>2. Rate * (now - From) \in Nat /\ (now - From) * Rate = Rate * (now - From)
  BY <1>1, RateTimes, BucketAssumption DEF TypeOK
<1>. HIDE DEF From
<1>3. Earned <=> Rate * (now - From) >= Token
  BY <1>2 DEF Earned
<1>. DEFINE e == Rate * (now - From)
<1>4. e \in Nat /\ available + (now - From) * Rate = available + e
  BY <1>2
<1>. HIDE DEF e
<1>5. Credit = IF Earned THEN (IF available + e > Size THEN Size ELSE available + e) ELSE available
  BY <1>4, BucketAssumption DEF Credit, Clip, Lesser, TypeOK
<1>6. Earned <=> e >= Token
  BY <1>3 DEF e
<1>7. Credit \in 0 .. Size /\ (Earned => Credit >= Token)
  BY <1>4, <1>5, <1>6, BucketAssumption DEF TypeOK
<1>. QED BY <1>1, <1>2, <1>3, <1>5, <1>7 DEF e

LEMMA ConsumeInv == Inv /\ Consume => Inv'
<1>. SUFFICES ASSUME Inv, Consume PROVE Inv'
  OBVIOUS
<1>1. /\ From \in Nat /\ From <= now
      /\ Rate * (now - From) \in Nat
      /\ Earned <=> Rate * (now - From) >= Token
      /\ Credit \in 0 .. Size
      /\ Earned => Credit = IF available + Rate * (now - From) > Size THEN Size
                             ELSE available + Rate * (now - From)
      /\ ~Earned => Credit = available
      /\ Earned => Credit >= Token
  BY CreditFacts DEF Inv
<1>2. /\ now \in Nat /\ granted \in Nat /\ taken \in Nat /\ available \in Nat
      /\ available <= Size - Token /\ Token \in Nat \ {0} /\ Size \in Nat /\ Size >= Token
      /\ Never \notin Nat
      /\ Token * granted \in Nat /\ Token * taken \in Nat
      /\ Token * (granted + 1) = Token * granted + Token
      /\ Token * (taken + 1) = Token * taken + Token
  BY BucketAssumption, TokenStep DEF Inv, TypeOK
<1>3. /\ last' = IF Earned THEN now ELSE From
      /\ first' = IF first = Never THEN now ELSE first
      /\ clipped' = (clipped \/ (Earned /\ available + (now - From) * Rate > Size))
      /\ now' = now /\ since' = since
  BY DEF Consume, LastAfter
<1>4. /\ available' = IF Credit >= Token THEN Credit - Token ELSE Credit
      /\ granted' = IF Credit >= Token THEN granted + 1 ELSE granted
      /\ taken' = IF Credit >= Token /\ since # Never THEN taken + 1 ELSE taken
  BY DEF Consume
<1>5. available' \in Nat /\ available' <= Size - Token
  BY <1>1, <1>2, <1>4
<1>6. From = IF last = Never THEN now ELSE last
  BY DEF From
<1>7. /\ first = Never <=> last = Never
      /\ first # Never => first \in Nat /\ last \in Nat /\ first <= last /\ last <= now
      /\ since # Never => since \in Nat /\ since <= now
      /\ clipped \in BOOLEAN
  BY BucketAssumption DEF Inv, TypeOK
<1>8. TypeOK'
  <2>1. now' \in Nat /\ granted' \in Nat /\ taken' \in Nat /\ available' \in 0 .. Size - Token
    BY <1>2, <1>3, <1>4, <1>5
  <2>2. clipped' \in BOOLEAN
    BY <1>3, <1>7
  <2>3. last' \in Nat /\ last' <= now /\ first' \in Nat /\ first' <= last'
    <3>1. last' \in {now, From}
      BY <1>3
    <3>2. CASE first = Never
      BY <1>2, <1>3, <1>6, <1>7, <3>1, <3>2
    <3>3. CASE first # Never
      BY <1>2, <1>3, <1>6, <1>7, <3>1, <3>3
    <3>. QED BY <3>2, <3>3
  <2>4. since' # Never => since' \in 0 .. now'
    BY <1>2, <1>3, <1>7
  <2>5. now' \in Nat /\ first' # Never /\ last' # Never /\ last' \in first' .. now'
    <3>1. now' = now /\ first' # Never /\ last' # Never
      BY <1>2, <1>3, <2>3
    <3>. QED BY <1>2, <2>3, <3>1
  <2>. QED BY <2>1, <2>2, <2>3, <2>4, <2>5 DEF TypeOK
\* What is taken now comes from the credit, whoever takes it.
<1>9. Token * granted' + available' = Token * granted + Credit
  BY <1>1, <1>2, <1>4
<1>10. since # Never => Token * taken' + available' = Token * taken + Credit
  BY <1>1, <1>2, <1>4
<1>11. CreditKept'
  <2>1. CASE first = Never
    <3>1. From = now /\ Rate * (now - From) = 0
      BY <1>2, <1>6, <1>7, <2>1, BucketAssumption
    <3>2. ~Earned /\ last' = now /\ first' = now /\ clipped' = clipped
      BY <1>1, <1>2, <1>3, <1>7, <2>1, <3>1
    <3>3. Credit = 0 /\ granted = 0
      BY <1>1, <3>2, <2>1 DEF Inv, Untouched
    <3>. QED BY <1>2, <1>9, <3>1, <3>2, <3>3 DEF CreditKept
  <2>2. CASE first # Never
    <3>1. From = last /\ first' = first /\ first \in Nat /\ last \in Nat
      BY <1>6, <1>7, <2>2, <1>3
    <3>2. Rate * (now - first) = Rate * (last - first) + Rate * (now - last)
      BY <1>2, <3>1, BucketAssumption
    <3>3. (now - From) * Rate = Rate * (now - From)
      BY <1>1, <1>2, BucketAssumption
    <3>4. CASE Earned
      <4>1. Rate * (last - first) \in Nat /\ Rate * (now - last) \in Nat /\ Rate * (now - first) \in Nat
        BY <1>1, <1>2, <1>7, <2>2, <3>1, <3>2, RateTimes
      <4>2. /\ Token * granted + available <= Rate * (last - first)
            /\ ~clipped => Token * granted + available = Rate * (last - first)
        BY <2>2 DEF Inv, CreditKept
      <4>3. last' = now /\ clipped' = (clipped \/ available + Rate * (now - last) > Size)
        BY <1>3, <3>1, <3>3, <3>4
      <4>4. Credit = IF available + Rate * (now - last) > Size THEN Size ELSE available + Rate * (now - last)
        BY <1>1, <3>1, <3>4
      <4>5. Token * granted' + available' <= Rate * (now - first)
        BY <1>1, <1>2, <1>9, <3>2, <4>1, <4>2, <4>4
      <4>6. ASSUME ~clipped' PROVE Token * granted' + available' = Rate * (now - first)
        <5>1. ~clipped /\ ~(available + Rate * (now - last) > Size)
          BY <4>3, <4>6, Zenon
        <5>2. Credit = available + Rate * (now - last) /\ Token * granted + available = Rate * (last - first)
          BY <4>2, <4>4, <5>1
        <5>. QED BY <1>2, <1>9, <3>2, <4>1, <5>2
      <4>. QED BY <3>1, <4>3, <4>5, <4>6 DEF CreditKept
    <3>5. CASE ~Earned
      BY <1>1, <1>2, <1>3, <1>9, <2>2, <3>1, <3>5 DEF Inv, CreditKept
    <3>. QED BY <3>4, <3>5
  <2>. QED BY <2>1, <2>2
<1>12. Spendings'
  <2>. SUFFICES ASSUME since # Never PROVE Spendings'
    BY <1>3 DEF Spendings
  <2>1. since \in Nat /\ since <= now
    BY <1>7
  <2>. DEFINE Late == last # Never /\ since <= last
  <2>2. CASE Earned
    <3>1. last # Never /\ last \in Nat /\ From = last /\ last' = now
      BY <1>1, <1>2, <1>3, <1>6, <1>7, <2>2, BucketAssumption
    <3>2. Rate * (now - since) \in Nat
      BY <1>2, <2>1, RateTimes
    <3>3. Token * taken' + available' <= Size + Rate * (now - since)
      <4>1. CASE Late
        <5>1. Rate * (now - since) = Rate * (last - since) + Rate * (now - last)
          BY <1>2, <2>1, <3>1, BucketAssumption
        <5>2. Rate * (last - since) \in Nat /\ Rate * (now - last) \in Nat
          BY <1>2, <1>7, <2>1, <3>1, <4>1, RateTimes
        <5>3. Token * taken + available <= Size + Rate * (last - since)
          BY <4>1 DEF Inv, Spendings
        <5>4. Credit <= available + Rate * (now - last)
          BY <1>1, <1>2, <2>2, <3>1
        <5>. HIDE DEF Late
        <5>. QED BY <1>1, <1>2, <1>10, <3>2, <5>1, <5>2, <5>3, <5>4
      <4>2. CASE ~Late /\ taken = 0
        <5>1. Token * taken = 0
          BY <1>2, <4>2
        <5>. QED BY <1>1, <1>10, <3>2, <5>1, <1>2
      <4>3. CASE ~Late /\ taken # 0
        <5>1. Token * taken + available <= Size - Token /\ Rate * (since - last) < Token
          BY <4>3, <1>2 DEF Inv, Spendings
        <5>2. Rate * (now - last) = Rate * (since - last) + Rate * (now - since)
          BY <1>2, <2>1, <3>1, BucketAssumption
        <5>3. Credit <= available + Rate * (now - last)
          BY <1>1, <1>2, <2>2, <3>1
        <5>4. Rate * (since - last) \in Nat
          BY <2>1, <3>1, <4>3, RateTimes
        <5>. HIDE DEF Late
        <5>. QED BY <1>1, <1>2, <1>10, <3>2, <5>1, <5>2, <5>3, <5>4
      <4>. QED BY <4>1, <4>2, <4>3
    <3>. QED BY <1>3, <3>1, <3>3, <2>1, <1>7, <1>2 DEF Spendings
  <2>3. CASE ~Earned
    <3>1. Token * taken' + available' = Token * taken + available
      BY <1>1, <1>10, <2>3
    <3>2. CASE last = Never
      <4>1. last' = now /\ taken = 0 /\ available <= Size - Token
        BY <1>2, <1>3, <1>6, <2>1, <2>3, <3>2 DEF Inv, Spendings
      <4>2. Rate * (now - since) \in Nat
        BY <1>2, <2>1, RateTimes
      <4>3. Token * taken = 0
        BY <4>1, <1>2
      <4>. QED BY <1>2, <1>3, <3>1, <4>1, <4>2, <4>3, <2>1, <1>5, <1>7 DEF Spendings
    <3>3. CASE last # Never
      <4>1. last' = last /\ From = last /\ last \in Nat
        BY <1>3, <1>6, <1>7, <2>3, <3>3
      <4>2. CASE Late
        BY <1>3, <3>1, <3>3, <4>1, <4>2 DEF Inv, Spendings
      <4>3. CASE ~Late
        <5>1. Rate * (now - last) = Rate * (since - last) + Rate * (now - since)
          BY <1>2, <2>1, <4>1, BucketAssumption
        <5>2. Rate * (now - since) \in Nat /\ Rate * (since - last) \in Nat
          BY <1>2, <2>1, <3>3, <4>1, <4>3, RateTimes
        <5>3. Rate * (since - last) < Token
          BY <1>1, <1>2, <2>3, <4>1, <5>1, <5>2
        <5>4. Token * taken + available <= Size - Token
          BY <3>3, <4>3 DEF Inv, Spendings
        <5>. QED BY <1>3, <3>1, <3>3, <4>1, <4>3, <5>3, <5>4 DEF Spendings
      <4>. QED BY <4>2, <4>3
    <3>. QED BY <3>2, <3>3
  <2>. QED BY <2>2, <2>3
<1>13. Untouched'
  BY <1>2, <1>3 DEF Untouched
<1>. QED BY <1>8, <1>11, <1>12, <1>13 DEF Inv

LEMMA StepInv == Inv /\ [Next]_vars => Inv'
<1>1. ASSUME Inv, UNCHANGED vars PROVE Inv'
  BY <1>1 DEF vars, Inv, TypeOK, CreditKept, Spendings, Untouched
<1>. QED BY <1>1, TickInv, OpenInv, ConsumeInv DEF Next

------------------------------------------------------------------------------
(* The theorems. *)

THEOREM Invariance == Spec => []Inv
BY InitInv, StepInv, PTL DEF Spec

\* After every call the bucket has room for the token that a full one would have given.
THEOREM LimiterTypes == Spec => []TypeOK
<1>1. Inv => TypeOK
  BY DEF Inv
<1>. QED BY <1>1, Invariance, PTL

\* The rate and the burst are kept over every period, whenever it begins and however
\* often _consume is called.
THEOREM RateIsKept == Spec => []RateKept
<1>1. Inv => RateKept
  <2>. SUFFICES ASSUME Inv, since # Never PROVE Token * taken <= Size + Rate * (now - since)
    BY DEF RateKept
  <2>1. /\ Size \in Nat /\ available \in Nat /\ since \in Nat /\ now \in Nat /\ since <= now
        /\ Token \in Nat /\ Token * taken \in Nat
    BY BucketAssumption, TokenStep DEF Inv, TypeOK
  <2>2. Rate * (now - since) \in Nat
    BY <2>1, RateTimes
  <2>3. CASE last # Never /\ since <= last
    <3>1. last \in Nat /\ last <= now
      BY <2>3, BucketAssumption DEF Inv, TypeOK
    <3>2. Rate * (now - since) = Rate * (last - since) + Rate * (now - last)
      BY <2>1, <3>1, BucketAssumption
    <3>3. Rate * (now - last) \in Nat /\ Rate * (last - since) \in Nat
      BY <2>1, <2>3, <3>1, RateTimes
    <3>4. Token * taken + available <= Size + Rate * (last - since)
      BY <2>3 DEF Inv, Spendings
    <3>. QED BY <2>1, <2>2, <3>2, <3>3, <3>4
  <2>4. CASE ~(last # Never /\ since <= last)
    <3>1. Token * taken + available <= Size - Token
      BY <2>4 DEF Inv, Spendings
    <3>. QED BY <2>1, <2>2, <3>1
  <2>. QED BY <2>3, <2>4
<1>. QED BY <1>1, Invariance, PTL

\* Nothing is granted on credit from before the first call, and as long as nothing was
\* clipped every part of the credit is given out or kept.
THEOREM CreditIsKept == Spec => []CreditKept
<1>1. Inv => CreditKept
  BY DEF Inv
<1>. QED BY <1>1, Invariance, PTL
=============================================================================
