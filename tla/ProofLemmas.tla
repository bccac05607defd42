------------------------------ MODULE ProofLemmas ------------------------------
(***************************************************************************)
(* Facts about the operators of the community modules that the proofs      *)
(* about several components need: least and greatest elements, parts of  *)
(* sequences, counting.                                                    *)
(***************************************************************************)
EXTENDS Integers, Sequences, FiniteSetsExt, SequenceTheorems, FiniteSetTheorems, TLAPS

-----------------------------------------------------------------------------
(* Least and greatest elements *)

\* Min is the least element of a set of naturals.
LEMMA LeastElement ==
  ASSUME NEW S \in SUBSET Nat, S # {}
  PROVE  Min(S) \in S /\ \A y \in S : Min(S) <= y
  <1>1. PICK n0 \in S : TRUE
    OBVIOUS
  <1> DEFINE U == 0 .. n0
             R == StrictSubsetOrdering(U)
             T == {0 .. x : x \in {y \in S : y <= n0}}
  <1>2. IsWellFoundedOn(R, SUBSET U)
    <2>1. IsFiniteSet(U)
      BY FS_Interval
    <2>2. FiniteSubsetsOf(U) = SUBSET U
      BY <2>1, FS_FiniteSubsetsOfFinite
    <2> QED BY <2>2, FS_StrictSubsetOrderingWellFounded
  <1>3. T \subseteq SUBSET U /\ T # {}
    BY <1>1
  <1>4. PICK t \in T : \A y \in T : ~ (<<y, t>> \in R)
    <2> HIDE DEF R, T, U
    <2> QED BY <1>2, <1>3, WFMin
  <1>5. PICK x \in S : x <= n0 /\ t = 0 .. x
    OBVIOUS
  <1>6. ASSUME NEW y \in S, y < x PROVE FALSE
    <2>1. 0 .. y \in T /\ 0 .. y \in SUBSET U /\ 0 .. x \in SUBSET U
      BY <1>5, <1>6
    <2>2. 0 .. y \subseteq 0 .. x /\ x \in 0 .. x /\ x \notin 0 .. y
      BY <1>6
    <2>3. <<0 .. y, 0 .. x>> \in R
      BY <2>1, <2>2 DEF StrictSubsetOrdering
    <2> QED BY <2>1, <2>3, <1>4, <1>5
  <1>7. \A y \in S : x <= y
    BY <1>6, <1>5
  <1> QED BY <1>7 DEF Min

\* Max is the greatest element of a bounded set of naturals.
LEMMA GreatestElement ==
  ASSUME NEW b \in Nat, NEW S \in SUBSET (0 .. b), S # {}
  PROVE  Max(S) \in S /\ \A y \in S : Max(S) >= y
  <1> DEFINE T == {b - y : y \in S}
  <1>1. T \in SUBSET Nat /\ T # {}
    <2>1. \A y \in S : y \in 0 .. b
      OBVIOUS
    <2>2. \A y \in S : b - y \in Nat
      BY <2>1
    <2> QED BY <2>2
  <1>2. PICK t \in T : \A z \in T : t <= z
    <2> HIDE DEF T
    <2> QED BY <1>1, LeastElement
  <1>3. PICK x \in S : t = b - x
    OBVIOUS
  <1>4. ASSUME NEW y \in S PROVE x >= y
    <2>1. t <= b - y
      BY <1>2
    <2> QED BY <2>1, <1>3
  <1> QED BY <1>4 DEF Max

LEMMA MinOfTwo ==
  ASSUME NEW a \in Nat, NEW b \in Nat
  PROVE  /\ Min({a, b}) \in Nat /\ Min({a, b}) <= a /\ Min({a, b}) <= b
         /\ Min({a, b}) = IF a <= b THEN a ELSE b
  <1>1. Min({a, b}) \in {a, b} /\ \A y \in {a, b} : Min({a, b}) <= y
    <2>1. {a, b} \in SUBSET Nat /\ {a, b} # {}
      OBVIOUS
    <2> QED BY <2>1, LeastElement
  <1> QED BY <1>1

-----------------------------------------------------------------------------
(* Parts of sequences *)

LEMMA SubSeqOf ==
  ASSUME NEW S, NEW s \in Seq(S), NEW i \in Nat \ {0}, NEW j \in Nat,
         i <= j + 1, j <= Len(s)
  PROVE  /\ SubSeq(s, i, j) \in Seq(S)
         /\ Len(SubSeq(s, i, j)) = j - i + 1
         /\ \A k \in 1 .. j - i + 1 : SubSeq(s, i, j)[k] = s[i + k - 1]
  <1>1. i \in 1 .. Len(s) + 1 /\ j \in i - 1 .. Len(s)
    BY LenProperties
  <1>2. /\ SubSeq(s, i, j) \in Seq(S)
        /\ Len(SubSeq(s, i, j)) = IF j < i THEN 0 ELSE j - i + 1
        /\ \A k \in 1 .. j - i + 1 : SubSeq(s, i, j)[k] = s[k + i - 1]
    BY <1>1, SubSeqProperties
  <1> QED BY <1>2, <1>1

LEMMA HeadOf ==
  ASSUME NEW S, NEW s \in Seq(S), NEW j \in 0 .. Len(s)
  PROVE  /\ SubSeq(s, 1, j) \in Seq(S)
         /\ Len(SubSeq(s, 1, j)) = j
         /\ \A k \in 1 .. j : SubSeq(s, 1, j)[k] = s[k]
  <1>1. j \in Nat /\ j <= Len(s)
    BY LenProperties
  <1> QED BY <1>1, SubSeqOf

LEMMA TailOf ==
  ASSUME NEW S, NEW s \in Seq(S), NEW i \in 0 .. Len(s)
  PROVE  /\ SubSeq(s, i + 1, Len(s)) \in Seq(S)
         /\ Len(SubSeq(s, i + 1, Len(s))) = Len(s) - i
         /\ \A k \in 1 .. Len(s) - i : SubSeq(s, i + 1, Len(s))[k] = s[i + k]
  <1> DEFINE l == Len(s)
  <1>1. i \in Nat /\ l \in Nat /\ i <= l /\ i + 1 \in Nat \ {0} /\ i + 1 <= l + 1 /\ l <= Len(s)
    BY LenProperties
  <1> HIDE DEF l
  <1>2. /\ SubSeq(s, i + 1, l) \in Seq(S)
        /\ Len(SubSeq(s, i + 1, l)) = l - (i + 1) + 1
        /\ \A k \in 1 .. l - (i + 1) + 1 : SubSeq(s, i + 1, l)[k] = s[(i + 1) + k - 1]
    BY <1>1, SubSeqOf
  <1>3. \A k \in 1 .. l - i : SubSeq(s, i + 1, l)[k] = s[i + k]
    <2> SUFFICES ASSUME NEW k \in 1 .. l - i PROVE SubSeq(s, i + 1, l)[k] = s[i + k]
      OBVIOUS
    <2>1. k \in 1 .. l - (i + 1) + 1 /\ (i + 1) + k - 1 = i + k
      BY <1>1
    <2> QED BY <2>1, <1>2
  <1>4. l - (i + 1) + 1 = l - i
    BY <1>1
  <1> QED BY <1>2, <1>3, <1>4 DEF l

-----------------------------------------------------------------------------
(* Counting *)

\* At most a members of a set of numbers have no more than a members up to them.
LEMMA FewAtFront ==
  ASSUME NEW n \in Nat, NEW S \in SUBSET (1 .. n), NEW a \in Nat,
         NEW F, F = {i \in S : Cardinality({j \in S : j <= i}) <= a}
  PROVE  IsFiniteSet(F) /\ Cardinality(F) <= a
  <1>1. IsFiniteSet(S)
    <2>1. IsFiniteSet(1 .. n)
      BY FS_Interval
    <2> QED BY <2>1, FS_Subset
  <1>2. IsFiniteSet(F) /\ Cardinality(F) \in Nat
    <2>1. F \in SUBSET S
      OBVIOUS
    <2>2. IsFiniteSet(F)
      BY <1>1, <2>1, FS_Subset
    <2> QED BY <2>2, FS_CardinalityType
  <1>3. CASE F = {}
    <2>1. Cardinality(F) = 0
      BY <1>3, FS_EmptySet
    <2>2. 0 <= a
      OBVIOUS
    <2> QED BY <1>2, <2>1, <2>2
  <1>4. CASE F # {}
    <2>1. F \in SUBSET (0 .. n)
      <3>1. \A i \in F : i \in S
        OBVIOUS
      <3>2. \A i \in S : i \in 0 .. n
        OBVIOUS
      <3> QED BY <3>1, <3>2
    <2>2. Max(F) \in F /\ \A i \in F : Max(F) >= i
      BY <1>4, <2>1, GreatestElement
    <2> DEFINE g == Max(F)
               U == {j \in S : j <= g}
    <2>3. \A i \in F : i \in U
      BY <2>2
    <2>4. IsFiniteSet(U) /\ Cardinality(U) \in Nat /\ Cardinality(U) <= a
      <3>1. U \in SUBSET S
        OBVIOUS
      <3>2. Cardinality(U) <= a
        BY <2>2
      <3>3. IsFiniteSet(U)
        <4> HIDE DEF U
        <4> QED BY <1>1, <3>1, FS_Subset
      <3> QED BY <3>2, <3>3, FS_CardinalityType
    <2> HIDE DEF U
    <2>5. Cardinality(F) <= Cardinality(U)
      BY <2>3, <2>4, FS_Subset
    <2> QED BY <1>2, <2>4, <2>5
  <1> QED BY <1>2, <1>3, <1>4

=============================================================================
