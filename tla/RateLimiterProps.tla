--------------------------- MODULE RateLimiterProps ---------------------------
(***************************************************************************)
(* What is checked of RateLimiter.                                         *)
(***************************************************************************)
EXTENDS RateLimiter

\* Types, the first call, and what no call leaves behind: more credit than the bucket
\* holds without the token that was just taken.
TypeOK ==
  /\ now \in Nat /\ granted \in Nat /\ taken \in Nat /\ clipped \in BOOLEAN
  /\ available \in 0 .. Size - Token
  /\ first = Never <=> last = Never
  /\ first # Never => first \in Nat /\ last \in first .. now
  /\ since # Never => since \in 0 .. now

\* In any period no more tokens are taken than a full bucket has and the rate adds:
\* though credit is added late, in lumps, and clipped only afterwards.
RateKept ==
  since # Never => Token * taken <= Size + Rate * (now - since)

\* "initialize on first call to avoid a burst": from the first call on what was taken
\* and what is left is at most what the rate has added, without a bucket to begin
\* with; and as long as the bucket was never full it is exactly that, however often
\* _consume is called between two whole tokens.
CreditKept ==
  first # Never =>
    /\ Token * granted + available <= Rate * (last - first)
    /\ ~clipped => Token * granted + available = Rate * (last - first)
=============================================================================
