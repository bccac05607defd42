----------------------------- MODULE RateLimiter -----------------------------
(***************************************************************************)
(* InMemoryRateLimiter of langchain_core/rate_limiters.py, a token bucket. *)
(* _consume runs under a lock and reads the clock inside it, so it is one  *)
(* step at the time it reads; acquire calls it once, or until it returns   *)
(* True, from any thread.  Time passes in ticks, credit is counted in      *)
(* parts of a token, as fine as rate and ticks ask for.                    *)
(***************************************************************************)
EXTENDS Integers

CONSTANTS
  Token,    \* parts of one token
  Rate,     \* requests_per_second: parts that a tick adds
  Size,     \* max_bucket_size in parts
  Never,    \* last is None
  MaxTime   \* ticks until the end

\* "Must be at least `1`", says __init__ of max_bucket_size.
ASSUME BucketAssumption ==
  /\ Token \in Nat \ {0} /\ Rate \in Nat \ {0}
  /\ Size \in Nat /\ Size >= Token
  /\ Never \notin Nat
  /\ MaxTime \in Nat

VARIABLES
  now,        \* time.monotonic()
  last,       \* when credit was last added
  available,  \* available_tokens in parts
  first,      \* history: when _consume was first called
  granted,    \* history: tokens taken since then
  clipped,    \* history: the bucket has once been full
  since,      \* history: the beginning of some period, opened at any time
  taken       \* history: tokens taken in it

bucket == <<last, available>>
window == <<since, taken>>
vars   == <<now, last, available, first, granted, clipped, since, taken>>

Init ==
  /\ now = 0 /\ last = Never /\ available = 0
  /\ first = Never /\ granted = 0 /\ clipped = FALSE
  /\ since = Never /\ taken = 0

Lesser(a, b) == IF a <= b THEN a ELSE b

\* The first call only starts the clock.
From_Creation == IF last = Never THEN 0 ELSE last

From == IF last = Never THEN now ELSE last

\* A whole token has come together since credit was last added.
Earned == (now - From) * Rate >= Token

Clip(credit) == Lesser(credit, Size)

Credit_ClippedBefore ==
  IF Earned THEN Clip(available) + (now - From) * Rate ELSE available

\* available_tokens when it is looked at.
Credit == Clip(IF Earned THEN available + (now - From) * Rate ELSE available)

LastAfter == IF Earned THEN now ELSE From

\* _consume
Consume ==
  /\ last' = LastAfter
  /\ IF Credit >= Token
       THEN /\ available' = Credit - Token
            /\ granted' = granted + 1
            /\ taken' = IF since = Never THEN taken ELSE taken + 1
       ELSE available' = Credit /\ UNCHANGED <<granted, taken>>
  /\ first' = IF first = Never THEN now ELSE first
  /\ clipped' = (clipped \/ (Earned /\ available + (now - From) * Rate > Size))
  /\ UNCHANGED <<now, since>>

Tick == now < MaxTime /\ now' = now + 1 /\ UNCHANGED <<bucket, first, granted, clipped, window>>

\* The period that is looked at begins.
Open == since = Never /\ since' = now /\ taken' = 0 /\ UNCHANGED <<now, bucket, first, granted, clipped>>

Next == Consume \/ Tick \/ Open

Spec == Init /\ [][Next]_vars
=============================================================================
