\* A tick adds two fifths of a token; the bucket holds two tokens and a part.
CONSTANTS
  Token = 5
  Rate = 2
  Size = 12
  Never = Never
  MaxTime = 20
SPECIFICATION Spec
INVARIANT RateKept CreditKept
